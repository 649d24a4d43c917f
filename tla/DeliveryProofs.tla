--------------------------- MODULE DeliveryProofs ---------------------------
(***************************************************************************)
(* Proofs about payloads of any length, with any number of events, in every *)
(* encoding and cut at any byte, for words of any size.                    *)
(*                                                                         *)
(* The transcoders and the parsers of numbers are recursive functions.     *)
(* What they compute is proved by their defining equations and a smallest  *)
(* counterexample: the shortest prefix for which a claim fails.            *)
(***************************************************************************)
EXTENDS DeliveryProps, SumTheorems, TLAPS

----------------------------------------------------------------------------
(* Concatenation of a sequence of sequences                                *)

FlattenTurn(s, g, i) == IF i = 1 THEN s[i] ELSE g[i - 1] \o s[i]

IsFlattening(s, g) == g = [i \in 1..Len(s) |-> FlattenTurn(s, g, i)]

(* The library takes the last entry of a table that satisfies the recursion. *)
LEMMA FlattenIsChoice ==
  ASSUME NEW s, Len(s) # 0
  PROVE  FlattenSeq(s) = (CHOOSE g : IsFlattening(s, g))[Len(s)]
BY DEF FlattenSeq, IsFlattening, FlattenTurn

(* There is one: it is built up for the first n sequences. *)
LEMMA FlattenExists ==
  ASSUME NEW S, NEW s \in Seq(Seq(S))
  PROVE  \E g : IsFlattening(s, g)
<1> DEFINE On(n, g) == g = [i \in 1..n |-> FlattenTurn(s, g, i)]
           Bad == {n \in Nat : n <= Len(s) /\ ~ \E g : On(n, g)}
<1>1. \E g : On(0, g)
  <2>1. On(0, [i \in 1..0 |-> <<>>])
    OBVIOUS
  <2>. QED  BY <2>1
<1>2. ASSUME NEW n \in Nat, NEW g, On(n, g)
      PROVE  \E h : On(n + 1, h)
  <2> DEFINE h == [i \in 1..(n + 1) |-> FlattenTurn(s, g, i)]
  <2>1. \A i \in 1..n : h[i] = g[i]
    BY <1>2
  <2>2. h = [i \in 1..(n + 1) |-> FlattenTurn(s, g, i)]
    OBVIOUS
  <2> HIDE DEF h
  <2>3. \A i \in 1..(n + 1) : FlattenTurn(s, h, i) = FlattenTurn(s, g, i)
    <3> SUFFICES ASSUME NEW i \in 1..(n + 1)
                 PROVE  FlattenTurn(s, h, i) = FlattenTurn(s, g, i)
      OBVIOUS
    <3>1. i # 1 => h[i - 1] = g[i - 1]
      BY <2>1
    <3>. QED  BY <3>1 DEF FlattenTurn
  <2>4. On(n + 1, h)
    BY <2>2, <2>3
  <2>. QED  BY <2>4
<1>3. Bad = {}
  <2> SUFFICES ASSUME Bad # {} PROVE FALSE
    OBVIOUS
  <2>1. PICK n \in Bad : \A m \in Bad : n <= m
    BY LeastNumber
  <2>2. n \in Nat /\ n <= Len(s) /\ n # 0 /\ Len(s) \in Nat
    <3>1. n \in Nat /\ n <= Len(s) /\ ~ \E g : On(n, g)
      OBVIOUS
    <3>2. n # 0
      BY <3>1, <1>1, Zenon
    <3>. QED  BY <3>1, <3>2
  <2>3. n - 1 \in Nat /\ n - 1 <= Len(s) /\ ~(n <= n - 1)
    BY <2>2
  <2>4. \E g : On(n - 1, g)
    BY <2>1, <2>3
  <2>5. \E g : On(n - 1 + 1, g)
    BY <2>3, <2>4, <1>2
  <2>. QED  BY <2>5, <2>1
<1>4. Len(s) \in Nat /\ Len(s) <= Len(s)
  OBVIOUS
<1>5. \E g : On(Len(s), g)
  BY <1>3, <1>4
<1>. QED  BY <1>5 DEF IsFlattening

(* All entries of a table are sequences over S. *)
LEMMA FlatteningType ==
  ASSUME NEW S, NEW s \in Seq(Seq(S)), NEW g, IsFlattening(s, g)
  PROVE  \A i \in 1..Len(s) : g[i] \in Seq(S)
<1> DEFINE Bad == {i \in 1..Len(s) : g[i] \notin Seq(S)}
<1> SUFFICES ASSUME Bad # {} PROVE FALSE
  OBVIOUS
<1>0. Bad \in SUBSET Nat
  OBVIOUS
<1>1. PICK n \in Bad : \A m \in Bad : n <= m
  BY <1>0, LeastNumber
<1>2. n \in 1..Len(s) /\ s[n] \in Seq(S)
  OBVIOUS
<1>3. g[n] = FlattenTurn(s, g, n)
  BY <1>2 DEF IsFlattening
<1>4. CASE n = 1
  BY <1>1, <1>2, <1>3, <1>4 DEF FlattenTurn
<1>5. CASE n # 1
  <2>1. n - 1 \in 1..Len(s) /\ n - 1 \notin Bad
    BY <1>1, <1>2, <1>5
  <2>2. g[n - 1] \in Seq(S)
    BY <2>1
  <2>3. g[n] = g[n - 1] \o s[n]
    BY <1>3, <1>5 DEF FlattenTurn
  <2>4. g[n] \in Seq(S)
    BY <2>2, <2>3, <1>2
  <2>. QED  BY <2>4, <1>1
<1>. QED  BY <1>4, <1>5

(* Nothing concatenated is nothing. *)
LEMMA FlattenEmpty == FlattenSeq(<<>>) = <<>>
BY DEF FlattenSeq

(* The concatenation is a sequence over S, and a longer one continues it. *)
LEMMA FlattenAppend ==
  ASSUME NEW S, NEW s \in Seq(Seq(S)), NEW x \in Seq(S)
  PROVE  /\ FlattenSeq(s) \in Seq(S)
         /\ FlattenSeq(Append(s, x)) = FlattenSeq(s) \o x
<1> DEFINE t == Append(s, x)
           g == CHOOSE g : IsFlattening(s, g)
           h == CHOOSE h : IsFlattening(t, h)
<1>1. t \in Seq(Seq(S)) /\ Len(t) = Len(s) + 1 /\ t[Len(s) + 1] = x /\ Len(s) \in Nat
  OBVIOUS
<1>2. \A i \in 1..Len(s) : t[i] = s[i]
  OBVIOUS
<1>3. IsFlattening(s, g) /\ IsFlattening(t, h)
  BY <1>1, FlattenExists
<1> HIDE DEF t, g, h
<1>4. FlattenSeq(t) = h[Len(s) + 1]
  BY <1>1, FlattenIsChoice DEF h
<1>5. h[Len(s) + 1] = FlattenTurn(t, h, Len(s) + 1)
  <2>1. Len(s) + 1 \in 1..Len(t)
    BY <1>1
  <2>. QED  BY <2>1, <1>3 DEF IsFlattening
<1>6. CASE Len(s) = 0
  <2>1. s = <<>>
    BY <1>6
  <2>2. FlattenSeq(s) = <<>>
    BY <2>1, FlattenEmpty
  <2>3. FlattenSeq(t) = x
    BY <1>1, <1>4, <1>5, <1>6 DEF FlattenTurn
  <2>. QED  BY <2>2, <2>3 DEF t
<1>7. CASE Len(s) # 0
  <2>1. FlattenSeq(s) = g[Len(s)]
    BY <1>7, FlattenIsChoice DEF g
  <2>2. \A i \in 1..Len(s) : h[i] = g[i]
    <3> DEFINE Bad == {i \in 1..Len(s) : h[i] # g[i]}
    <3> SUFFICES ASSUME Bad # {} PROVE FALSE
      OBVIOUS
    <3>0. Bad \in SUBSET Nat
      OBVIOUS
    <3>1. PICK n \in Bad : \A m \in Bad : n <= m
      BY <3>0, LeastNumber
    <3>2. n \in 1..Len(s) /\ n \in 1..Len(t) /\ t[n] = s[n]
      BY <1>1, <1>2
    <3>3. h[n] = FlattenTurn(t, h, n) /\ g[n] = FlattenTurn(s, g, n)
      BY <3>2, <1>3 DEF IsFlattening
    <3>4. CASE n = 1
      BY <3>1, <3>2, <3>3, <3>4 DEF FlattenTurn
    <3>5. CASE n # 1
      <4>1. n - 1 \in 1..Len(s) /\ n - 1 \notin Bad
        BY <3>1, <3>2, <3>5, <1>1
      <4>2. h[n - 1] = g[n - 1]
        BY <4>1
      <4>3. h[n] = g[n]
        BY <4>2, <3>2, <3>3, <3>5 DEF FlattenTurn
      <4>. QED  BY <4>3, <3>1
    <3>. QED  BY <3>4, <3>5
  <2>3. g[Len(s)] \in Seq(S)
    BY <1>1, <1>3, <1>7, FlatteningType
  <2>4. FlattenSeq(t) = h[Len(s)] \o x
    BY <1>1, <1>4, <1>5, <1>7 DEF FlattenTurn
  <2>5. h[Len(s)] = g[Len(s)]
    BY <2>2, <1>1, <1>7
  <2>. QED  BY <2>1, <2>3, <2>4, <2>5 DEF t
<1>. QED  BY <1>6, <1>7
----------------------------------------------------------------------------
(* Texts and their encodings, one character at a time                      *)

Scalar == {r \in Nat : 0 < r /\ r < 1114112}

(* The bytes of UTF-8, which has neither zero nor the bytes of a mark. *)
Octet == {b \in Nat : 0 < b /\ b < 248}

CodeUnit == {u \in Nat : u < 65536}

(* utf16.AppendRune *)
UnitsOf(c) ==
  IF c < 65536 THEN <<c>>
  ELSE <<55296 + (c - 65536) \div 1024, 56320 + ((c - 65536) % 1024)>>

(* The prefixes of a sequence, by one more element. *)
LEMMA PrefixFacts ==
  ASSUME NEW S, NEW t \in Seq(S)
  PROVE  /\ SubSeq(t, 1, 0) = <<>> /\ SubSeq(t, 1, Len(t)) = t
         /\ \A n \in 0..Len(t) : /\ SubSeq(t, 1, n) \in Seq(S) /\ Len(SubSeq(t, 1, n)) = n
                                 /\ \A i \in 1..n : SubSeq(t, 1, n)[i] = t[i]
         /\ \A n \in 0..(Len(t) - 1) :
              SubSeq(t, 1, n + 1) = Append(SubSeq(t, 1, n), t[n + 1])
<1>1. SubSeq(t, 1, 0) = <<>> /\ SubSeq(t, 1, Len(t)) = t
  OBVIOUS
<1>2. \A n \in 0..Len(t) : /\ SubSeq(t, 1, n) \in Seq(S) /\ Len(SubSeq(t, 1, n)) = n
                           /\ \A i \in 1..n : SubSeq(t, 1, n)[i] = t[i]
  OBVIOUS
<1>3. \A n \in 0..(Len(t) - 1) :
        SubSeq(t, 1, n + 1) = Append(SubSeq(t, 1, n), t[n + 1])
  OBVIOUS
<1>. QED  BY <1>1, <1>2, <1>3

(* A function on 1..n is a sequence of length n. *)
LEMMA FunctionIsSeq ==
  ASSUME NEW S, NEW n \in Nat, NEW f, DOMAIN f = 1..n, f = [i \in 1..n |-> f[i]],
         \A i \in 1..n : f[i] \in S
  PROVE  f \in Seq(S) /\ Len(f) = n
<1>1. f \in [1..n -> S]
  OBVIOUS
<1>. QED  BY <1>1

(* A sequence over a set is one over any larger set. *)
LEMMA SeqOfSuperset ==
  ASSUME NEW S, NEW T, S \subseteq T, NEW s \in Seq(S)
  PROVE  s \in Seq(T)
<1>1. Len(s) \in Nat /\ DOMAIN s = 1..Len(s) /\ s = [i \in 1..Len(s) |-> s[i]]
  OBVIOUS
<1>2. \A i \in 1..Len(s) : s[i] \in T
  OBVIOUS
<1>. QED  BY <1>1, <1>2, FunctionIsSeq

(* ASCII is itself; all other bytes are above it, and only the characters that
   take two units of UTF-16 begin with 240 or more. *)
LEMMA RuneBytes ==
  ASSUME NEW r \in Scalar
  PROVE  /\ AppendRune(r) \in Seq(Octet) /\ Len(AppendRune(r)) \in 1..4
         /\ r < 128 => AppendRune(r) = <<r>>
         /\ r >= 128 => \A i \in 1..Len(AppendRune(r)) : AppendRune(r)[i] >= 128
         /\ r > 65535 => AppendRune(r)[1] >= 240
<1>1. CASE r < 128
  BY SMT, <1>1 DEF AppendRune, Scalar, Octet
<1>2. CASE r >= 128 /\ r < 2048
  <2>1. AppendRune(r) = <<192 + r \div 64, 128 + (r % 64)>>
    BY SMT, <1>2 DEF AppendRune, Scalar
  <2> DEFINE a == 192 + r \div 64
             b == 128 + (r % 64)
  <2>2. a \in Octet /\ b \in Octet /\ a >= 128 /\ b >= 128
    BY SMT, <1>2 DEF Scalar, Octet
  <2> HIDE DEF a, b
  <2>3. AppendRune(r) = <<a, b>>
    BY <2>1 DEF a, b
  <2>. QED  BY SMT, <1>2, <2>2, <2>3 DEF Scalar
<1>3. CASE r >= 2048 /\ r < 65536
  <2>1. AppendRune(r) = <<224 + r \div 4096, 128 + ((r \div 64) % 64), 128 + (r % 64)>>
    BY SMT, <1>3 DEF AppendRune, Scalar
  <2> DEFINE a == 224 + r \div 4096
             b == 128 + ((r \div 64) % 64)
             c == 128 + (r % 64)
  <2>2. a \in Octet /\ b \in Octet /\ c \in Octet /\ a >= 128 /\ b >= 128 /\ c >= 128
    BY SMT, <1>3 DEF Scalar, Octet
  <2> HIDE DEF a, b, c
  <2>3. AppendRune(r) = <<a, b, c>>
    BY <2>1 DEF a, b, c
  <2>. QED  BY SMT, <1>3, <2>2, <2>3 DEF Scalar
<1>4. CASE r >= 65536
  <2>1. AppendRune(r) = <<240 + r \div 262144, 128 + ((r \div 4096) % 64),
                          128 + ((r \div 64) % 64), 128 + (r % 64)>>
    BY SMT, <1>4 DEF AppendRune, Scalar
  <2> DEFINE a == 240 + r \div 262144
             b == 128 + ((r \div 4096) % 64)
             c == 128 + ((r \div 64) % 64)
             d == 128 + (r % 64)
  <2>2. a \in Octet /\ b \in Octet /\ c \in Octet /\ d \in Octet
    BY SMT, <1>4 DEF Scalar, Octet
  <2>3. a >= 240 /\ b >= 128 /\ c >= 128 /\ d >= 128
    BY SMT, <1>4 DEF Scalar
  <2> HIDE DEF a, b, c, d
  <2>4. AppendRune(r) = <<a, b, c, d>>
    BY <2>1 DEF a, b, c, d
  <2>. QED  BY SMT, <1>4, <2>2, <2>3, <2>4 DEF Scalar, Octet
<1>. QED  BY SMT, <1>1, <1>2, <1>3, <1>4 DEF Scalar

(* A text in UTF-8 goes on with the bytes of its next character. *)
LEMMA UTF8Append ==
  ASSUME NEW t \in Seq(Scalar), NEW c \in Scalar
  PROVE  UTF8(t) \in Seq(Octet) /\ UTF8(Append(t, c)) = UTF8(t) \o AppendRune(c)
<1> DEFINE s == [i \in DOMAIN t |-> AppendRune(t[i])]
           u == [i \in DOMAIN Append(t, c) |-> AppendRune(Append(t, c)[i])]
<1>1. \A i \in DOMAIN t : AppendRune(t[i]) \in Seq(Octet)
  BY RuneBytes
<1>2. s \in Seq(Seq(Octet)) /\ AppendRune(c) \in Seq(Octet) /\ Len(s) = Len(t)
  <2>1. AppendRune(c) \in Seq(Octet) /\ DOMAIN t = 1..Len(t) /\ Len(t) \in Nat
    BY RuneBytes
  <2>2. \A i \in 1..Len(t) : s[i] \in Seq(Octet)
    BY <1>1, <2>1
  <2>3. DOMAIN s = 1..Len(t) /\ s = [i \in 1..Len(t) |-> s[i]]
    BY <2>1
  <2> HIDE DEF s
  <2>. QED  BY <2>1, <2>2, <2>3, FunctionIsSeq
<1>3. u = Append(s, AppendRune(c))
  <2>1. DOMAIN u = 1..(Len(t) + 1) /\ DOMAIN Append(s, AppendRune(c)) = 1..(Len(t) + 1)
    BY <1>2
  <2>2. \A i \in 1..(Len(t) + 1) : u[i] = Append(s, AppendRune(c))[i]
    BY <1>2
  <2>. QED  BY <2>1, <2>2, <1>2
<1>4. UTF8(t) = FlattenSeq(s) /\ UTF8(Append(t, c)) = FlattenSeq(u)
  BY DEF UTF8
<1> HIDE DEF s, u
<1>. QED  BY <1>2, <1>3, <1>4, FlattenAppend

(* No characters are no bytes. *)
LEMMA UTF8Empty == UTF8(<<>>) = <<>>
<1>1. [i \in DOMAIN <<>> |-> AppendRune(<<>>[i])] = <<>>
  OBVIOUS
<1>. QED  BY <1>1, FlattenEmpty DEF UTF8

(* A text in UTF-16 goes on with the one or two units of its next character. *)
LEMMA UnitsAppend ==
  ASSUME NEW t \in Seq(Scalar), NEW c \in Scalar
  PROVE  Units(t) \in Seq(CodeUnit) /\ Units(Append(t, c)) = Units(t) \o UnitsOf(c)
<1> DEFINE s == [i \in DOMAIN t |-> UnitsOf(t[i])]
           u == [i \in DOMAIN Append(t, c) |-> UnitsOf(Append(t, c)[i])]
<1>1. \A r \in Scalar : UnitsOf(r) \in Seq(CodeUnit)
  <2> SUFFICES ASSUME NEW r \in Scalar PROVE UnitsOf(r) \in Seq(CodeUnit)
    OBVIOUS
  <2>1. CASE r < 65536
    BY SMT, <2>1 DEF UnitsOf, Scalar, CodeUnit
  <2>2. CASE ~(r < 65536)
    <3>1. /\ 55296 + (r - 65536) \div 1024 \in CodeUnit
          /\ 56320 + ((r - 65536) % 1024) \in CodeUnit
      BY SMT, <2>2 DEF Scalar, CodeUnit
    <3>. QED  BY SMT, <2>2, <3>1 DEF UnitsOf
  <2>. QED  BY <2>1, <2>2
<1>2. s \in Seq(Seq(CodeUnit)) /\ UnitsOf(c) \in Seq(CodeUnit) /\ Len(s) = Len(t)
  <2>1. UnitsOf(c) \in Seq(CodeUnit) /\ DOMAIN t = 1..Len(t) /\ Len(t) \in Nat
    BY <1>1
  <2>2. \A i \in 1..Len(t) : s[i] \in Seq(CodeUnit)
    BY <1>1, <2>1
  <2>3. DOMAIN s = 1..Len(t) /\ s = [i \in 1..Len(t) |-> s[i]]
    BY <2>1
  <2> HIDE DEF s
  <2>. QED  BY <2>1, <2>2, <2>3, FunctionIsSeq
<1>3. u = Append(s, UnitsOf(c))
  <2>1. DOMAIN u = 1..(Len(t) + 1) /\ DOMAIN Append(s, UnitsOf(c)) = 1..(Len(t) + 1)
    BY <1>2
  <2>2. \A i \in 1..(Len(t) + 1) : u[i] = Append(s, UnitsOf(c))[i]
    BY <1>2
  <2>. QED  BY <2>1, <2>2, <1>2
<1>4. Units(t) = FlattenSeq(s) /\ Units(Append(t, c)) = FlattenSeq(u)
  BY SMT DEF Units, UnitsOf
<1> HIDE DEF s, u
<1>. QED  BY <1>2, <1>3, <1>4, FlattenAppend

(* No characters are no units. *)
LEMMA UnitsEmpty == Units(<<>>) = <<>>
<1>1. [i \in DOMAIN <<>> |-> IF <<>>[i] < 65536 THEN <<<<>>[i]>>
         ELSE <<55296 + (<<>>[i] - 65536) \div 1024, 56320 + ((<<>>[i] - 65536) % 1024)>>] = <<>>
  BY SMT
<1>. QED  BY SMT, <1>1, FlattenEmpty DEF Units
----------------------------------------------------------------------------
(* UTF-16 and back                                                         *)

(* The bytes of the encoder are those of the units, the lower one first. *)
LEMMA LittleEndian ==
  ASSUME NEW t \in Seq(Scalar)
  PROVE  /\ Units(t) \in Seq(CodeUnit)
         /\ EncodeUTF16LE(t) \in Seq(Nat) /\ Len(EncodeUTF16LE(t)) = 2 * Len(Units(t))
         /\ \A i \in 1..Len(Units(t)) : /\ EncodeUTF16LE(t)[2 * i - 1] = Units(t)[i] % 256
                                        /\ EncodeUTF16LE(t)[2 * i] = Units(t)[i] \div 256
<1> DEFINE u == Units(t)
           b == EncodeUTF16LE(t)
<1>1. u \in Seq(CodeUnit)
  <2>1. 1 \in Scalar
    BY SMT DEF Scalar
  <2>. QED  BY <2>1, UnitsAppend
<1>2. Len(u) \in Nat /\ \A i \in 1..Len(u) : u[i] \in Nat
  BY <1>1, SMT DEF CodeUnit
<1>3. b = [i \in 1..(2 * Len(u)) |->
             IF i % 2 = 1 THEN u[(i + 1) \div 2] % 256 ELSE u[i \div 2] \div 256]
  BY DEF EncodeUTF16LE
<1> HIDE DEF u, b
<1>4. \A i \in 1..Len(u) : b[2 * i - 1] = u[i] % 256 /\ b[2 * i] = u[i] \div 256
  <2> SUFFICES ASSUME NEW i \in 1..Len(u)
               PROVE  b[2 * i - 1] = u[i] % 256 /\ b[2 * i] = u[i] \div 256
    OBVIOUS
  <2>1. /\ 2 * i - 1 \in 1..(2 * Len(u)) /\ 2 * i \in 1..(2 * Len(u))
        /\ (2 * i - 1) % 2 = 1 /\ (2 * i) % 2 # 1
        /\ (2 * i - 1 + 1) \div 2 = i /\ (2 * i) \div 2 = i
    BY <1>2
  <2>. QED  BY <2>1, <1>3
<1>5. \A j \in 1..(2 * Len(u)) : b[j] \in Nat
  <2> SUFFICES ASSUME NEW j \in 1..(2 * Len(u)) PROVE b[j] \in Nat
    OBVIOUS
  <2>1. CASE j % 2 = 1
    <3>1. (j + 1) \div 2 \in 1..Len(u) /\ b[j] = u[(j + 1) \div 2] % 256
      BY <1>2, <1>3, <2>1
    <3>. QED  BY <3>1, <1>2
  <2>2. CASE j % 2 # 1
    <3>1. j \div 2 \in 1..Len(u) /\ b[j] = u[j \div 2] \div 256
      BY <1>2, <1>3, <2>2
    <3>. QED  BY <3>1, <1>2
  <2>. QED  BY <2>1, <2>2
<1>6. 2 * Len(u) \in Nat /\ DOMAIN b = 1..(2 * Len(u)) /\ b = [j \in 1..(2 * Len(u)) |-> b[j]]
  BY <1>2, <1>3
<1>7. b \in Seq(Nat) /\ Len(b) = 2 * Len(u)
  BY <1>5, <1>6, FunctionIsSeq
<1>. QED  BY <1>1, <1>4, <1>7 DEF u, b

(* The bytes of code units, in either order. *)
FirstByte(x, little)  == IF little THEN x % 256 ELSE x \div 256
SecondByte(x, little) == IF little THEN x \div 256 ELSE x % 256

Carries(b, u, little) ==
  /\ b \in Seq(Nat) /\ Len(b) = 2 * Len(u)
  /\ \A i \in 1..Len(u) : /\ b[2 * i - 1] = FirstByte(u[i], little)
                          /\ b[2 * i] = SecondByte(u[i], little)

(* A unit is its two bytes. *)
LEMMA TwoBytes == \A x \in Nat : /\ (x % 256) + 256 * (x \div 256) = x
                                 /\ x % 256 \in Nat /\ x \div 256 \in Nat
OBVIOUS

(* Reading the bytes of the first k units gives those units. *)
LEMMA PairsAreUnits ==
  ASSUME NEW u \in Seq(CodeUnit), NEW k \in 0..Len(u), NEW b \in Seq(Nat), Len(b) = 2 * k,
         NEW little \in BOOLEAN,
         \A i \in 1..k : /\ b[2 * i - 1] = FirstByte(u[i], little)
                         /\ b[2 * i] = SecondByte(u[i], little)
  PROVE  Pairs(b, little) = SubSeq(u, 1, k)
<1>1. k \in Nat /\ Len(b) \div 2 = k /\ \A i \in 1..k : u[i] \in Nat
  BY SMT DEF CodeUnit
<1>2. \A i \in 1..k : Pairs(b, little)[i] = u[i]
  <2> SUFFICES ASSUME NEW i \in 1..k PROVE Pairs(b, little)[i] = u[i]
    OBVIOUS
  <2>0. u[i] \in Nat
    BY <1>1
  <2>1. (u[i] % 256) + 256 * (u[i] \div 256) = u[i]
    BY <2>0, TwoBytes, Zenon
  <2>2. Pairs(b, little)[i] = IF little THEN b[2 * i - 1] + 256 * b[2 * i]
                                        ELSE 256 * b[2 * i - 1] + b[2 * i]
    BY <1>1 DEF Pairs
  <2>3. u[i] % 256 \in Nat /\ u[i] \div 256 \in Nat
    BY <2>0, TwoBytes, Zenon
  <2>4. CASE little
    <3>1. b[2 * i - 1] = u[i] % 256 /\ b[2 * i] = u[i] \div 256
      BY <2>4, Zenon DEF FirstByte, SecondByte
    <3>. QED  BY <2>1, <2>2, <2>4, <3>1
  <2>5. CASE ~little
    <3>1. b[2 * i] = u[i] % 256 /\ b[2 * i - 1] = u[i] \div 256
      BY <2>5, Zenon DEF FirstByte, SecondByte
    <3>. QED  BY <2>1, <2>2, <2>3, <2>5, <3>1
  <2>. QED  BY <2>4, <2>5
<1>3. Pairs(b, little) = [i \in 1..k |-> u[i]]
  <2>1. DOMAIN Pairs(b, little) = 1..k /\ Pairs(b, little) = [i \in 1..k |-> Pairs(b, little)[i]]
    BY <1>1 DEF Pairs
  <2>. QED  BY <2>1, <1>2
<1>4. SubSeq(u, 1, k) = [i \in 1..k |-> u[i]]
  OBVIOUS
<1>. QED  BY <1>3, <1>4

(* What the publishers' encoders write. *)
LEMMA EncodersCarry ==
  ASSUME NEW t \in Seq(Scalar)
  PROVE  /\ Carries(EncodeUTF16LE(t), Units(t), TRUE)
         /\ Carries(BigEndian(EncodeUTF16LE(t)), Units(t), FALSE)
<1> DEFINE u == Units(t)
           x == EncodeUTF16LE(t)
           y == BigEndian(x)
<1>1. /\ u \in Seq(CodeUnit) /\ x \in Seq(Nat) /\ Len(x) = 2 * Len(u)
      /\ \A i \in 1..Len(u) : x[2 * i - 1] = u[i] % 256 /\ x[2 * i] = u[i] \div 256
  BY LittleEndian
<1> HIDE DEF u, x
<1>2. Len(u) \in Nat
  BY <1>1
<1>3. y = [i \in 1..(2 * Len(u)) |-> IF i % 2 = 1 THEN x[i + 1] ELSE x[i - 1]]
  BY <1>1, <1>2 DEF BigEndian
<1>4. \A i \in 1..Len(u) : y[2 * i - 1] = x[2 * i] /\ y[2 * i] = x[2 * i - 1]
  <2> SUFFICES ASSUME NEW i \in 1..Len(u) PROVE y[2 * i - 1] = x[2 * i] /\ y[2 * i] = x[2 * i - 1]
    OBVIOUS
  <2>1. /\ i \in Nat /\ 2 * i \in 1..(2 * Len(u)) /\ 2 * i - 1 \in 1..(2 * Len(u))
        /\ (2 * i) % 2 = 0 /\ (2 * i - 1) % 2 = 1 /\ (2 * i - 1) + 1 = 2 * i
    BY <1>2
  <2>. QED  BY <1>3, <2>1
<1>5. \A i \in 1..(2 * Len(u)) : y[i] \in Nat
  <2> SUFFICES ASSUME NEW i \in 1..(2 * Len(u)) PROVE y[i] \in Nat
    OBVIOUS
  <2>1. i % 2 = 1 => i + 1 \in 1..(2 * Len(u))
    BY <1>2
  <2>2. i % 2 # 1 => i - 1 \in 1..(2 * Len(u))
    BY <1>2
  <2>3. \A j \in 1..(2 * Len(u)) : x[j] \in Nat
    BY <1>1, <1>2
  <2>. QED  BY <1>3, <2>1, <2>2, <2>3
<1>6. y \in Seq(Nat) /\ Len(y) = 2 * Len(u)
  <2>1. DOMAIN y = 1..(2 * Len(u)) /\ y = [i \in 1..(2 * Len(u)) |-> y[i]] /\ 2 * Len(u) \in Nat
    BY <1>2, <1>3
  <2> HIDE DEF y
  <2>. QED  BY <1>5, <2>1, FunctionIsSeq
<1> HIDE DEF y
<1> DEFINE yes == TRUE
           no == FALSE
<1>7. \A z : /\ FirstByte(z, yes) = z % 256 /\ SecondByte(z, yes) = z \div 256
              /\ FirstByte(z, no) = z \div 256 /\ SecondByte(z, no) = z % 256
  BY Zenon DEF FirstByte, SecondByte
<1> HIDE DEF yes, no
<1>8. Carries(x, u, yes)
  BY <1>1, <1>7 DEF Carries
<1>9. Carries(y, u, no)
  BY <1>1, <1>4, <1>6, <1>7 DEF Carries
<1>. QED  BY <1>8, <1>9, Zenon DEF u, x, y, yes, no

(* Nothing else carries the same units in the same order. *)
LEMMA CarriedOnce ==
  ASSUME NEW u \in Seq(CodeUnit), NEW little \in BOOLEAN, NEW b, NEW c,
         Carries(b, u, little), Carries(c, u, little)
  PROVE  b = c
<1>1. /\ b \in Seq(Nat) /\ c \in Seq(Nat) /\ Len(b) = 2 * Len(u) /\ Len(c) = 2 * Len(u)
      /\ Len(u) \in Nat
  BY DEF Carries
<1>2. \A i \in 1..Len(u) : b[2 * i - 1] = c[2 * i - 1] /\ b[2 * i] = c[2 * i]
  BY DEF Carries
<1>3. \A j \in 1..(2 * Len(u)) : b[j] = c[j]
  <2> SUFFICES ASSUME NEW j \in 1..(2 * Len(u)) PROVE b[j] = c[j]
    OBVIOUS
  <2>1. \E i \in 1..Len(u) : j = 2 * i \/ j = 2 * i - 1
    <3>1. CASE j % 2 = 0
      <4>1. j \div 2 \in 1..Len(u) /\ j = 2 * (j \div 2)
        BY <1>1, <3>1
      <4>. QED  BY <4>1
    <3>2. CASE j % 2 # 0
      <4>1. j = 2 * (j \div 2) + 1 /\ j \div 2 \in Nat /\ j \div 2 < Len(u)
        BY <1>1, <3>2
      <4>2. j \div 2 + 1 \in 1..Len(u) /\ j = 2 * (j \div 2 + 1) - 1
        BY <1>1, <4>1
      <4>. QED  BY <4>2
    <3>. QED  BY <3>1, <3>2
  <2>. QED  BY <1>2, <2>1
<1>. QED  BY <1>1, <1>3

(* The bytes of the first k units carry these, and are decoded to them. *)
LEMMA CarriedPart ==
  ASSUME NEW u \in Seq(CodeUnit), NEW k \in 0..Len(u), NEW little \in BOOLEAN, NEW b,
         Carries(b, u, little)
  PROVE  /\ Carries(SubSeq(b, 1, 2 * k), SubSeq(u, 1, k), little)
         /\ Pairs(SubSeq(b, 1, 2 * k), little) = SubSeq(u, 1, k)
<1>1. /\ b \in Seq(Nat) /\ Len(b) = 2 * Len(u) /\ Len(u) \in Nat /\ k \in Nat /\ k <= Len(u)
      /\ 2 * k \in 0..Len(b)
  BY DEF Carries
<1> DEFINE c == SubSeq(b, 1, 2 * k)
           v == SubSeq(u, 1, k)
<1>2. c \in Seq(Nat) /\ Len(c) = 2 * k /\ \A i \in 1..(2 * k) : c[i] = b[i]
  BY <1>1, PrefixFacts
<1>3. v \in Seq(CodeUnit) /\ Len(v) = k /\ \A i \in 1..k : v[i] = u[i]
  BY <1>1, PrefixFacts
<1> HIDE DEF c, v
<1>4. \A i \in 1..k : /\ b[2 * i - 1] = FirstByte(u[i], little)
                      /\ b[2 * i] = SecondByte(u[i], little)
  <2>1. \A i \in 1..Len(u) : /\ b[2 * i - 1] = FirstByte(u[i], little)
                            /\ b[2 * i] = SecondByte(u[i], little)
    BY Zenon DEF Carries
  <2>2. \A i \in 1..k : i \in 1..Len(u)
    BY <1>1
  <2>. QED  BY <2>1, <2>2, Zenon
<1>5. \A i \in 1..k : c[2 * i] = b[2 * i] /\ c[2 * i - 1] = b[2 * i - 1]
  <2> SUFFICES ASSUME NEW i \in 1..k PROVE c[2 * i] = b[2 * i] /\ c[2 * i - 1] = b[2 * i - 1]
    OBVIOUS
  <2>1. 2 * i \in 1..(2 * k) /\ 2 * i - 1 \in 1..(2 * k)
    BY <1>1
  <2>. QED  BY <1>2, <2>1
<1>6. \A i \in 1..k : /\ c[2 * i - 1] = FirstByte(u[i], little)
                      /\ c[2 * i] = SecondByte(u[i], little)
  BY <1>4, <1>5
<1>7. Carries(c, v, little)
  BY <1>2, <1>3, <1>6 DEF Carries
<1>8. Pairs(c, little) = SubSeq(u, 1, k)
  BY <1>2, <1>6, PairsAreUnits
<1>. QED  BY <1>7, <1>8 DEF c, v

PairRune(h, l) == 65536 + (h - 55296) * 1024 + (l - 56320)

(* One or two units, and what they stand for. *)
LEMMA UnitsOfScalar ==
  ASSUME NEW c \in Scalar
  PROVE  /\ c < 65536 => UnitsOf(c) = <<c>> /\ c \in CodeUnit
         /\ c >= 65536 => \E h, l \in CodeUnit :
              /\ UnitsOf(c) = <<h, l>> /\ High(h) /\ Low(l)
              /\ PairRune(h, l) = c
<1>1. c < 65536 => UnitsOf(c) = <<c>> /\ c \in CodeUnit
  BY SMT DEF UnitsOf, Scalar, CodeUnit
<1>2. ASSUME c >= 65536
      PROVE  \E h, l \in CodeUnit :
               /\ UnitsOf(c) = <<h, l>> /\ High(h) /\ Low(l)
               /\ PairRune(h, l) = c
  <2> DEFINE h == 55296 + (c - 65536) \div 1024
             l == 56320 + ((c - 65536) % 1024)
  <2>1. /\ h \in CodeUnit /\ l \in CodeUnit /\ High(h) /\ Low(l)
        /\ PairRune(h, l) = c
    BY SMT, <1>2 DEF Scalar, CodeUnit, High, Low, PairRune
  <2>2. UnitsOf(c) = <<h, l>>
    BY SMT, <1>2 DEF UnitsOf, Scalar
  <2> HIDE DEF h, l
  <2>. QED  BY <2>1, <2>2
<1>. QED  BY <1>1, <1>2

(* No unit at the end that waits for another. *)
Closed(u) == u = <<>> \/ ~High(u[Len(u)])

(* What utf16.Decode makes of the unit at i. *)
RuneAt(u, i) ==
  IF PairAt(u, i) THEN <<65536 + (u[i] - 55296) * 1024 + (u[i + 1] - 56320)>>
  ELSE IF PairAt(u, i - 1) THEN <<>>
  ELSE <<IF High(u[i]) \/ Low(u[i]) THEN Replacement ELSE u[i]>>

RunesAt(u) == [i \in DOMAIN u |-> RuneAt(u, i)]

(* utf16.Decode is a concatenation of one entry for each unit, empty after a pair. *)
LEMMA RunesAtType ==
  ASSUME NEW u \in Seq(CodeUnit)
  PROVE  /\ Runes(u) = FlattenSeq(RunesAt(u))
         /\ RunesAt(u) \in Seq(Seq(Nat)) /\ Len(RunesAt(u)) = Len(u)
         /\ \A i \in 1..Len(u) : RunesAt(u)[i] = RuneAt(u, i)
<1>1. Runes(u) = FlattenSeq(RunesAt(u))
  BY SMT DEF Runes, RunesAt, RuneAt
<1>2. Len(u) \in Nat /\ DOMAIN u = 1..Len(u) /\ \A i \in 1..Len(u) : u[i] \in Nat
  BY SMT DEF CodeUnit
<1>3. \A i \in 1..Len(u) : RuneAt(u, i) \in Seq(Nat)
  <2> SUFFICES ASSUME NEW i \in 1..Len(u) PROVE RuneAt(u, i) \in Seq(Nat)
    OBVIOUS
  <2>1. CASE PairAt(u, i)
    <3>1. u[i] \in Nat /\ u[i + 1] \in Nat /\ u[i] >= 55296 /\ u[i + 1] >= 56320
      BY SMT, <1>2, <2>1 DEF PairAt, High, Low
    <3>2. 65536 + (u[i] - 55296) * 1024 + (u[i + 1] - 56320) \in Nat
      BY SMT, <3>1
    <3>. QED  BY SMT, <2>1, <3>2 DEF RuneAt
  <2>2. CASE ~PairAt(u, i)
    <3>1. u[i] \in Nat /\ Replacement \in Nat
      BY SMT, <1>2 DEF Replacement
    <3>. QED  BY SMT, <2>2, <3>1 DEF RuneAt
  <2>. QED  BY <2>1, <2>2
<1>4. \A i \in 1..Len(u) : RunesAt(u)[i] = RuneAt(u, i)
  BY <1>2 DEF RunesAt
<1>5. DOMAIN RunesAt(u) = 1..Len(u) /\ RunesAt(u) = [i \in 1..Len(u) |-> RunesAt(u)[i]]
  BY <1>2 DEF RunesAt
<1>6. \A i \in 1..Len(u) : RunesAt(u)[i] \in Seq(Nat)
  BY <1>3, <1>4
<1>7. RunesAt(u) \in Seq(Seq(Nat)) /\ Len(RunesAt(u)) = Len(u)
  BY <1>2, <1>5, <1>6, FunctionIsSeq
<1>. QED  BY <1>1, <1>4, <1>7

(* What was decoded stays as it is when more units arrive. *)
LEMMA RunesKeep ==
  ASSUME NEW u \in Seq(CodeUnit), Closed(u), NEW v \in Seq(CodeUnit), Len(v) >= Len(u),
         \A i \in 1..Len(u) : v[i] = u[i]
  PROVE  /\ \A i \in 1..Len(u) : RuneAt(v, i) = RuneAt(u, i)
         /\ ~PairAt(v, Len(u))
<1>1. Len(u) \in Nat /\ Len(v) \in Nat
  OBVIOUS
<1>2. ~PairAt(v, Len(u)) /\ ~PairAt(u, Len(u))
  <2>1. ~PairAt(u, Len(u))
    BY <1>1 DEF PairAt
  <2>2. CASE u = <<>>
    BY <2>1, <2>2 DEF PairAt
  <2>3. CASE u # <<>>
    <3>1. Len(u) \in 1..Len(u) /\ ~High(u[Len(u)])
      BY <2>3, <1>1 DEF Closed
    <3>2. v[Len(u)] = u[Len(u)]
      BY <3>1
    <3>. QED  BY <2>1, <3>1, <3>2 DEF PairAt
  <2>. QED  BY <2>2, <2>3
<1>3. \A i \in 0..Len(u) : PairAt(v, i) = PairAt(u, i)
  <2> SUFFICES ASSUME NEW i \in 0..Len(u) PROVE PairAt(v, i) = PairAt(u, i)
    OBVIOUS
  <2>1. CASE i = Len(u)
    BY <1>2, <2>1 DEF PairAt
  <2>2. CASE i = 0
    BY <2>2 DEF PairAt
  <2>3. CASE i \in 1..(Len(u) - 1)
    <3>1. v[i] = u[i] /\ v[i + 1] = u[i + 1] /\ i \in 1..(Len(v) - 1)
      BY <1>1, <2>3
    <3>. QED  BY <2>3, <3>1 DEF PairAt
  <2>. QED  BY <1>1, <2>1, <2>2, <2>3
<1>4. \A i \in 1..Len(u) : RuneAt(v, i) = RuneAt(u, i)
  <2> SUFFICES ASSUME NEW i \in 1..Len(u) PROVE RuneAt(v, i) = RuneAt(u, i)
    OBVIOUS
  <2>1. /\ PairAt(v, i) = PairAt(u, i) /\ PairAt(v, i - 1) = PairAt(u, i - 1) /\ v[i] = u[i]
    BY <1>1, <1>3
  <2>2. PairAt(u, i) => v[i + 1] = u[i + 1]
    BY <1>1 DEF PairAt
  <2>. QED  BY SMT, <2>1, <2>2 DEF RuneAt
<1>. QED  BY <1>2, <1>4

(* A character of one unit, or the first half of a pair, is decoded by itself. *)
LEMMA RunesAppendOne ==
  ASSUME NEW u \in Seq(CodeUnit), Closed(u), NEW x \in CodeUnit
  PROVE  /\ Runes(u) \in Seq(Nat)
         /\ ~High(x) /\ ~Low(x) => Runes(Append(u, x)) = Append(Runes(u), x)
         /\ High(x) => Runes(Append(u, x)) = Append(Runes(u), Replacement)
<1> DEFINE v == Append(u, x)
           y == IF High(x) \/ Low(x) THEN Replacement ELSE x
<1>1. /\ v \in Seq(CodeUnit) /\ Len(v) = Len(u) + 1 /\ Len(u) \in Nat /\ v[Len(u) + 1] = x
      /\ \A i \in 1..Len(u) : v[i] = u[i]
  OBVIOUS
<1>2. y \in Nat
  BY SMT DEF CodeUnit, Replacement
<1> HIDE DEF v
<1>a. Len(v) >= Len(u)
  BY <1>1
<1>4. ~PairAt(v, Len(u)) /\ \A i \in 1..Len(u) : RuneAt(v, i) = RuneAt(u, i)
  BY <1>1, <1>a, RunesKeep
<1>3. RuneAt(v, Len(u) + 1) = <<y>>
  <2>2. ~PairAt(v, Len(u) + 1) /\ ~PairAt(v, Len(u) + 1 - 1)
    BY <1>1, <1>4 DEF PairAt
  <2>. QED  BY SMT, <1>1, <2>2 DEF RuneAt
<1> HIDE DEF y
<1>5. RunesAt(v) = Append(RunesAt(u), <<y>>)
  <2>1. /\ RunesAt(v) \in Seq(Seq(Nat)) /\ Len(RunesAt(v)) = Len(u) + 1
        /\ RunesAt(u) \in Seq(Seq(Nat)) /\ Len(RunesAt(u)) = Len(u)
        /\ \A i \in 1..(Len(u) + 1) : RunesAt(v)[i] = RuneAt(v, i)
        /\ \A i \in 1..Len(u) : RunesAt(u)[i] = RuneAt(u, i)
    BY <1>1, RunesAtType
  <2>2. \A i \in 1..(Len(u) + 1) : RunesAt(v)[i] = Append(RunesAt(u), <<y>>)[i]
    BY <1>1, <1>3, <1>4, <2>1
  <2>3. Append(RunesAt(u), <<y>>) \in Seq(Seq(Nat))
    BY <1>2, <2>1
  <2>4. Len(Append(RunesAt(u), <<y>>)) = Len(u) + 1
    BY <2>1
  <2>. QED  BY <2>1, <2>2, <2>3, <2>4, <1>1
<1>6. Runes(u) \in Seq(Nat) /\ Runes(v) = Runes(u) \o <<y>>
  <2>1. /\ Runes(u) = FlattenSeq(RunesAt(u)) /\ Runes(v) = FlattenSeq(RunesAt(v))
        /\ RunesAt(u) \in Seq(Seq(Nat)) /\ <<y>> \in Seq(Nat)
    BY <1>1, <1>2, RunesAtType
  <2>. QED  BY <1>5, <2>1, FlattenAppend
<1>7. Runes(v) = Append(Runes(u), y)
  BY <1>2, <1>6
<1>. QED  BY <1>6, <1>7 DEF v, y

(* A sequence with two more elements. *)
LEMMA TwoMore ==
  ASSUME NEW S, NEW r \in Seq(S), NEW a \in S, NEW b \in S, NEW z \in Seq(S),
         Len(z) = Len(r) + 2, \A i \in 1..Len(r) : z[i] = r[i],
         z[Len(r) + 1] = a, z[Len(r) + 2] = b
  PROVE  z = Append(Append(r, a), b)
<1> DEFINE x == Append(Append(r, a), b)
<1>1. /\ x \in Seq(S) /\ Len(x) = Len(r) + 2 /\ Len(r) \in Nat
      /\ \A i \in 1..Len(r) : x[i] = r[i]
      /\ x[Len(r) + 1] = a /\ x[Len(r) + 2] = b
  OBVIOUS
<1> HIDE DEF x
<1>2. \A i \in 1..(Len(r) + 2) : i \in 1..Len(r) \/ i = Len(r) + 1 \/ i = Len(r) + 2
  BY <1>1
<1>3. \A i \in 1..(Len(r) + 2) : x[i] = z[i]
  BY <1>1, <1>2
<1>4. x = z
  BY <1>1, <1>3
<1>. QED  BY <1>4 DEF x

(* Both units of a surrogate pair add one rune. *)
LEMMA FlattenTwoMore ==
  ASSUME NEW r \in Seq(Seq(Nat)), NEW c \in Nat
  PROVE  FlattenSeq(Append(Append(r, <<c>>), <<>>)) = Append(FlattenSeq(r), c)
<1>1. <<c>> \in Seq(Nat) /\ <<>> \in Seq(Nat)
  OBVIOUS
<1>2. FlattenSeq(r) \in Seq(Nat) /\ FlattenSeq(Append(r, <<c>>)) = FlattenSeq(r) \o <<c>>
  BY <1>1, FlattenAppend
<1>3. Append(r, <<c>>) \in Seq(Seq(Nat))
  BY <1>1
<1>4. FlattenSeq(Append(Append(r, <<c>>), <<>>)) = FlattenSeq(Append(r, <<c>>)) \o <<>>
  BY <1>1, <1>3, FlattenAppend
<1>5. FlattenSeq(r) \o <<c>> = Append(FlattenSeq(r), c) /\ FlattenSeq(r) \o <<c>> \in Seq(Nat)
  BY <1>2
<1>. QED  BY <1>2, <1>4, <1>5

(* A pair is decoded as one character. *)
LEMMA RunesAppendPair ==
  ASSUME NEW u \in Seq(CodeUnit), Closed(u), NEW h \in CodeUnit, NEW l \in CodeUnit,
         High(h), Low(l)
  PROVE  Runes(u \o <<h, l>>) = Append(Runes(u), PairRune(h, l))
<1> DEFINE v == u \o <<h, l>>
           c == PairRune(h, l)
<1>1. /\ v \in Seq(CodeUnit) /\ Len(v) = Len(u) + 2 /\ Len(u) \in Nat
      /\ v[Len(u) + 1] = h /\ v[Len(u) + 2] = l /\ \A i \in 1..Len(u) : v[i] = u[i]
  OBVIOUS
<1>2. RuneAt(v, Len(u) + 1) = <<c>> /\ RuneAt(v, Len(u) + 2) = <<>> /\ c \in Nat
  <2>0. c \in Nat
    BY SMT DEF PairRune, High, Low, CodeUnit
  <2>1. PairAt(v, Len(u) + 1) /\ ~PairAt(v, Len(u) + 2) /\ PairAt(v, Len(u) + 2 - 1)
    BY <1>1 DEF PairAt
  <2>2. v[Len(u) + 1 + 1] = l
    BY <1>1
  <2>. QED  BY SMT, <1>1, <2>0, <2>1, <2>2 DEF RuneAt, PairRune
<1> HIDE DEF v, c
<1>a. Len(v) >= Len(u)
  BY <1>1
<1>3. \A i \in 1..Len(u) : RuneAt(v, i) = RuneAt(u, i)
  BY <1>1, <1>a, RunesKeep
<1>4. /\ RunesAt(v) \in Seq(Seq(Nat)) /\ Len(RunesAt(v)) = Len(u) + 2
      /\ RunesAt(u) \in Seq(Seq(Nat)) /\ Len(RunesAt(u)) = Len(u)
      /\ \A i \in 1..(Len(u) + 2) : RunesAt(v)[i] = RuneAt(v, i)
      /\ \A i \in 1..Len(u) : RunesAt(u)[i] = RuneAt(u, i)
      /\ Runes(u) = FlattenSeq(RunesAt(u)) /\ Runes(v) = FlattenSeq(RunesAt(v))
  BY <1>1, RunesAtType
<1> DEFINE r == RunesAt(u)
           z == RunesAt(v)
<1>5. /\ r \in Seq(Seq(Nat)) /\ Len(r) = Len(u) /\ z \in Seq(Seq(Nat)) /\ Len(z) = Len(u) + 2
      /\ \A i \in 1..Len(u) : r[i] = RuneAt(u, i)
      /\ \A i \in 1..(Len(u) + 2) : z[i] = RuneAt(v, i)
      /\ Runes(u) = FlattenSeq(r) /\ Runes(v) = FlattenSeq(z)
  BY <1>4
<1> HIDE DEF r, z
<1>6. z[Len(r) + 1] = <<c>> /\ z[Len(r) + 2] = <<>>
  <2>1. Len(u) + 1 \in 1..(Len(u) + 2) /\ Len(u) + 2 \in 1..(Len(u) + 2)
    BY <1>1
  <2>2. z[Len(u) + 1] = RuneAt(v, Len(u) + 1) /\ z[Len(u) + 2] = RuneAt(v, Len(u) + 2)
    BY <1>5, <2>1
  <2>. QED  BY <1>2, <1>5, <2>2, Zenon
<1>7. \A i \in 1..Len(r) : z[i] = r[i]
  <2> SUFFICES ASSUME NEW i \in 1..Len(u) PROVE z[i] = r[i]
    BY <1>5
  <2>1. i \in 1..(Len(u) + 2)
    BY <1>1
  <2>. QED  BY <1>3, <1>5, <2>1
<1>8. <<c>> \in Seq(Nat) /\ <<>> \in Seq(Nat) /\ Len(z) = Len(r) + 2
  BY <1>2, <1>5
<1>9. z = Append(Append(r, <<c>>), <<>>)
  <2>1. r \in Seq(Seq(Nat)) /\ z \in Seq(Seq(Nat))
    BY <1>5
  <2> DEFINE S == Seq(Nat)
             a == <<c>>
             b == <<>>
  <2>2. /\ r \in Seq(S) /\ z \in Seq(S) /\ a \in S /\ b \in S /\ Len(z) = Len(r) + 2
        /\ z[Len(r) + 1] = a /\ z[Len(r) + 2] = b
    BY <1>6, <1>8, <2>1
  <2> HIDE DEF S, a, b
  <2>3. z = Append(Append(r, a), b)
    BY <1>7, <2>2, TwoMore
  <2>. QED  BY <2>3 DEF a, b
<1>10. FlattenSeq(z) = Append(FlattenSeq(r), c)
  BY <1>2, <1>5, <1>9, FlattenTwoMore
<1>11. Runes(v) = Append(Runes(u), c)
  BY <1>5, <1>10
<1>. QED  BY <1>11 DEF v, c

(* Encoding a text and decoding it gives the text. *)
LEMMA RunesOfUnits ==
  ASSUME NEW t, IsText(t), NEW n \in 0..Len(t)
  PROVE  /\ Runes(Units(SubSeq(t, 1, n))) = SubSeq(t, 1, n)
         /\ Units(SubSeq(t, 1, n)) \in Seq(CodeUnit) /\ Closed(Units(SubSeq(t, 1, n)))
<1> DEFINE P(m) == SubSeq(t, 1, m)
           Good(m) == /\ Runes(Units(P(m))) = P(m)
                      /\ Units(P(m)) \in Seq(CodeUnit) /\ Closed(Units(P(m)))
           Bad == {m \in Nat : m <= Len(t) /\ ~Good(m)}
<1>1. t \in Seq(Scalar) /\ Len(t) \in Nat /\ \A i \in 1..Len(t) : ~High(t[i]) /\ ~Low(t[i])
  BY SMT DEF IsText, Scalar
<1>2. Good(0)
  <2>1. P(0) = <<>>
    BY <1>1, PrefixFacts
  <2>2. Runes(<<>>) = <<>>
    <3>1. <<>> \in Seq(CodeUnit) /\ Len(<<>>) = 0
      OBVIOUS
    <3>2. /\ Runes(<<>>) = FlattenSeq(RunesAt(<<>>))
          /\ RunesAt(<<>>) \in Seq(Seq(Nat)) /\ Len(RunesAt(<<>>)) = 0
      BY <3>1, RunesAtType
    <3>3. RunesAt(<<>>) = <<>>
      BY <3>2
    <3>. QED  BY <3>2, <3>3, FlattenEmpty
  <2>3. <<>> \in Seq(CodeUnit)
    OBVIOUS
  <2>. QED  BY <2>1, <2>2, <2>3, UnitsEmpty DEF Closed
<1>3. ASSUME NEW m \in Nat, m < Len(t), Good(m)
      PROVE  Good(m + 1)
  <2> DEFINE c == t[m + 1]
             u == Units(P(m))
  <2>1. /\ P(m) \in Seq(Scalar) /\ P(m + 1) = Append(P(m), c) /\ c \in Scalar
        /\ ~High(c) /\ ~Low(c)
    <3>1. m \in 0..(Len(t) - 1) /\ m + 1 \in 1..Len(t) /\ m \in 0..Len(t)
      BY <1>1, <1>3
    <3>2. P(m) \in Seq(Scalar) /\ P(m + 1) = Append(P(m), t[m + 1])
      BY <1>1, <3>1, PrefixFacts
    <3>3. t[m + 1] \in Scalar /\ ~High(t[m + 1]) /\ ~Low(t[m + 1])
      BY <1>1, <3>1
    <3>. QED  BY <3>2, <3>3
  <2>2. Units(P(m + 1)) = u \o UnitsOf(c)
    BY <2>1, UnitsAppend
  <2>3. u \in Seq(CodeUnit) /\ Closed(u) /\ Runes(u) = P(m)
    BY <1>3
  <2> HIDE DEF P, c, u
  <2>4. CASE c < 65536
    <3>1. UnitsOf(c) = <<c>> /\ c \in CodeUnit
      BY <2>1, <2>4, UnitsOfScalar
    <3>2. Units(P(m + 1)) = Append(u, c)
      BY <2>2, <2>3, <3>1
    <3>3. Runes(Append(u, c)) = Append(P(m), c)
      BY <2>1, <2>3, <3>1, RunesAppendOne
    <3>4. Append(u, c) \in Seq(CodeUnit) /\ Closed(Append(u, c))
      BY <2>1, <2>3, <3>1 DEF Closed
    <3>. QED  BY <2>1, <3>2, <3>3, <3>4
  <2>5. CASE c >= 65536
    <3>1. PICK h, l \in CodeUnit : /\ UnitsOf(c) = <<h, l>> /\ High(h) /\ Low(l)
                                   /\ PairRune(h, l) = c
      BY <2>1, <2>5, UnitsOfScalar
    <3>2. c \in Nat /\ ~High(l)
      BY SMT, <2>1, <3>1 DEF Scalar, High, Low, CodeUnit
    <3>3. Runes(u \o <<h, l>>) = Append(P(m), c)
      BY <2>3, <3>1, <3>2, RunesAppendPair
    <3>4. u \o <<h, l>> \in Seq(CodeUnit) /\ Closed(u \o <<h, l>>)
      <4> DEFINE v == u \o <<h, l>>
      <4>1. v \in Seq(CodeUnit) /\ Len(v) = Len(u) + 2 /\ v[Len(u) + 2] = l /\ v # <<>>
        BY <2>3
      <4>2. Len(v) = Len(u) + 2 => v[Len(v)] = l
        BY <4>1
      <4> HIDE DEF v
      <4>3. v \in Seq(CodeUnit) /\ Closed(v)
        BY <3>2, <4>1, <4>2 DEF Closed
      <4>. QED  BY <4>3 DEF v
    <3>5. P(m + 1) = Append(P(m), c) /\ Units(P(m + 1)) = u \o <<h, l>>
      BY <2>1, <2>2, <3>1
    <3>. QED  BY <3>3, <3>4, <3>5
  <2>6. c \in Nat
    BY SMT, <2>1 DEF Scalar
  <2>. QED  BY SMT, <2>4, <2>5, <2>6
<1>4. Bad = {}
  <2> HIDE DEF Good
  <2> SUFFICES ASSUME Bad # {} PROVE FALSE
    OBVIOUS
  <2>1. PICK m \in Bad : \A k \in Bad : m <= k
    BY LeastNumber
  <2>2. m \in Nat /\ m <= Len(t) /\ ~Good(m) /\ m # 0
    BY <1>2
  <2>3. m - 1 \in Nat /\ m - 1 < Len(t) /\ m - 1 <= Len(t) /\ ~(m <= m - 1) /\ m - 1 + 1 = m
    BY <1>1, <2>2
  <2>4. Good(m - 1)
    BY <2>1, <2>3
  <2>5. Good(m - 1 + 1)
    BY <1>3, <2>3, <2>4
  <2>. QED  BY <2>2, <2>3, <2>5
<1>. QED
  <2> HIDE DEF Good
  <2>1. Good(n)
    BY <1>1, <1>4
  <2>. QED  BY <2>1 DEF Good
----------------------------------------------------------------------------
(* Prefixes of a text and the prefixes of its encoding                     *)

(* Sequences each of which continues the one before it. *)
IsGrowth(g, L) ==
  /\ DOMAIN g = 0..L /\ \A n \in 0..L : g[n] \in Seq(Nat)
  /\ g[0] = <<>>
  /\ \A n \in 0..(L - 1) : \E x \in Seq(Nat) : x # <<>> /\ g[n + 1] = g[n] \o x

(* A text that grows by at least one at every step keeps what it had. *)
LEMMA Grows ==
  ASSUME NEW L \in Nat, NEW g, IsGrowth(g, L), NEW m \in 0..L, NEW n \in 0..L, m <= n
  PROVE  /\ Len(g[m]) + (n - m) <= Len(g[n])
         /\ \A i \in 1..Len(g[m]) : g[n][i] = g[m][i]
<1> DEFINE Good(k) == /\ Len(g[m]) + (k - m) <= Len(g[k])
                      /\ \A i \in 1..Len(g[m]) : g[k][i] = g[m][i]
           Bad == {k \in m..L : ~Good(k)}
<1>1. \A k \in 0..L : g[k] \in Seq(Nat) /\ Len(g[k]) \in Nat
  BY DEF IsGrowth
<1>2. Good(m)
  BY <1>1
<1>3. ASSUME NEW k \in m..(L - 1), Good(k) PROVE Good(k + 1)
  <2>1. k \in 0..(L - 1) /\ k \in 0..L /\ k + 1 \in 0..L
    OBVIOUS
  <2>2. PICK x \in Seq(Nat) : x # <<>> /\ g[k + 1] = g[k] \o x
    BY <2>1 DEF IsGrowth
  <2>3. /\ Len(g[k + 1]) = Len(g[k]) + Len(x) /\ Len(x) \in Nat /\ Len(x) >= 1
        /\ \A i \in 1..Len(g[k]) : g[k + 1][i] = g[k][i]
    BY <1>1, <2>1, <2>2
  <2>4. /\ Len(g[m]) + (k - m) <= Len(g[k])
        /\ \A i \in 1..Len(g[m]) : g[k][i] = g[m][i]
        /\ Len(g[m]) \in Nat /\ Len(g[k]) \in Nat
    BY <1>1, <1>3, <2>1
  <2>5. Len(g[m]) + (k + 1 - m) <= Len(g[k + 1])
    <3>1. \A a, b, x1 \in Nat : a + (k - m) <= b /\ x1 >= 1 => a + (k + 1 - m) <= b + x1
      OBVIOUS
    <3>. QED  BY <2>3, <2>4, <3>1
  <2>6. \A i \in 1..Len(g[m]) : g[k + 1][i] = g[m][i]
    BY <2>3, <2>4
  <2>. QED  BY <2>5, <2>6
<1>4. Bad = {}
  <2> HIDE DEF Good
  <2> SUFFICES ASSUME Bad # {} PROVE FALSE
    OBVIOUS
  <2>0. Bad \in SUBSET Nat
    OBVIOUS
  <2>1. PICK k \in Bad : \A j \in Bad : k <= j
    BY <2>0, LeastNumber
  <2>2. k \in m..L /\ ~Good(k) /\ k # m
    BY <1>2
  <2>3. k - 1 \in m..(L - 1) /\ k - 1 \in m..L /\ ~(k <= k - 1) /\ k - 1 + 1 = k
    BY <2>2
  <2>4. Good(k - 1)
    BY <2>1, <2>3
  <2>. QED  BY <1>3, <2>2, <2>3, <2>4
<1> HIDE DEF Good
<1>5. Good(n)
  BY <1>4
<1>. QED  BY <1>5 DEF Good

(* A length is that of one of the sequences, or it is between two of them. *)
LEMMA Covered ==
  ASSUME NEW L \in Nat, NEW g, IsGrowth(g, L), NEW k \in 0..Len(g[L])
  PROVE  \E n \in 0..L : \/ k = Len(g[n])
                         \/ n >= 1 /\ Len(g[n - 1]) < k /\ k < Len(g[n])
<1> DEFINE B == {n \in 0..L : k <= Len(g[n])}
<1>1. \A n \in 0..L : Len(g[n]) \in Nat
  BY DEF IsGrowth
<1>2. L \in B /\ B \in SUBSET Nat
  BY <1>1
<1>3. PICK n \in B : \A j \in B : n <= j
  BY <1>2, LeastNumber
<1>4. n \in 0..L /\ k <= Len(g[n]) /\ Len(g[n]) \in Nat
  BY <1>1
<1>5. CASE n = 0
  <2>1. Len(g[n]) = 0
    BY <1>5 DEF IsGrowth
  <2>. QED  BY <1>4, <2>1
<1>6. CASE n # 0
  <2>1. n - 1 \in 0..L /\ ~(n <= n - 1)
    BY <1>4, <1>6
  <2>2. Len(g[n - 1]) < k
    BY <1>1, <1>3, <2>1
  <2>. QED  BY <1>4, <1>6, <2>2
<1>. QED  BY <1>5, <1>6

(* The prefixes of a text in UTF-8, and in units of UTF-16. *)
Bytes(t)      == [n \in 0..Len(t) |-> UTF8(SubSeq(t, 1, n))]
UnitCounts(t) == [n \in 0..Len(t) |-> Units(SubSeq(t, 1, n))]

(* What a text is made of. *)
LEMMA TextParts ==
  ASSUME NEW t, IsText(t)
  PROVE  /\ t \in Seq(Scalar) /\ Len(t) \in Nat
         /\ \A i \in 1..Len(t) : t[i] \in Scalar /\ ~High(t[i]) /\ ~Low(t[i])
         /\ \A n \in 0..Len(t) : SubSeq(t, 1, n) \in Seq(Scalar)
         /\ \A n \in 0..(Len(t) - 1) :
              SubSeq(t, 1, n + 1) = Append(SubSeq(t, 1, n), t[n + 1])
         /\ SubSeq(t, 1, 0) = <<>> /\ SubSeq(t, 1, Len(t)) = t
<1>1. t \in Seq(Scalar) /\ Len(t) \in Nat /\ \A i \in 1..Len(t) : ~High(t[i]) /\ ~Low(t[i])
  BY SMT DEF IsText, Scalar
<1>2. \A i \in 1..Len(t) : t[i] \in Scalar
  BY <1>1
<1>. QED  BY <1>1, <1>2, PrefixFacts

(* In UTF-8 a text grows with each character, by the bytes of that character. *)
LEMMA UTF8Grows ==
  ASSUME NEW t, IsText(t)
  PROVE  /\ IsGrowth(Bytes(t), Len(t))
         /\ \A n \in 0..Len(t) : UTF8(SubSeq(t, 1, n)) \in Seq(Octet)
         /\ \A n \in 0..(Len(t) - 1) :
              UTF8(SubSeq(t, 1, n + 1)) = UTF8(SubSeq(t, 1, n)) \o AppendRune(t[n + 1])
<1>1. 1 \in Scalar
  BY SMT DEF Scalar
<1>2. \A n \in 0..Len(t) : UTF8(SubSeq(t, 1, n)) \in Seq(Octet)
  BY <1>1, TextParts, UTF8Append
<1>3. ASSUME NEW n \in 0..(Len(t) - 1)
      PROVE  UTF8(SubSeq(t, 1, n + 1)) = UTF8(SubSeq(t, 1, n)) \o AppendRune(t[n + 1])
  <2>1. n + 1 \in 1..Len(t) /\ n \in 0..Len(t)
    BY TextParts
  <2>2. SubSeq(t, 1, n) \in Seq(Scalar) /\ t[n + 1] \in Scalar
        /\ SubSeq(t, 1, n + 1) = Append(SubSeq(t, 1, n), t[n + 1])
    BY <2>1, TextParts
  <2>. QED  BY <2>2, UTF8Append
<1>4. Octet \in SUBSET Nat
  BY DEF Octet
<1>5. \A s \in Seq(Octet) : s \in Seq(Nat)
  BY <1>4, SeqOfSuperset
<1>6. ASSUME NEW n \in 0..(Len(t) - 1)
      PROVE  \E x \in Seq(Nat) : x # <<>> /\ Bytes(t)[n + 1] = Bytes(t)[n] \o x
  <2>1. n + 1 \in 1..Len(t) /\ n \in 0..Len(t) /\ n + 1 \in 0..Len(t)
    BY TextParts
  <2>2. t[n + 1] \in Scalar
    BY <2>1, TextParts
  <2>3. AppendRune(t[n + 1]) \in Seq(Nat) /\ AppendRune(t[n + 1]) # <<>>
    <3>1. AppendRune(t[n + 1]) \in Seq(Octet) /\ Len(AppendRune(t[n + 1])) \in 1..4
      BY <2>2, RuneBytes
    <3>2. AppendRune(t[n + 1]) \in Seq(Nat)
      BY <3>1, <1>5
    <3>b. \A k \in 1..4 : k # 0
      OBVIOUS
    <3>3. Len(AppendRune(t[n + 1])) # 0
      BY <3>1, <3>b, Zenon
    <3>a. Len(<<>>) = 0
      OBVIOUS
    <3>4. AppendRune(t[n + 1]) # <<>>
      BY <3>3, <3>a, Zenon
    <3>. QED  BY <3>2, <3>4
  <2>. QED  BY <1>3, <2>1, <2>3 DEF Bytes
<1>7. Bytes(t)[0] = <<>>
  BY TextParts, UTF8Empty DEF Bytes
<1>8. \A n \in 0..Len(t) : Bytes(t)[n] \in Seq(Nat)
  BY <1>2, <1>5 DEF Bytes
<1>9. IsGrowth(Bytes(t), Len(t))
  BY <1>6, <1>7, <1>8 DEF IsGrowth, Bytes
<1>. QED  BY <1>2, <1>3, <1>9

(* In UTF-16 it grows by the units of that character. *)
LEMMA UnitsGrow ==
  ASSUME NEW t, IsText(t)
  PROVE  /\ IsGrowth(UnitCounts(t), Len(t))
         /\ \A n \in 0..Len(t) : Units(SubSeq(t, 1, n)) \in Seq(CodeUnit)
         /\ \A n \in 0..(Len(t) - 1) :
              Units(SubSeq(t, 1, n + 1)) = Units(SubSeq(t, 1, n)) \o UnitsOf(t[n + 1])
<1>1. 1 \in Scalar
  BY SMT DEF Scalar
<1>2. \A n \in 0..Len(t) : Units(SubSeq(t, 1, n)) \in Seq(CodeUnit)
  BY <1>1, TextParts, UnitsAppend
<1>3. ASSUME NEW n \in 0..(Len(t) - 1)
      PROVE  Units(SubSeq(t, 1, n + 1)) = Units(SubSeq(t, 1, n)) \o UnitsOf(t[n + 1])
  <2>1. n + 1 \in 1..Len(t) /\ n \in 0..Len(t)
    BY TextParts
  <2>2. SubSeq(t, 1, n) \in Seq(Scalar) /\ t[n + 1] \in Scalar
        /\ SubSeq(t, 1, n + 1) = Append(SubSeq(t, 1, n), t[n + 1])
    BY <2>1, TextParts
  <2>. QED  BY <2>2, UnitsAppend
<1>4. CodeUnit \in SUBSET Nat
  BY DEF CodeUnit
<1>5. \A s \in Seq(CodeUnit) : s \in Seq(Nat)
  BY <1>4, SeqOfSuperset
<1>6. ASSUME NEW n \in 0..(Len(t) - 1)
      PROVE  \E x \in Seq(Nat) : x # <<>> /\ UnitCounts(t)[n + 1] = UnitCounts(t)[n] \o x
  <2>1. n + 1 \in 1..Len(t) /\ n \in 0..Len(t) /\ n + 1 \in 0..Len(t)
    BY TextParts
  <2>2. t[n + 1] \in Scalar
    BY <2>1, TextParts
  <2>3. UnitsOf(t[n + 1]) \in Seq(Nat) /\ UnitsOf(t[n + 1]) # <<>>
    <3>1. \/ \E c \in CodeUnit : UnitsOf(t[n + 1]) = <<c>>
          \/ \E h, l \in CodeUnit : UnitsOf(t[n + 1]) = <<h, l>>
      <4>1. t[n + 1] < 65536 \/ t[n + 1] >= 65536
        BY SMT, <2>2 DEF Scalar
      <4>. QED  BY SMT, <2>2, <4>1, UnitsOfScalar
    <3>2. \A c \in CodeUnit : <<c>> \in Seq(Nat) /\ <<c>> # <<>>
      BY <1>4
    <3>3. \A h, l \in CodeUnit : <<h, l>> \in Seq(Nat) /\ <<h, l>> # <<>>
      BY <1>4
    <3>. QED  BY <3>1, <3>2, <3>3
  <2>. QED  BY <1>3, <2>1, <2>3 DEF UnitCounts
<1>7. UnitCounts(t)[0] = <<>>
  BY TextParts, UnitsEmpty DEF UnitCounts
<1>8. \A n \in 0..Len(t) : UnitCounts(t)[n] \in Seq(Nat)
  BY <1>2, <1>5 DEF UnitCounts
<1>9. IsGrowth(UnitCounts(t), Len(t))
  BY <1>6, <1>7, <1>8 DEF IsGrowth, UnitCounts
<1>. QED  BY <1>2, <1>3, <1>9

(* The first unit of a text that starts below 256 is its first character. *)
LEMMA FirstUnit ==
  ASSUME NEW t, IsText(t), t # <<>>, t[1] < 256
  PROVE  /\ Len(Units(t)) >= 1 /\ Len(Units(t)) \in Nat
         /\ Units(t)[1] = t[1] /\ t[1] \in Nat /\ 0 < t[1] /\ t[1] < 256
<1>1. /\ Len(t) \in Nat /\ Len(t) >= 1 /\ SubSeq(t, 1, 0) = <<>> /\ SubSeq(t, 1, Len(t)) = t
      /\ t[1] \in Scalar /\ 1 \in 0..Len(t)
  <2>1. /\ t \in Seq(Scalar) /\ Len(t) \in Nat /\ \A i \in 1..Len(t) : t[i] \in Scalar
        /\ SubSeq(t, 1, 0) = <<>> /\ SubSeq(t, 1, Len(t)) = t
    BY TextParts
  <2>2. Len(t) # 0
    BY <2>1
  <2>. QED  BY <2>1, <2>2
<1>2. t[1] \in Nat /\ 0 < t[1] /\ t[1] < 256 /\ t[1] < 65536
  BY SMT, <1>1 DEF Scalar
<1>3. Units(SubSeq(t, 1, 1)) = <<t[1]>>
  <2>1. Units(SubSeq(t, 1, 0 + 1)) = Units(SubSeq(t, 1, 0)) \o UnitsOf(t[0 + 1])
    BY <1>1, UnitsGrow
  <2>2. UnitsOf(t[1]) = <<t[1]>>
    BY <1>1, <1>2, UnitsOfScalar
  <2>3. Units(SubSeq(t, 1, 0)) = <<>>
    BY <1>1, UnitsEmpty
  <2>. QED  BY <2>1, <2>2, <2>3
<1>4. UnitCounts(t)[1] = <<t[1]>> /\ UnitCounts(t)[Len(t)] = Units(t)
  <2>1. Len(t) \in 0..Len(t)
    BY <1>1
  <2>2. \A n \in 0..Len(t) : UnitCounts(t)[n] = Units(SubSeq(t, 1, n))
    BY DEF UnitCounts
  <2>3. UnitCounts(t)[1] = Units(SubSeq(t, 1, 1))
    BY <1>1, <2>2, Zenon
  <2>4. UnitCounts(t)[Len(t)] = Units(SubSeq(t, 1, Len(t)))
    BY <2>1, <2>2, Zenon
  <2>. QED  BY <1>1, <1>3, <2>3, <2>4, Zenon
<1>5. IsGrowth(UnitCounts(t), Len(t)) /\ 1 \in 0..Len(t) /\ Len(t) \in 0..Len(t)
  BY <1>1, UnitsGrow
<1>6. /\ Len(UnitCounts(t)[1]) + (Len(t) - 1) <= Len(UnitCounts(t)[Len(t)])
      /\ \A i \in 1..Len(UnitCounts(t)[1]) : UnitCounts(t)[Len(t)][i] = UnitCounts(t)[1][i]
  BY <1>1, <1>5, Grows
<1>7. Len(Units(t)) \in Nat
  BY <1>1, LittleEndian, TextParts
<1>8. Len(<<t[1]>>) = 1 /\ <<t[1]>>[1] = t[1]
  OBVIOUS
<1>. QED  BY <1>1, <1>2, <1>4, <1>6, <1>7, <1>8

(* A byte that starts a text below 256, and the zero byte next to it. *)
LEMMA FirstBytes ==
  ASSUME NEW t, IsText(t), t # <<>>, t[1] < 256
  PROVE  /\ EncodeUTF16LE(t) \in Seq(Nat) /\ Len(EncodeUTF16LE(t)) = 2 * Len(Units(t))
         /\ Len(EncodeUTF16LE(t)) >= 2 /\ Len(Units(t)) \in Nat
         /\ EncodeUTF16LE(t)[1] = t[1] /\ EncodeUTF16LE(t)[2] = 0 /\ t[1] \in Nat /\ 0 < t[1] /\ t[1] < 256
<1>1. t \in Seq(Scalar)
  BY TextParts
<1>2. /\ Len(Units(t)) >= 1 /\ Len(Units(t)) \in Nat /\ Units(t)[1] = t[1] /\ t[1] \in Nat /\ 0 < t[1] /\ t[1] < 256
  BY FirstUnit
<1>3. EncodeUTF16LE(t)[2 * 1 - 1] = Units(t)[1] % 256 /\ EncodeUTF16LE(t)[2 * 1] = Units(t)[1] \div 256
  <2>1. 1 \in 1..Len(Units(t))
    BY <1>2
  <2>. QED  BY <1>1, <2>1, LittleEndian
<1>4. t[1] % 256 = t[1] /\ t[1] \div 256 = 0
  BY <1>2
<1>. QED  BY <1>1, <1>2, <1>3, <1>4, LittleEndian

(* Fewer than two bytes are taken as they are. *)
LEMMA ShortBody ==
  ASSUME NEW b, ~(Len(b) >= 2)
  PROVE  DecodeBody(b) = Decoded(b)
BY DEF DecodeBody, StartsWith, ZeroIsSecond, ZeroIsFirst

(* A name in base64 is read as the text it stands for. *)
LEMMA NameIsRead ==
  ASSUME NEW t, Guessable(t)
  PROVE  DecodeBody(EncodeUTF16LE(t)) = Decoded(UTF8(t))
<1>1. IsText(t) /\ t \in Seq(Scalar) /\ Len(t) \in Nat /\ SubSeq(t, 1, Len(t)) = t
  BY TextParts DEF Guessable
<1>2. CASE t = <<>>
  <2>1. Units(t) = <<>> /\ UTF8(t) = <<>>
    BY <1>2, UnitsEmpty, UTF8Empty
  <2>2. EncodeUTF16LE(t) = <<>>
    BY <1>1, <2>1, LittleEndian
  <2>3. ~(Len(<<>>) >= 2)
    OBVIOUS
  <2>4. DecodeBody(<<>>) = Decoded(<<>>)
    BY <2>3, ShortBody
  <2>. QED  BY <2>1, <2>2, <2>4
<1>3. CASE t # <<>>
  <2> DEFINE b == EncodeUTF16LE(t)
  <2>1. /\ b \in Seq(Nat) /\ Len(b) = 2 * Len(Units(t)) /\ Len(b) >= 2 /\ Len(Units(t)) \in Nat
        /\ b[1] = t[1] /\ b[2] = 0 /\ t[1] \in Nat /\ 0 < t[1] /\ t[1] < 256
    BY <1>1, <1>3, FirstBytes DEF Guessable
  <2>2. Pairs(b, TRUE) = SubSeq(Units(t), 1, Len(Units(t)))
    <3> DEFINE u == Units(t)
    <3>1. Carries(b, u, TRUE)
      BY <1>1, EncodersCarry
    <3>2. u \in Seq(CodeUnit) /\ Len(u) \in 0..Len(u)
      BY <1>1, <2>1, LittleEndian
    <3>3. SubSeq(b, 1, 2 * Len(u)) = b
      BY <2>1, PrefixFacts
    <3> HIDE DEF b, u
    <3>4. Pairs(SubSeq(b, 1, 2 * Len(u)), TRUE) = SubSeq(u, 1, Len(u))
      <4> DEFINE yes == TRUE
      <4> HIDE DEF yes
      <4>1. yes \in BOOLEAN /\ Carries(b, u, yes)
        BY <3>1, Zenon DEF yes
      <4>2. Pairs(SubSeq(b, 1, 2 * Len(u)), yes) = SubSeq(u, 1, Len(u))
        BY <3>2, <4>1, CarriedPart
      <4>. QED  BY <4>2 DEF yes
    <3>. QED  BY <3>3, <3>4, Zenon DEF u
  <2>3. SubSeq(Units(t), 1, Len(Units(t))) = Units(t)
    BY <1>1, LittleEndian
  <2>4. Runes(Units(t)) = t
    <3>1. Len(t) \in 0..Len(t)
      BY <1>1
    <3>2. Runes(Units(SubSeq(t, 1, Len(t)))) = SubSeq(t, 1, Len(t))
      BY <1>1, <3>1, RunesOfUnits
    <3>. QED  BY <1>1, <3>2
  <2> HIDE DEF b
  <2>5. DecodeUTF16Pairs(b, TRUE) = Decoded(UTF8(t))
    <3>1. Len(b) % 2 = 0
      BY <2>1
    <3>2. UTF8(Runes(Pairs(b, TRUE))) = UTF8(t)
      BY <2>2, <2>3, <2>4
    <3>. QED  BY <3>1, <3>2 DEF DecodeUTF16Pairs
  <2>6. ~StartsWith(b, 255, 254) /\ ~StartsWith(b, 254, 255)
    BY <2>1 DEF StartsWith
  <2>7. ZeroIsSecond(b)
    BY <2>1 DEF ZeroIsSecond
  <2>8. DecodeBody(b) = DecodeUTF16Pairs(b, TRUE)
    BY <2>6, <2>7 DEF DecodeBody
  <2>. QED  BY <2>5, <2>8 DEF b
<1>. QED  BY <1>2, <1>3
----------------------------------------------------------------------------
(* Numbers, written and read                                               *)

Base == {10, 16}

DigitTurn(base, g, m) == IF m < base THEN <<m>> ELSE Append(g[m \div base], m % base)

IsDigitTable(n, base, g) == g = [m \in 0..n |-> DigitTurn(base, g, m)]

(* What a publisher writes for n is the last entry of a table of numerals. *)
LEMMA NumberIsChoice ==
  ASSUME NEW prefix, NEW n, NEW base
  PROVE  /\ Number(prefix, n, base).digits = (CHOOSE g : IsDigitTable(n, base, g))[n]
         /\ Number(prefix, n, base).prefix = prefix
BY DEF Number, IsDigitTable, DigitTurn

(* Division with remainder, for the bases in use. *)
LEMMA QuotientIsSmaller ==
  \A base \in Base, m \in Nat :
    /\ m >= base => m \div base \in Nat /\ m \div base < m
    /\ m % base \in 0..(base - 1) /\ base \in Nat /\ m = base * (m \div base) + (m % base)
    /\ m \div base \in Nat
BY DEF Base

(* The table of numerals exists, by the smallest number that has none. *)
LEMMA DigitsExist ==
  ASSUME NEW n \in Nat, NEW base \in Base
  PROVE  \E g : IsDigitTable(n, base, g)
<1> DEFINE Bad == {k \in Nat : ~ \E g : IsDigitTable(k, base, g)}
<1>1. \E g : IsDigitTable(0, base, g)
  <2> DEFINE g == [m \in 0..0 |-> <<m>>]
  <2>1. \A m \in 0..0 : DigitTurn(base, g, m) = <<m>>
    BY DEF DigitTurn, Base
  <2>2. g = [m \in 0..0 |-> DigitTurn(base, g, m)]
    BY <2>1
  <2> HIDE DEF g
  <2>. QED  BY <2>2 DEF IsDigitTable
<1>2. ASSUME NEW k \in Nat, NEW g, IsDigitTable(k, base, g)
      PROVE  \E h : IsDigitTable(k + 1, base, h)
  <2> DEFINE h == [m \in 0..(k + 1) |-> DigitTurn(base, g, m)]
  <2>1. \A m \in 0..k : h[m] = g[m]
    BY <1>2 DEF IsDigitTable
  <2>2. h = [m \in 0..(k + 1) |-> DigitTurn(base, g, m)]
    OBVIOUS
  <2> HIDE DEF h
  <2>3. \A m \in 0..(k + 1) : DigitTurn(base, h, m) = DigitTurn(base, g, m)
    <3> SUFFICES ASSUME NEW m \in 0..(k + 1)
                 PROVE  DigitTurn(base, h, m) = DigitTurn(base, g, m)
      OBVIOUS
    <3>1. CASE m < base
      BY <3>1 DEF DigitTurn
    <3>2. CASE ~(m < base)
      <4>1. m \in Nat /\ m >= base
        BY <3>2 DEF Base
      <4>2. m \div base \in Nat /\ m \div base < m
        BY <4>1, QuotientIsSmaller
      <4>3. m \div base \in 0..k
        BY <4>2
      <4>4. h[m \div base] = g[m \div base]
        BY <2>1, <4>3
      <4>. QED  BY <3>2, <4>4 DEF DigitTurn
    <3>. QED  BY <3>1, <3>2
  <2>4. IsDigitTable(k + 1, base, h)
    BY <2>2, <2>3 DEF IsDigitTable
  <2>. QED  BY <2>4
<1>3. Bad = {}
  <2> SUFFICES ASSUME Bad # {} PROVE FALSE
    OBVIOUS
  <2>1. PICK k \in Bad : \A j \in Bad : k <= j
    BY LeastNumber
  <2>2. k \in Nat /\ ~ \E g : IsDigitTable(k, base, g)
    OBVIOUS
  <2>3. k # 0
    BY <1>1, <2>2, Zenon
  <2>4. k - 1 \in Nat /\ ~(k <= k - 1) /\ k - 1 + 1 = k
    BY <2>2, <2>3
  <2>5. \E g : IsDigitTable(k - 1, base, g)
    BY <2>1, <2>4
  <2>. QED  BY <1>2, <2>2, <2>4, <2>5
<1>. QED  BY <1>3

ParseTurn(digits, base, g, i) ==
  IF i = 0 THEN 0
  ELSE IF g[i - 1] = Invalid \/ digits[i] >= base THEN Invalid
  ELSE IF g[i - 1] > (MaxUint64 - digits[i]) \div base THEN Invalid
  ELSE g[i - 1] * base + digits[i]

IsParse(digits, base, g) == g = [i \in 0..Len(digits) |-> ParseTurn(digits, base, g, i)]

(* ParseUint is the last entry of the table of what its prefixes are read as. *)
LEMMA ParseIsChoice ==
  ASSUME NEW digits, NEW base, digits # <<>>
  PROVE  ParseUint(digits, base) = (CHOOSE g : IsParse(digits, base, g))[Len(digits)]
BY DEF ParseUint, IsParse, ParseTurn

(* That table exists for any digits. *)
LEMMA ParseExists ==
  ASSUME NEW S, NEW digits \in Seq(S), NEW base
  PROVE  \E g : IsParse(digits, base, g)
<1> DEFINE On(n, g) == g = [i \in 0..n |-> ParseTurn(digits, base, g, i)]
           Bad == {n \in Nat : ~ \E g : On(n, g)}
<1>1. \E g : On(0, g)
  <2> DEFINE g == [i \in 0..0 |-> 0]
  <2>1. \A i \in 0..0 : ParseTurn(digits, base, g, i) = 0
    BY DEF ParseTurn
  <2>2. On(0, g)
    BY <2>1
  <2>. QED  BY <2>2
<1>2. ASSUME NEW n \in Nat, NEW g, On(n, g)
      PROVE  \E h : On(n + 1, h)
  <2> DEFINE h == [i \in 0..(n + 1) |-> ParseTurn(digits, base, g, i)]
  <2>1. \A i \in 0..n : h[i] = g[i]
    BY <1>2
  <2>2. h = [i \in 0..(n + 1) |-> ParseTurn(digits, base, g, i)]
    OBVIOUS
  <2> HIDE DEF h
  <2>3. \A i \in 0..(n + 1) : ParseTurn(digits, base, h, i) = ParseTurn(digits, base, g, i)
    <3> SUFFICES ASSUME NEW i \in 0..(n + 1)
                 PROVE  ParseTurn(digits, base, h, i) = ParseTurn(digits, base, g, i)
      OBVIOUS
    <3>1. i # 0 => h[i - 1] = g[i - 1]
      BY <2>1
    <3>. QED  BY <3>1 DEF ParseTurn
  <2>4. On(n + 1, h)
    BY <2>2, <2>3
  <2>. QED  BY <2>4
<1>3. Bad = {}
  <2> SUFFICES ASSUME Bad # {} PROVE FALSE
    OBVIOUS
  <2>1. PICK n \in Bad : \A m \in Bad : n <= m
    BY LeastNumber
  <2>2. n \in Nat /\ ~ \E g : On(n, g)
    OBVIOUS
  <2>3. n # 0
    BY <1>1, <2>2, Zenon
  <2>4. n - 1 \in Nat /\ ~(n <= n - 1) /\ n - 1 + 1 = n
    BY <2>2, <2>3
  <2>5. \E g : On(n - 1, g)
    BY <2>1, <2>4
  <2>6. \E g : On(n - 1 + 1, g)
    BY <1>2, <2>4, <2>5
  <2>. QED  BY <2>2, <2>4, <2>6
<1>4. Len(digits) \in Nat
  OBVIOUS
<1>5. \E g : On(Len(digits), g)
  BY <1>3, <1>4
<1>. QED  BY <1>5 DEF IsParse

(* The value of a number with one more digit. *)
ParseStep(v, x, base) ==
  IF v = Invalid \/ x >= base THEN Invalid
  ELSE IF v > (MaxUint64 - x) \div base THEN Invalid
  ELSE v * base + x

(* One digit is one turn of ParseUint. *)
LEMMA ParseOfOne ==
  ASSUME NEW x, NEW base
  PROVE  ParseUint(<<x>>, base) = ParseStep(0, x, base)
<1> DEFINE g == CHOOSE g : IsParse(<<x>>, base, g)
<1>1. <<x>> \in Seq({x}) /\ <<x>> # <<>> /\ Len(<<x>>) = 1 /\ <<x>>[1] = x
  OBVIOUS
<1>2. IsParse(<<x>>, base, g)
  BY <1>1, ParseExists
<1>3. ParseUint(<<x>>, base) = g[1]
  BY <1>1, ParseIsChoice
<1> HIDE DEF g
<1>4. g[0] = ParseTurn(<<x>>, base, g, 0) /\ g[1] = ParseTurn(<<x>>, base, g, 1)
  BY <1>1, <1>2 DEF IsParse
<1>5. g[0] = 0 /\ 1 - 1 = 0 /\ Invalid # 0
  BY <1>4 DEF ParseTurn, Invalid
<1>. QED  BY <1>1, <1>3, <1>4, <1>5 DEF ParseTurn, ParseStep

(* A further digit is a further turn. *)
LEMMA ParseOfAppend ==
  ASSUME NEW S, NEW d \in Seq(S), d # <<>>, NEW x \in S, NEW base
  PROVE  ParseUint(Append(d, x), base) = ParseStep(ParseUint(d, base), x, base)
<1> DEFINE e == Append(d, x)
           g == CHOOSE g : IsParse(d, base, g)
           h == CHOOSE h : IsParse(e, base, h)
<1>1. /\ e \in Seq(S) /\ e # <<>> /\ Len(e) = Len(d) + 1 /\ e[Len(d) + 1] = x
      /\ Len(d) \in Nat /\ \A i \in 1..Len(d) : e[i] = d[i]
  OBVIOUS
<1> HIDE DEF e
<1>2. IsParse(d, base, g) /\ IsParse(e, base, h)
  BY <1>1, ParseExists
<1>3. ParseUint(d, base) = g[Len(d)] /\ ParseUint(e, base) = h[Len(d) + 1]
  BY <1>1, ParseIsChoice
<1> HIDE DEF g, h
<1>4. /\ \A i \in 0..Len(d) : g[i] = ParseTurn(d, base, g, i)
      /\ \A i \in 0..(Len(d) + 1) : h[i] = ParseTurn(e, base, h, i)
  BY <1>1, <1>2 DEF IsParse
<1>5. \A i \in 0..Len(d) : h[i] = g[i]
  <2> DEFINE Bad == {i \in 0..Len(d) : h[i] # g[i]}
  <2> SUFFICES ASSUME Bad # {} PROVE FALSE
    OBVIOUS
  <2>0. Bad \in SUBSET Nat
    BY <1>1
  <2>1. PICK i \in Bad : \A j \in Bad : i <= j
    BY <2>0, LeastNumber
  <2>2. i \in 0..Len(d) /\ i \in 0..(Len(d) + 1) /\ h[i] # g[i]
    BY <1>1
  <2>3. i # 0 => h[i - 1] = g[i - 1] /\ e[i] = d[i]
    BY <1>1, <2>1, <2>2
  <2>4. ParseTurn(e, base, h, i) = ParseTurn(d, base, g, i)
    BY <2>3 DEF ParseTurn
  <2>. QED  BY <1>4, <2>2, <2>4
<1>6. h[Len(d) + 1] = ParseTurn(e, base, h, Len(d) + 1)
  BY <1>1, <1>4
<1>7. h[Len(d) + 1 - 1] = g[Len(d)] /\ Len(d) + 1 # 0
  BY <1>1, <1>5
<1>. QED  BY <1>1, <1>3, <1>6, <1>7 DEF ParseTurn, ParseStep, e

(* A number is read as it was written, unless it has more than 64 bits. *)
Clip(n) == IF n <= MaxUint64 THEN n ELSE Invalid

(* The limits of the two widths are numbers. *)
LEMMA MaxIsNat == MaxUint64 \in Nat /\ MaxUint32 \in Nat /\ Word \in Nat /\ Word >= 2
<1>1. Word \in Nat /\ Word >= 2
  BY PayloadAssumption
<1>2. Word * Word >= 1 /\ Word * Word \in Nat
  BY <1>1
<1>. QED  BY <1>1, <1>2 DEF MaxUint64, MaxUint32

(* A further digit of a number is read right, or the value stays at the limit. *)
LEMMA ClipStep ==
  ASSUME NEW base \in Base, NEW m \in Nat, m >= base
  PROVE  ParseStep(Clip(m \div base), m % base, base) = Clip(m)
<1>1. MaxUint64 \in Nat
  BY MaxIsNat
<1> DEFINE M == MaxUint64
<1> HIDE DEF M
<1>2. M \in Nat
  BY <1>1 DEF M
<1>3. CASE base = 10
  <2>1. ParseStep(IF m \div 10 <= M THEN m \div 10 ELSE -1, m % 10, 10) = IF m <= M THEN m ELSE -1
    BY <1>2 DEF ParseStep, Invalid, M
  <2>. QED  BY <1>3, <2>1 DEF Clip, M, Invalid
<1>4. CASE base = 16
  <2>1. ParseStep(IF m \div 16 <= M THEN m \div 16 ELSE -1, m % 16, 16) = IF m <= M THEN m ELSE -1
    BY <1>2 DEF ParseStep, Invalid, M
  <2>. QED  BY <1>4, <2>1 DEF Clip, M, Invalid
<1>. QED  BY <1>3, <1>4 DEF Base

(* So is the first digit. *)
LEMMA ClipDigit ==
  ASSUME NEW base \in Base, NEW m \in Nat, m < base
  PROVE  ParseStep(0, m, base) = Clip(m)
<1>1. MaxUint64 \in Nat
  BY MaxIsNat
<1>2. CASE base = 10
  BY <1>1, <1>2 DEF ParseStep, Invalid, Clip
<1>3. CASE base = 16
  BY <1>1, <1>3 DEF ParseStep, Invalid, Clip
<1>. QED  BY <1>2, <1>3 DEF Base

(* ParseUint gets back the number that was written, cut off at 64 bits. *)
LEMMA NumberIsRead ==
  ASSUME NEW n \in Nat, NEW base \in Base, NEW prefix
  PROVE  /\ ParseUint(Number(prefix, n, base).digits, base) = Clip(n)
         /\ Number(prefix, n, base).prefix = prefix
         /\ Number(prefix, n, base).digits \in Seq(Nat)
<1> DEFINE g == CHOOSE g : IsDigitTable(n, base, g)
           Good(m) == g[m] \in Seq(Nat) /\ g[m] # <<>> /\ ParseUint(g[m], base) = Clip(m)
           Bad == {m \in 0..n : ~Good(m)}
<1>1. IsDigitTable(n, base, g)
  BY DigitsExist
<1>2. Number(prefix, n, base).digits = g[n] /\ Number(prefix, n, base).prefix = prefix
  BY NumberIsChoice
<1> HIDE DEF g
<1>3. \A m \in 0..n : g[m] = DigitTurn(base, g, m)
  BY <1>1 DEF IsDigitTable
<1>4. ASSUME NEW m \in 0..n, m < base PROVE Good(m)
  <2>0. m \in Nat
    OBVIOUS
  <2>1a. g[m] = DigitTurn(base, g, m)
    BY <1>3
  <2>1b. DigitTurn(base, g, m) = <<m>>
    BY <1>4 DEF DigitTurn
  <2>1. g[m] = <<m>>
    BY <2>1a, <2>1b, Zenon
  <2>2. ParseUint(<<m>>, base) = Clip(m)
    BY <1>4, <2>0, ParseOfOne, ClipDigit
  <2>3. <<m>> \in Seq(Nat) /\ <<m>> # <<>>
    BY <2>0
  <2>. QED  BY <2>1, <2>2, <2>3, Zenon DEF Good
<1>5. ASSUME NEW m \in 0..n, m >= base, Good(m \div base) PROVE Good(m)
  <2>1. m \in Nat /\ base \in Nat /\ m % base \in Nat /\ ~(m < base)
    BY <1>5, QuotientIsSmaller DEF Base
  <2>2. g[m] = Append(g[m \div base], m % base)
    BY <1>3, <2>1 DEF DigitTurn
  <2> DEFINE d == g[m \div base]
  <2>3. d \in Seq(Nat) /\ d # <<>> /\ ParseUint(d, base) = Clip(m \div base)
    BY <1>5
  <2> HIDE DEF d
  <2>4. ParseUint(Append(d, m % base), base) = ParseStep(ParseUint(d, base), m % base, base)
    BY <2>1, <2>3, ParseOfAppend
  <2>5. ParseUint(Append(d, m % base), base) = Clip(m)
    BY <1>5, <2>1, <2>3, <2>4, ClipStep
  <2>6. Append(d, m % base) \in Seq(Nat) /\ Append(d, m % base) # <<>>
    BY <2>1, <2>3
  <2>. QED  BY <2>2, <2>5, <2>6 DEF d
<1> HIDE DEF Good
<1>6. Bad = {}
  <2> SUFFICES ASSUME Bad # {} PROVE FALSE
    OBVIOUS
  <2>0. Bad \in SUBSET Nat
    OBVIOUS
  <2>1. PICK m \in Bad : \A j \in Bad : m <= j
    BY <2>0, LeastNumber
  <2>2. m \in 0..n /\ m \in Nat /\ ~Good(m)
    OBVIOUS
  <2>3. base \in Nat
    BY DEF Base
  <2>4. m >= base
    BY <1>4, <2>2, <2>3
  <2>5. m \div base \in 0..n /\ ~(m <= m \div base)
    <3>1. m \div base \in Nat /\ m \div base < m
      BY <2>2, <2>4, QuotientIsSmaller
    <3>. QED  BY <2>2, <3>1
  <2>6. Good(m \div base)
    BY <2>1, <2>5
  <2>. QED  BY <1>5, <2>2, <2>4, <2>6
<1>7. Good(n)
  BY <1>6
<1>. QED  BY <1>2, <1>7 DEF Good

----------------------------------------------------------------------------
(* From the elements of a document to its events and records               *)

(* The event that the parser of its dialect makes of a publication. *)
Meant(p) ==
  IF p.from = "cee" THEN ConvertCheckEvent(CeeEvent(p), ReceiveTime)
  ELSE IF p.from = "onefs" THEN ConvertOneFS(OneFSEvent(p), ReceiveTime)
  ELSE Convert(VcapsEvent(p), ReceiveTime)

(* The OneFS parser gives up where it cannot read the name. *)
Readable(p) == p.from = "onefs" => DecodeBase64UTF16(OneFSEvent(p).name).ok

(* Whatever the bytes on the wire were: if there are events, they are those of
   the publications of this document, in order, and records are made of them. *)
EventsInv ==
  /\ doc \in Documents /\ (pc = "enqueue" => parsed.ok)
  /\ parsed.ok => /\ pc \in {"enqueue", "done"}
                  /\ parsed.events = [i \in DOMAIN doc.events |-> Meant(doc.events[i])]
                  /\ \A i \in DOMAIN doc.events : Readable(doc.events[i])
  /\ records = IF pc = "done" /\ parsed.ok
                 THEN [i \in DOMAIN parsed.events |-> Map(parsed.events[i])] ELSE <<>>

(* The events of a document are of the one publisher that uses its root. *)
LEMMA EventsOfDocument ==
  ASSUME NEW d \in Documents
  PROVE  /\ Len(d.events) \in Nat /\ DOMAIN d.events = 1..Len(d.events)
         /\ \A i \in DOMAIN d.events : IsPublication(d.events[i])
         /\ \A i \in DOMAIN d.events : d.root = "CheckEventRequest" => d.events[i].from = "cee"
         /\ \A i \in DOMAIN d.events : d.root = "CheckFileRequest" => d.events[i].from = "onefs"
         /\ \A i \in DOMAIN d.events : d.root \in {"EventBatch", "CEEEvent"} => d.events[i].from = "vcaps"
         /\ d.root = "CheckFileRequest" => Len(d.events) <= 1
         /\ d.root = "CEEEvent" => Len(d.events) = 1
<1>1. IsDocument(d)
  BY DeliveryAssumption
<1>2. \A i \in DOMAIN d.events : d.events[i].from = Publisher(d.root)
  BY <1>1 DEF IsDocument
<1>3. Publisher("CheckEventRequest") = "cee" /\ Publisher("CheckFileRequest") = "onefs"
      /\ Publisher("EventBatch") = "vcaps" /\ Publisher("CEEEvent") = "vcaps"
  BY Zenon DEF Publisher
<1>. QED  BY <1>1, <1>2, <1>3 DEF IsDocument

(* What xml.Unmarshal yields for this root: if anything, the document's elements. *)
LEMMA WhatUnmarshalYields ==
  ASSUME NEW root
  PROVE  /\ Unmarshal(root).ok \in BOOLEAN
         /\ Unmarshal(root).ok =>
              /\ doc.root = root /\ Unmarshal(root).action = doc.action
              /\ Unmarshal(root).items = [i \in DOMAIN doc.events |-> Element(doc.events[i])]
              /\ DOMAIN Unmarshal(root).items = DOMAIN doc.events
              /\ \A i \in DOMAIN doc.events : Unmarshal(root).items[i] = Element(doc.events[i])
BY DEF Unmarshal

(* An element is that of its publisher. *)
LEMMA ElementOf ==
  ASSUME NEW p
  PROVE  /\ p.from = "cee" => Element(p) = CeeEvent(p)
         /\ p.from = "onefs" => Element(p) = OneFSEvent(p)
         /\ p.from = "vcaps" => Element(p) = VcapsEvent(p)
BY Zenon DEF Element

(* The parser of Dell CEE's documents makes one event of each element. *)
LEMMA CheckEventParsed ==
  ASSUME doc \in Documents, ParseCheckEventRequest(Unmarshal("CheckEventRequest"), ReceiveTime).ok
  PROVE  /\ ParseCheckEventRequest(Unmarshal("CheckEventRequest"), ReceiveTime).events
              = [i \in DOMAIN doc.events |-> Meant(doc.events[i])]
         /\ \A i \in DOMAIN doc.events : Readable(doc.events[i])
<1> DEFINE x == Unmarshal("CheckEventRequest")
           p == ParseCheckEventRequest(x, ReceiveTime)
<1>1. x.ok /\ p.events = [i \in DOMAIN x.items |-> ConvertCheckEvent(x.items[i], ReceiveTime)]
  BY DEF ParseCheckEventRequest, ParseError, Parsed
<1>2. /\ doc.root = "CheckEventRequest" /\ DOMAIN x.items = DOMAIN doc.events
      /\ \A i \in DOMAIN doc.events : x.items[i] = Element(doc.events[i])
  BY <1>1, WhatUnmarshalYields
<1>3. \A i \in DOMAIN doc.events : doc.events[i].from = "cee"
  BY <1>2, EventsOfDocument
<1>4. \A i \in DOMAIN doc.events : x.items[i] = CeeEvent(doc.events[i])
  BY <1>2, <1>3, ElementOf
<1> HIDE DEF x, p
<1>5. \A i \in DOMAIN doc.events : ConvertCheckEvent(x.items[i], ReceiveTime) = Meant(doc.events[i])
  BY <1>3, <1>4 DEF Meant
<1>6. p.events = [i \in DOMAIN doc.events |-> Meant(doc.events[i])]
  BY <1>1, <1>2, <1>5
<1>. QED  BY <1>3, <1>6 DEF Readable, x, p

(* The parser of OneFS' documents makes one event, if it reads the name. *)
LEMMA OneFSParsed ==
  ASSUME doc \in Documents, ParseOneFSEvent(Unmarshal("CheckFileRequest"), ReceiveTime).ok
  PROVE  /\ ParseOneFSEvent(Unmarshal("CheckFileRequest"), ReceiveTime).events
              = [i \in DOMAIN doc.events |-> Meant(doc.events[i])]
         /\ \A i \in DOMAIN doc.events : Readable(doc.events[i])
<1> DEFINE x == Unmarshal("CheckFileRequest")
           p == ParseOneFSEvent(x, ReceiveTime)
<1>1. x.ok /\ x.items # <<>> /\ DecodeBase64UTF16(x.items[1].name).ok
      /\ p.events = <<ConvertOneFS(x.items[1], ReceiveTime)>>
  BY DEF ParseOneFSEvent, ParseError, Parsed
<1>2. /\ doc.root = "CheckFileRequest" /\ DOMAIN x.items = DOMAIN doc.events
      /\ x.items = [i \in DOMAIN doc.events |-> Element(doc.events[i])]
      /\ \A i \in DOMAIN doc.events : x.items[i] = Element(doc.events[i])
  BY <1>1, WhatUnmarshalYields
<1>3. /\ \A i \in DOMAIN doc.events : doc.events[i].from = "onefs"
      /\ Len(doc.events) \in Nat /\ DOMAIN doc.events = 1..Len(doc.events) /\ Len(doc.events) <= 1
  BY <1>2, EventsOfDocument
<1> HIDE DEF x, p
<1>4. DOMAIN doc.events # {}
  <2> SUFFICES ASSUME DOMAIN doc.events = {} PROVE FALSE
    OBVIOUS
  <2>1. x.items = [i \in {} |-> Element(doc.events[i])]
    BY <1>2, Zenon
  <2>2. [i \in {} |-> Element(doc.events[i])] = <<>>
    OBVIOUS
  <2>. QED  BY <1>1, <2>1, <2>2, Zenon
<1>5. DOMAIN doc.events = 1..1
  BY <1>3, <1>4
<1>6. 1 \in DOMAIN doc.events
  BY <1>5
<1>7. x.items[1] = OneFSEvent(doc.events[1]) /\ doc.events[1].from = "onefs"
  BY <1>2, <1>3, <1>6, ElementOf
<1>8. Meant(doc.events[1]) = ConvertOneFS(x.items[1], ReceiveTime)
  BY <1>7 DEF Meant
<1>9. p.events = <<Meant(doc.events[1])>>
  BY <1>1, <1>8, Zenon
<1>10. p.events = [i \in DOMAIN doc.events |-> Meant(doc.events[i])]
  <2> DEFINE M(i) == Meant(doc.events[i])
  <2> HIDE DEF M
  <2>1. <<M(1)>> = [i \in 1..1 |-> M(i)]
    OBVIOUS
  <2>. QED  BY <1>5, <1>9, <2>1, Zenon DEF M
<1>11. \A i \in DOMAIN doc.events : Readable(doc.events[i])
  <2>1. \A i \in DOMAIN doc.events : i = 1
    BY <1>5
  <2>2. Readable(doc.events[1])
    BY <1>1, <1>7 DEF Readable
  <2>. QED  BY <2>1, <2>2
<1>. QED  BY <1>10, <1>11 DEF x, p

(* The parser of VCAPS makes one event of each element, of one event or a batch. *)
LEMMA VcapsParsed ==
  ASSUME doc \in Documents,
         ParseDecoded(Unmarshal("EventBatch"), Unmarshal("CEEEvent"), ReceiveTime).ok
  PROVE  /\ ParseDecoded(Unmarshal("EventBatch"), Unmarshal("CEEEvent"), ReceiveTime).events
              = [i \in DOMAIN doc.events |-> Meant(doc.events[i])]
         /\ \A i \in DOMAIN doc.events : Readable(doc.events[i])
<1> DEFINE x == Unmarshal("EventBatch")
           y == Unmarshal("CEEEvent")
           p == ParseDecoded(x, y, ReceiveTime)
<1>1. \/ x.ok /\ p.events = [i \in DOMAIN x.items |-> Convert(x.items[i], ReceiveTime)]
      \/ y.ok /\ p.events = <<Convert(y.items[1], ReceiveTime)>>
  BY DEF ParseDecoded, ParseError, Parsed
<1>2. x.ok => /\ doc.root = "EventBatch" /\ DOMAIN x.items = DOMAIN doc.events
              /\ \A i \in DOMAIN doc.events : x.items[i] = Element(doc.events[i])
  BY WhatUnmarshalYields
<1>3. y.ok => /\ doc.root = "CEEEvent" /\ DOMAIN y.items = DOMAIN doc.events
              /\ \A i \in DOMAIN doc.events : y.items[i] = Element(doc.events[i])
  BY WhatUnmarshalYields
<1>4. doc.root \in {"EventBatch", "CEEEvent"}
  BY <1>1, <1>2, <1>3
<1>5. \A i \in DOMAIN doc.events : doc.events[i].from = "vcaps"
  BY <1>4, EventsOfDocument
<1>6. \A i \in DOMAIN doc.events : /\ Element(doc.events[i]) = VcapsEvent(doc.events[i])
                                   /\ Meant(doc.events[i]) = Convert(VcapsEvent(doc.events[i]), ReceiveTime)
  BY <1>5, ElementOf DEF Meant
<1> HIDE DEF x, y, p
<1>7. CASE x.ok /\ p.events = [i \in DOMAIN x.items |-> Convert(x.items[i], ReceiveTime)]
  <2>1. \A i \in DOMAIN doc.events : Convert(x.items[i], ReceiveTime) = Meant(doc.events[i])
    BY <1>2, <1>6, <1>7
  <2>2. p.events = [i \in DOMAIN doc.events |-> Meant(doc.events[i])]
    BY <1>2, <1>7, <2>1
  <2>. QED  BY <1>5, <2>2 DEF Readable, x, y, p
<1>8. CASE y.ok /\ p.events = <<Convert(y.items[1], ReceiveTime)>>
  <2>1. Len(doc.events) = 1 /\ DOMAIN doc.events = 1..Len(doc.events)
    BY <1>3, <1>8, EventsOfDocument
  <2>2. DOMAIN doc.events = 1..1 /\ 1 \in DOMAIN doc.events
    BY <2>1
  <2>3. y.items[1] = VcapsEvent(doc.events[1])
    BY <1>3, <1>6, <1>8, <2>2
  <2>4. p.events = <<Meant(doc.events[1])>>
    BY <1>6, <1>8, <2>2, <2>3
  <2> DEFINE M(i) == Meant(doc.events[i])
  <2> HIDE DEF M
  <2>5. <<M(1)>> = [i \in 1..1 |-> M(i)]
    OBVIOUS
  <2>6. p.events = [i \in DOMAIN doc.events |-> Meant(doc.events[i])]
    BY <2>2, <2>4, <2>5, Zenon DEF M
  <2>. QED  BY <1>5, <2>6 DEF Readable, x, y, p
<1>. QED  BY <1>1, <1>7, <1>8

(* Events and records are made as EventsInv says, whatever arrived. *)
THEOREM EventsInductive == Spec => []EventsInv
<1>1. Init => EventsInv
  BY DEF Init, EventsInv, ParseError
<1>2. EventsInv /\ [Next]_vars => EventsInv'
  <2> SUFFICES ASSUME EventsInv, [Next]_vars PROVE EventsInv'
    OBVIOUS
  <2> USE DEF EventsInv
  <2>0. ASSUME pc \notin {"enqueue", "done"}
        PROVE  ~parsed.ok /\ records = <<>>
    BY <2>0
  <2>00. ASSUME UNCHANGED <<doc, parsed, records>>, ~parsed.ok, pc' # "enqueue" PROVE EventsInv'
    BY <2>00
  <2>1. CASE Send
    BY <2>0, <2>00, <2>1 DEF Send
  <2>2. CASE SendTruncated
    BY <2>0, <2>00, <2>2 DEF SendTruncated
  <2>3. CASE Classify
    BY <2>0, <2>00, <2>3 DEF Classify
  <2>4. CASE RegisterRequest
    BY <2>0, <2>00, <2>4 DEF RegisterRequest, AtDialect
  <2>5. CASE HeartBeatRequest
    BY <2>0, <2>00, <2>5 DEF HeartBeatRequest, AtDialect
  <2>6. CASE CheckFileHeartbeat
    BY <2>0, <2>00, <2>6 DEF CheckFileHeartbeat, AtDialect
  <2>7. ASSUME pc = "dispatch", UNCHANGED <<doc, records>>,
               pc' = IF parsed'.ok THEN "enqueue" ELSE "done",
               parsed'.ok => /\ parsed'.events = [i \in DOMAIN doc.events |-> Meant(doc.events[i])]
                             /\ \A i \in DOMAIN doc.events : Readable(doc.events[i])
        PROVE EventsInv'
    <3>1. records' = <<>>
      BY <2>0, <2>7
    <3>2. ~(pc' = "done" /\ parsed'.ok)
      BY <2>7
    <3>. QED  BY <2>7, <3>1, <3>2
  <2>8. CASE CheckFileEvent
    <3>1. /\ pc = "dispatch" /\ UNCHANGED <<doc, records>>
          /\ pc' = IF parsed'.ok THEN "enqueue" ELSE "done"
          /\ parsed' = ParseOneFSEvent(Unmarshal("CheckFileRequest"), ReceiveTime)
      BY <2>8 DEF CheckFileEvent, AtDialect
    <3>. QED  BY <2>7, <3>1, OneFSParsed
  <2>9. CASE CheckEventRequest
    <3>1. /\ pc = "dispatch" /\ UNCHANGED <<doc, records>>
          /\ pc' = IF parsed'.ok THEN "enqueue" ELSE "done"
          /\ parsed' = ParseCheckEventRequest(Unmarshal("CheckEventRequest"), ReceiveTime)
      BY <2>9 DEF CheckEventRequest, AtDialect
    <3>. QED  BY <2>7, <3>1, CheckEventParsed
  <2>10. CASE Events
    <3>1. /\ pc = "dispatch" /\ UNCHANGED <<doc, records>>
          /\ pc' = IF parsed'.ok THEN "enqueue" ELSE "done"
          /\ parsed' = ParseDecoded(Unmarshal("EventBatch"), Unmarshal("CEEEvent"), ReceiveTime)
      BY <2>10 DEF Events, AtDialect
    <3>. QED  BY <2>7, <3>1, VcapsParsed
  <2>11. CASE Enqueue
    BY <2>11 DEF Enqueue
  <2>12. CASE UNCHANGED vars
    BY <2>12 DEF vars
  <2>. QED  BY <2>1, <2>2, <2>3, <2>4, <2>5, <2>6, <2>8, <2>9, <2>10, <2>11, <2>12 DEF Next
<1>. QED  BY <1>1, <1>2, PTL DEF Spec

(* Each record is that of the publication in its place. *)
LEMMA RecordsAreMeant ==
  ASSUME EventsInv
  PROVE  \A i \in DOMAIN records :
           /\ i \in DOMAIN doc.events /\ records[i] = Map(Meant(Sent(i)))
           /\ IsPublication(Sent(i)) /\ Readable(Sent(i))
           /\ Sent(i).from \in {"cee", "onefs", "vcaps"}
<1> SUFFICES ASSUME NEW i \in DOMAIN records
             PROVE  /\ i \in DOMAIN doc.events /\ records[i] = Map(Meant(doc.events[i]))
                    /\ IsPublication(doc.events[i]) /\ Readable(doc.events[i])
                    /\ doc.events[i].from \in {"cee", "onefs", "vcaps"}
  BY DEF Sent
<1>1. DOMAIN <<>> = {}
  OBVIOUS
<1>2. pc = "done" /\ parsed.ok
  <2> SUFFICES ASSUME ~(pc = "done" /\ parsed.ok) PROVE FALSE
    OBVIOUS
  <2>1. records = <<>>
    BY DEF EventsInv
  <2>. QED  BY <1>1, <2>1
<1>3. records = [j \in DOMAIN parsed.events |-> Map(parsed.events[j])]
  BY <1>2 DEF EventsInv
<1>4. /\ parsed.events = [j \in DOMAIN doc.events |-> Meant(doc.events[j])]
      /\ \A j \in DOMAIN doc.events : Readable(doc.events[j])
      /\ doc \in Documents
  BY <1>2 DEF EventsInv
<1>5. i \in DOMAIN doc.events /\ records[i] = Map(Meant(doc.events[i]))
  BY <1>3, <1>4
<1>6. IsPublication(doc.events[i])
  BY <1>4, <1>5, EventsOfDocument
<1>. QED  BY <1>4, <1>5, <1>6 DEF IsPublication

----------------------------------------------------------------------------
(* Kinds of events                                                         *)

(* The tables of the mapper agree on every type whose name is not that of an access. *)
LEMMA MapperAgrees ==
  ASSUME NEW e, e.EventType.name \notin {"DELETE", "WRITE_DAC", "CloseHandle"}
  PROVE  Consistent(Map(e))
<1> DEFINE type == e.EventType
           kind == type.name
           access == Accesses(type)
<1>1. Map(e).EventID = EventID(kind) /\ Map(e).AccessMask = AccessMask(kind)
      /\ Map(e).Accesses = access
  BY DEF Map
<1>2. \A n : Cepp(n).name = n
  BY DEF Cepp
<1>3. kind \in Deletes => access = Cepp("DELETE")
  BY DEF Accesses, Deletes, Reads, Writes
<1>4. kind \in SetsACL => access = Cepp("WRITE_DAC")
  BY DEF Accesses, SetsACL, Deletes, Reads, Writes
<1>5. kind \in Closes => access = Cepp("CloseHandle")
  BY DEF Accesses, SetsACL, SetsSec, Closes, Deletes, Reads, Writes
<1>6. /\ kind \notin Deletes => access.name # "DELETE"
      /\ kind \notin SetsACL => access.name # "WRITE_DAC"
      /\ kind \notin Closes => access.name # "CloseHandle"
  BY <1>2 DEF Accesses
<1>7. /\ access = Cepp("DELETE") <=> kind \in Deletes
      /\ access = Cepp("WRITE_DAC") <=> kind \in SetsACL
      /\ access = Cepp("CloseHandle") <=> kind \in Closes
  BY <1>2, <1>3, <1>4, <1>5, <1>6, Zenon
<1>8. /\ EventID(kind) = 4660 <=> kind \in Deletes
      /\ EventID(kind) = 4670 <=> kind \in SetsACL \cup SetsSec
      /\ EventID(kind) = 4658 <=> kind \in Closes
  BY SMT DEF EventID, Deletes, SetsACL, SetsSec, Closes
<1>9. /\ AccessMask(kind) = "0x10000" <=> kind \in Deletes
      /\ AccessMask(kind) = "0x40000" <=> kind \in SetsACL
      /\ AccessMask(kind) = "0x80000" <=> kind \in SetsSec
      /\ kind \in Closes => AccessMask(kind) = "0x0"
  BY DEF AccessMask, Deletes, SetsACL, SetsSec, Closes, Reads, Writes
<1> HIDE DEF type, kind, access
<1>. QED  BY <1>1, <1>7, <1>8, <1>9, SMT DEF Consistent

(* What a table says of one of its codes is in the table. *)
LEMMA LookupIsThere ==
  ASSUME NEW table, NEW n \in Codes(table)
  PROVE  \E entry \in table : entry[1] = n /\ Lookup(table, n) = entry[2]
<1>1. \E entry \in table : entry[1] = n
  BY DEF Codes
<1>. QED  BY <1>1 DEF Lookup

(* The codes of OneFS are codes of Dell CEE, with the same meaning. *)
LEMMA OneVocabulary ==
  ASSUME NEW c \in Codes(onefsEventType)
  PROVE  c \in Codes(ceeEventType) /\ Lookup(ceeEventType, c) = Lookup(onefsEventType, c)
<1>1. PICK o \in onefsEventType : o[1] = c /\ Lookup(onefsEventType, c) = o[2]
  BY LookupIsThere
<1>2. o \in ceeEventType
  BY <1>1, SMT DEF onefsEventType, ceeEventType
<1>3. c \in Codes(ceeEventType)
  BY <1>1, <1>2 DEF Codes
<1>4. PICK e \in ceeEventType : e[1] = c /\ Lookup(ceeEventType, c) = e[2]
  BY <1>3, LookupIsThere
<1>5. o[2] = e[2]
  BY <1>1, <1>4, SMT DEF onefsEventType, ceeEventType
<1>. QED  BY <1>1, <1>3, <1>4, <1>5

(* No code of Dell CEE stands for a name that the mapper gives to an access. *)
LEMMA CeeNameFacts ==
  ASSUME NEW n
  PROVE  /\ CeeName(n).name \notin {"DELETE", "WRITE_DAC", "CloseHandle"}
         /\ n \in Codes(onefsEventType) => CeeName(n) = Cepp(Lookup(onefsEventType, n))
         /\ CeeName(n).code # Invalid => CeeName(n).code = n /\ CeeName(n).name = "CEE_UNMAPPED"
<1>1. CASE n \in Codes(ceeEventType)
  <2>1. CeeName(n) = Cepp(Lookup(ceeEventType, n))
    BY <1>1, Zenon DEF CeeName
  <2>2. PICK e \in ceeEventType : e[1] = n /\ Lookup(ceeEventType, n) = e[2]
    BY <1>1, LookupIsThere
  <2>3. e[2] \notin {"DELETE", "WRITE_DAC", "CloseHandle"}
    BY <2>2, SMT DEF ceeEventType
  <2>4. CeeName(n).name = e[2] /\ CeeName(n).code = Invalid
    BY <2>1, <2>2 DEF Cepp
  <2>. QED  BY <2>1, <2>3, <2>4, OneVocabulary
<1>2. CASE n \notin Codes(ceeEventType)
  <2>1. CeeName(n) = Unmapped("CEE_UNMAPPED", n)
    BY <1>2, Zenon DEF CeeName
  <2>2. n \notin Codes(onefsEventType)
    BY <1>2, OneVocabulary
  <2>. QED  BY <2>1, <2>2 DEF Unmapped
<1>. QED  BY <1>1, <1>2

(* The type that Dell CEE's parser reads is the code that was written, with or
   without 0x. *)
LEMMA CeeKind ==
  ASSUME NEW p, IsPublication(p), p.from = "cee"
  PROVE  p.code \in Nat /\ Meant(p).EventType = CeeName(p.code)
<1>1. p.code \in Nat /\ p.code <= MaxUint64
  <2>1. p.code \in 0..MaxUint64
    BY DEF IsPublication
  <2>. QED  BY <2>1, MaxIsNat
<1>2. Meant(p).EventType = CeeEventTypeName(Number(p.prefix, p.code, 16))
  BY DEF Meant, ConvertCheckEvent, CeeEvent
<1>3. 16 \in Base
  BY DEF Base
<1>4. ParseUint(Number(p.prefix, p.code, 16).digits, 16) = p.code
  BY <1>1, <1>3, NumberIsRead DEF Clip
<1>5. CeeEventTypeName(Number(p.prefix, p.code, 16)) = CeeName(p.code)
  BY <1>4 DEF CeeEventTypeName, ParseCEENum
<1>. QED  BY <1>1, <1>2, <1>5

(* The type that the OneFS parser reads. *)
LEMMA OneFSKind ==
  ASSUME NEW p, p.from = "onefs"
  PROVE  /\ Meant(p).EventType.name \notin {"DELETE", "WRITE_DAC", "CloseHandle"}
         /\ p.code \in Codes(onefsEventType) => Meant(p).EventType = Cepp(Lookup(onefsEventType, p.code))
         /\ Meant(p).EventType.code # Invalid =>
              Meant(p).EventType.code = p.code /\ Meant(p).EventType.name = "ONEFS_UNMAPPED"
<1>1. Meant(p).EventType = OnefsEventTypeName(p.code)
  BY DEF Meant, ConvertOneFS, OneFSEvent
<1>2. CASE p.code \in Codes(onefsEventType)
  <2>1. OnefsEventTypeName(p.code) = Cepp(Lookup(onefsEventType, p.code))
    BY <1>2, Zenon DEF OnefsEventTypeName
  <2>2. PICK e \in onefsEventType : e[1] = p.code /\ Lookup(onefsEventType, p.code) = e[2]
    BY <1>2, LookupIsThere
  <2>3. e[2] \notin {"DELETE", "WRITE_DAC", "CloseHandle"}
    BY SMT DEF onefsEventType
  <2>4. Cepp(e[2]).name = e[2] /\ Cepp(e[2]).code = Invalid
    BY DEF Cepp
  <2>. QED  BY <1>1, <2>1, <2>2, <2>3, <2>4
<1>3. CASE p.code \notin Codes(onefsEventType)
  <2>1. OnefsEventTypeName(p.code) = Unmapped("ONEFS_UNMAPPED", ParseInt(p.code))
    BY <1>3, Zenon DEF OnefsEventTypeName
  <2>2. ParseInt(p.code) # Invalid => ParseInt(p.code) = p.code
    BY Zenon DEF ParseInt
  <2>. QED  BY <1>1, <1>3, <2>1, <2>2 DEF Unmapped
<1>. QED  BY <1>2, <1>3

(* The mapper lets what has no meaning be, and has it assert no access. *)
LEMMA UnmappedAssertsNothing ==
  ASSUME NEW e, e.EventType.name \in {"CEE_UNMAPPED", "ONEFS_UNMAPPED"}
  PROVE  Map(e).EventID = 4663 /\ Map(e).AccessMask = "0x0"
BY SMT DEF Map, EventID, AccessMask, Reads, Writes, Deletes, SetsACL, SetsSec, Closes

(* What a record says of one publication, of each kind. *)
LEMMA KindOfOne ==
  ASSUME NEW p, IsPublication(p), p.from \in {"cee", "onefs", "vcaps"}
  PROVE  /\ Consistent(Map(Meant(p)))
         /\ p.from # "vcaps" /\ p.code \in Codes(onefsEventType)
              => Map(Meant(p)).CEPAEventType = Cepp(Lookup(onefsEventType, p.code))
         /\ Map(Meant(p)).CEPAEventType.code # Invalid
              => /\ Map(Meant(p)).CEPAEventType.code = p.code
                 /\ Map(Meant(p)).EventID = 4663 /\ Map(Meant(p)).AccessMask = "0x0"
<1> DEFINE e == Meant(p)
<1>1. Map(e).CEPAEventType = e.EventType
  BY DEF Map
<1> HIDE DEF e
<1>2. CASE p.from = "cee"
  <2>1. e.EventType = CeeName(p.code)
    BY <1>2, CeeKind DEF e
  <2>. QED  BY <1>1, <2>1, CeeNameFacts, MapperAgrees, UnmappedAssertsNothing DEF e
<1>3. CASE p.from = "onefs"
  <2>1. /\ e.EventType.name \notin {"DELETE", "WRITE_DAC", "CloseHandle"}
        /\ p.code \in Codes(onefsEventType) => e.EventType = Cepp(Lookup(onefsEventType, p.code))
        /\ e.EventType.code # Invalid =>
             e.EventType.code = p.code /\ e.EventType.name = "ONEFS_UNMAPPED"
    BY <1>3, OneFSKind DEF e
  <2>. QED  BY <1>1, <2>1, MapperAgrees, UnmappedAssertsNothing DEF e
<1>4. CASE p.from = "vcaps"
  <2>1. e.EventType = Cepp(p.name)
    BY <1>4 DEF e, Meant, Convert, VcapsEvent
  <2>2. p.name \notin {"DELETE", "WRITE_DAC", "CloseHandle"}
    BY <1>4 DEF IsPublication
  <2>3. e.EventType.name = p.name /\ e.EventType.code = Invalid
    BY <2>1 DEF Cepp
  <2>. QED  BY <1>1, <1>4, <2>2, <2>3, MapperAgrees DEF e
<1>. QED  BY <1>2, <1>3, <1>4

(* A record says what kind of event it was, whatever the code, the notation, the
   publisher and the state of the payload (mapper.go, ceeEventTypeName). *)
THEOREM RecordsSayTheirKind == Spec => []RecordKindIsEventKind
<1>1. EventsInv => RecordKindIsEventKind
  <2> SUFFICES ASSUME EventsInv, NEW i \in DOMAIN records
               PROVE  /\ Consistent(records[i])
                      /\ Sent(i).from # "vcaps" /\ Sent(i).code \in Codes(onefsEventType)
                           => records[i].CEPAEventType = Cepp(Lookup(onefsEventType, Sent(i).code))
                      /\ records[i].CEPAEventType.code # Invalid
                           => /\ records[i].CEPAEventType.code = Sent(i).code
                              /\ records[i].EventID = 4663 /\ records[i].AccessMask = "0x0"
    BY DEF RecordKindIsEventKind
  <2>1. /\ records[i] = Map(Meant(Sent(i))) /\ IsPublication(Sent(i))
        /\ Sent(i).from \in {"cee", "onefs", "vcaps"}
    BY RecordsAreMeant
  <2> DEFINE p == Sent(i)
             r == records[i]
  <2> HIDE DEF p, r
  <2>2. r = Map(Meant(p)) /\ IsPublication(p) /\ p.from \in {"cee", "onefs", "vcaps"}
    BY <2>1, Zenon DEF p, r
  <2>3. /\ Consistent(r)
        /\ p.from # "vcaps" /\ p.code \in Codes(onefsEventType)
             => r.CEPAEventType = Cepp(Lookup(onefsEventType, p.code))
        /\ r.CEPAEventType.code # Invalid
             => r.CEPAEventType.code = p.code /\ r.EventID = 4663 /\ r.AccessMask = "0x0"
    BY <2>2, KindOfOne
  <2>. QED  BY <2>3 DEF p, r
<1>. QED  BY <1>1, EventsInductive, PTL

----------------------------------------------------------------------------
(* Times of events                                                         *)

(* A packed stamp fits, exceeds a word, and has its seconds in the upper half. *)
LEMMA PackedStamp ==
  ASSUME NEW s \in 1..MaxUint32, NEW l \in 0..MaxUint32
  PROVE  /\ s * Word + l \in Nat /\ s * Word + l <= MaxUint64
         /\ s * Word + l > MaxUint32 /\ (s * Word + l) \div Word = s
<1>1. Word \in Nat /\ Word >= 2 /\ s \in Nat /\ l \in Nat /\ 1 <= s /\ s + 1 <= Word /\ l + 1 <= Word
  BY MaxIsNat DEF MaxUint32
<1>2. s * Word \in Nat /\ Word <= s * Word /\ s * Word + Word <= Word * Word
  BY <1>1
<1>3. (s * Word + l) \div Word = s
  BY <1>1
<1>. QED  BY <1>1, <1>2, <1>3 DEF MaxUint32, MaxUint64

(* Numbers of one word, and microseconds, are within 64 bits with a sign. *)
LEMMA SignedIsWide ==
  /\ MaxInt64 \in Nat /\ MaxUint32 <= MaxInt64
  /\ MicrosPerSecond \in Nat /\ MicrosPerSecond >= 1 /\ MicrosPerSecond - 1 <= MaxInt64
<1>1. Word \in Nat /\ Word >= 2
  BY MaxIsNat
<1>2. Word * Word \in Nat /\ 2 * Word <= Word * Word
  BY <1>1
<1>3. (Word * Word) \div 2 >= Word
  BY <1>1, <1>2
<1>4. MicrosPerSecond \in Nat /\ MicrosPerSecond >= 1 /\ MicrosPerSecond <= Word
  BY <1>1, PayloadAssumption
<1>. QED  BY <1>1, <1>2, <1>3, <1>4 DEF MaxInt64, MaxUint32

(* A number is read in the base that its prefix says. *)
LEMMA PrefixedIsRead ==
  ASSUME NEW n \in Nat
  PROVE  /\ ParseCEENum(Number(FALSE, n, 10), 10) = Clip(n)
         /\ ParseCEENum(Number(TRUE, n, 16), 10) = Clip(n)
<1>1. 10 \in Base /\ 16 \in Base
  BY DEF Base
<1> DEFINE no == FALSE
           yes == TRUE
<1> HIDE DEF no, yes
<1>2. /\ ParseUint(Number(no, n, 10).digits, 10) = Clip(n) /\ Number(no, n, 10).prefix = no
      /\ ParseUint(Number(yes, n, 16).digits, 16) = Clip(n) /\ Number(yes, n, 16).prefix = yes
  BY <1>1, NumberIsRead
<1>3. Number(FALSE, n, 10).prefix = FALSE /\ Number(TRUE, n, 16).prefix = TRUE
  BY Zenon DEF Number
<1>4. /\ ParseUint(Number(FALSE, n, 10).digits, 10) = Clip(n)
      /\ ParseUint(Number(TRUE, n, 16).digits, 16) = Clip(n)
  BY <1>2, Zenon DEF no, yes
<1>. QED  BY <1>3, <1>4, Zenon DEF ParseCEENum

(* Dell CEE: the number is what was written, in the base it was written in. *)
LEMMA CeeStampIsRead ==
  ASSUME NEW p, IsPublication(p), p.from = "cee"
  PROVE  CeeTimestamp(StampCEE(p), ReceiveTime)
           = IF p.stamp \in {"seconds", "packed"} THEN Time(p.second, 0) ELSE ReceiveTime
<1> DEFINE n == ParseCEENum(StampCEE(p), 10)
<1>1. /\ p.second \in 1..MaxUint32 /\ p.low \in 0..MaxUint32
      /\ p.stamp \in {"seconds", "packed", "zero", "none", "long"}
  BY DEF IsPublication
<1>2. /\ MaxUint32 \in Nat /\ MaxUint64 \in Nat /\ MaxUint32 <= MaxUint64 /\ p.second \in Nat
      /\ 1 <= p.second /\ p.second <= MaxUint32
  <2>1. Word \in Nat /\ Word >= 2 /\ Word * Word \in Nat /\ Word <= Word * Word
    BY MaxIsNat
  <2>. QED  BY <1>1, <2>1, MaxIsNat DEF MaxUint32, MaxUint64
<1>4. CASE p.stamp = "seconds"
  <2>1. StampCEE(p) = Number(FALSE, p.second, 10)
    BY <1>4, Zenon DEF StampCEE
  <2>2a. n = Clip(p.second)
    BY <1>2, <2>1, PrefixedIsRead, Zenon
  <2>2. n = p.second
    BY <1>2, <2>2a DEF Clip
  <2> HIDE DEF n
  <2>3. CeeTimestamp(StampCEE(p), ReceiveTime) = Time(n, 0)
    BY <1>2, <2>2 DEF CeeTimestamp, n, Invalid
  <2>. QED  BY <1>4, <2>2, <2>3
<1>5. CASE p.stamp = "packed"
  <2> DEFINE m == p.second * Word + p.low
  <2>1. StampCEE(p) = Number(TRUE, m, 16)
    BY <1>5, Zenon DEF StampCEE
  <2>2. m \in Nat /\ m <= MaxUint64 /\ m > MaxUint32 /\ m \div Word = p.second
    BY <1>1, PackedStamp
  <2> HIDE DEF m
  <2>3. n = m
    BY <2>1, <2>2, PrefixedIsRead DEF Clip
  <2> HIDE DEF n
  <2>4. CeeTimestamp(StampCEE(p), ReceiveTime) = Time(n \div Word, 0)
    BY <1>2, <2>2, <2>3 DEF CeeTimestamp, n, Invalid
  <2>. QED  BY <1>5, <2>2, <2>3, <2>4
<1>6. CASE p.stamp \in {"zero", "none", "long"}
  <2>1. n \in {Invalid, 0}
    <3>1. CASE p.stamp = "zero"
      <4>1. StampCEE(p) = Number(TRUE, 0, 16)
        BY <3>1, Zenon DEF StampCEE
      <4>. QED  BY <1>2, <4>1, PrefixedIsRead DEF Clip
    <3>2. CASE p.stamp = "none"
      <4>1. StampCEE(p) = NoNumber
        BY <3>2, Zenon DEF StampCEE
      <4>2. StampCEE(p).digits = <<>>
        BY <4>1 DEF NoNumber
      <4>. QED  BY <4>2 DEF ParseCEENum, ParseUint
    <3>3. CASE p.stamp = "long"
      <4>1. StampCEE(p) = Number(TRUE, MaxUint64 + 1, 16)
        BY <3>3, Zenon DEF StampCEE
      <4>2. MaxUint64 + 1 \in Nat /\ Clip(MaxUint64 + 1) = Invalid
        BY <1>2 DEF Clip
      <4>. QED  BY <4>1, <4>2, PrefixedIsRead
    <3>. QED  BY <1>6, <3>1, <3>2, <3>3
  <2>. QED  BY <1>6, <2>1 DEF CeeTimestamp
<1>. QED  BY <1>1, <1>4, <1>5, <1>6

(* OneFS: seconds, with the microseconds that are less than a second. *)
LEMMA OneFSStampIsRead ==
  ASSUME NEW p, IsPublication(p), p.from = "onefs"
  PROVE  Meant(p).Timestamp
           = IF p.stamp = "seconds" THEN Time(p.second, Micros(p)) ELSE ReceiveTime
<1> DEFINE e == OneFSEvent(p)
<1>1. Meant(p).Timestamp = OnefsTimestamp(e.timeStamp, e.timeStampMicroSeconds, ReceiveTime)
  BY DEF Meant, ConvertOneFS
<1>2. e.timeStampMicroSeconds = p.low
  BY DEF OneFSEvent
<1>3. p.second \in 1..MaxUint32 /\ p.stamp \in {"seconds", "none", "long"}
  BY DEF IsPublication
<1>4. e.timeStamp = CASE p.stamp = "seconds" -> p.second
                      [] p.stamp = "long" -> MaxInt64 + 1
                      [] p.stamp = "none" -> Invalid
  BY Zenon DEF OneFSEvent
<1> HIDE DEF e
<1>5. CASE p.stamp = "seconds"
  <2>1. e.timeStamp = p.second
    BY <1>4, <1>5, Zenon
  <2>2. p.second \in 0..MaxInt64 /\ p.second >= 1 /\ p.second \in Nat
    BY <1>3, SignedIsWide, MaxIsNat
  <2>3. ParseInt(e.timeStamp) = p.second /\ p.second \notin {Invalid, 0}
    BY <2>1, <2>2 DEF ParseInt, Invalid
  <2> DEFINE us == ParseInt(p.low)
             u == IF us \in 0..(MicrosPerSecond - 1) THEN us ELSE 0
  <2>4. u = Micros(p)
    <3>1. p.low \in 0..(MicrosPerSecond - 1) => p.low \in 0..MaxInt64
      BY SignedIsWide
    <3>2. ~(Invalid \in 0..(MicrosPerSecond - 1))
      BY SignedIsWide DEF Invalid
    <3>. QED  BY <3>1, <3>2 DEF ParseInt, Micros
  <2>5. u \in Nat /\ u < MicrosPerSecond /\ MicrosPerSecond \in Nat /\ MicrosPerSecond >= 1
    BY SignedIsWide
  <2>6. OnefsTimestamp(e.timeStamp, p.low, ReceiveTime) = Unix(p.second, u)
    BY <2>3, Zenon DEF OnefsTimestamp
  <2> HIDE DEF u
  <2>7. u \div MicrosPerSecond = 0 /\ u % MicrosPerSecond = u
    BY <2>5
  <2>8. Unix(p.second, u) = Time(p.second, u)
    BY <2>2, <2>7 DEF Unix
  <2>. QED  BY <1>1, <1>2, <1>5, <2>4, <2>6, <2>8
<1>6. CASE p.stamp \in {"none", "long"}
  <2>1. e.timeStamp = Invalid \/ e.timeStamp = MaxInt64 + 1
    <3>1. CASE p.stamp = "none"
      BY <1>4, <3>1, Zenon
    <3>2. CASE p.stamp = "long"
      BY <1>4, <3>2, Zenon
    <3>. QED  BY <1>6, <3>1, <3>2
  <2>2. ParseInt(e.timeStamp) = Invalid
    BY <2>1, SignedIsWide DEF ParseInt, Invalid
  <2>3. OnefsTimestamp(e.timeStamp, p.low, ReceiveTime) = ReceiveTime
    BY <2>2 DEF OnefsTimestamp
  <2>. QED  BY <1>1, <1>2, <1>6, <2>3
<1>. QED  BY <1>3, <1>5, <1>6

(* The time of a record is the second of its event, for every stamp that fits, in
   whichever form (ceeTimestamp, onefsTimestamp, parseTimestamp). *)
THEOREM RecordsHaveTheirTime == Spec => []RecordTimeIsEventTime
<1>1. ASSUME NEW p, IsPublication(p), p.from \in {"cee", "onefs", "vcaps"}
      PROVE  Map(Meant(p)).TimeCreated
               = IF p.stamp \in {"seconds", "packed"} \cup tsFormats
                   THEN Time(p.second, Micros(p)) ELSE ReceiveTime
  <2>1. Map(Meant(p)).TimeCreated = Meant(p).Timestamp
    BY DEF Map
  <2>2. CASE p.from = "cee"
    <3>1. Meant(p).Timestamp = CeeTimestamp(StampCEE(p), ReceiveTime)
      BY <2>2 DEF Meant, ConvertCheckEvent, CeeEvent
    <3>2. Micros(p) = 0
      BY <2>2 DEF Micros
    <3>3. p.stamp \in {"seconds", "packed", "zero", "none", "long"}
      BY <2>2, <1>1 DEF IsPublication
    <3>. QED  BY <1>1, <2>1, <2>2, <3>1, <3>2, <3>3, CeeStampIsRead DEF tsFormats
  <2>3. CASE p.from = "onefs"
    <3>1. p.stamp \in {"seconds", "none", "long"}
      BY <2>3, <1>1 DEF IsPublication
    <3>. QED  BY <1>1, <2>1, <2>3, <3>1, OneFSStampIsRead DEF tsFormats
  <2>4. CASE p.from = "vcaps"
    <3>1. p.stamp \in tsFormats \cup {"none"}
      BY <2>4, <1>1 DEF IsPublication
    <3>2. Micros(p) = 0
      BY <2>4 DEF Micros
    <3>3. Meant(p).Timestamp = IF p.stamp \in tsFormats THEN Time(p.second, 0) ELSE ReceiveTime
      BY <2>4 DEF Meant, Convert, VcapsEvent, ParseTimestamp
    <3>. QED  BY <2>1, <3>1, <3>2, <3>3 DEF tsFormats
  <2>. QED  BY <1>1, <2>2, <2>3, <2>4
<1>2. EventsInv => RecordTimeIsEventTime
  <2> SUFFICES ASSUME EventsInv, NEW i \in DOMAIN records
               PROVE  records[i].TimeCreated =
                        IF Sent(i).stamp \in {"seconds", "packed"} \cup tsFormats
                          THEN Time(Sent(i).second, Micros(Sent(i))) ELSE ReceiveTime
    BY DEF RecordTimeIsEventTime
  <2> DEFINE p == Sent(i)
  <2>1. records[i] = Map(Meant(p)) /\ IsPublication(p) /\ p.from \in {"cee", "onefs", "vcaps"}
    BY RecordsAreMeant
  <2> HIDE DEF p
  <2>2. records[i].TimeCreated = IF p.stamp \in {"seconds", "packed"} \cup tsFormats
                                   THEN Time(p.second, Micros(p)) ELSE ReceiveTime
    BY <1>1, <2>1
  <2>. QED  BY <2>2 DEF p
<1>. QED  BY <1>2, EventsInductive, PTL

----------------------------------------------------------------------------
(* Objects and actors of events                                            *)

(* A name in base64 is its text, unless it is damaged or missing. *)
LEMMA EncodedName ==
  ASSUME NEW t, Guessable(t), NEW good
  PROVE  /\ good /\ t # <<>> => DecodeBase64UTF16(Base64(t, good)) = Decoded(UTF8(t))
         /\ DecodeBase64UTF16(Base64(t, good)).ok
              => t # <<>> /\ DecodeBase64UTF16(Base64(t, good)).bytes = UTF8(t)
         /\ ~good \/ t = <<>> => DecodeBase64UTF16(Base64(t, good)) = DecodeError
<1> DEFINE name == Base64(t, good)
<1>1. name.set = (t # <<>>) /\ name.raw = EncodeUTF16LE(t)
  BY Zenon DEF Base64
<1>2. name.good = good
  BY Zenon DEF Base64
<1>3. DecodeBody(name.raw) = Decoded(UTF8(t))
  BY <1>1, NameIsRead
<1>4. Decoded(UTF8(t)).bytes = UTF8(t) /\ ~DecodeError.ok
  BY DEF Decoded, DecodeError
<1> HIDE DEF name
<1>5. /\ good /\ t # <<>> => DecodeBase64UTF16(name) = Decoded(UTF8(t))
      /\ ~good \/ t = <<>> => DecodeBase64UTF16(name) = DecodeError
  BY <1>1, <1>2, <1>3, Zenon DEF DecodeBase64UTF16
<1>6. DecodeBase64UTF16(name).ok => good /\ t # <<>>
  BY <1>4, <1>5, Zenon
<1>. QED  BY <1>4, <1>5, <1>6, Zenon DEF name

(* A text that is not empty is not empty in UTF-8. *)
LEMMA UTF8NotEmpty ==
  ASSUME NEW t, IsText(t), t # <<>>
  PROVE  UTF8(t) # <<>>
<1>1. Len(t) \in Nat /\ Len(t) # 0 /\ SubSeq(t, 1, 0) = <<>> /\ SubSeq(t, 1, Len(t)) = t
  BY TextParts
<1>2. IsGrowth(Bytes(t), Len(t))
  BY UTF8Grows
<1>3. 0 \in 0..Len(t) /\ Len(t) \in 0..Len(t) /\ 0 <= Len(t)
  BY <1>1
<1>4. Len(Bytes(t)[0]) + (Len(t) - 0) <= Len(Bytes(t)[Len(t)])
  BY <1>1, <1>2, <1>3, Grows
<1>5. Bytes(t)[0] = UTF8(SubSeq(t, 1, 0)) /\ Bytes(t)[Len(t)] = UTF8(SubSeq(t, 1, Len(t)))
  BY <1>3 DEF Bytes
<1>6. Bytes(t)[0] = <<>> /\ Bytes(t)[Len(t)] = UTF8(t)
  BY <1>1, <1>5, UTF8Empty, Zenon
<1>7. Len(UTF8(t)) # 0
  <2>1. Len(<<>>) = 0
    OBVIOUS
  <2>2. UTF8(t) \in Seq(Octet)
    BY <1>1, <1>3, UTF8Grows
  <2>. QED  BY <1>1, <1>4, <1>6, <2>1, <2>2
<1>8. Len(<<>>) = 0
  OBVIOUS
<1>. QED  BY <1>7, <1>8, Zenon

(* Dell CEE: the encoded path serves where there is one that can be read. *)
LEMMA CeePath ==
  ASSUME NEW p, IsPublication(p), p.from = "cee"
  PROVE  Meant(p).FilePath = UTF8(IF Undecoded(p) THEN Lossy ELSE p.path)
<1> DEFINE e == CeeEvent(p)
<1>1. Meant(p).FilePath = CeeEventPath(e)
  BY Zenon DEF Meant, ConvertCheckEvent
<1>2. /\ e.path = UTF8(IF Plain(p.path) THEN p.path ELSE Lossy)
      /\ e.encodedPath = IF Plain(p.path) THEN NoName ELSE Base64(p.path, p.good)
      /\ e.encodingType = p.scheme
  BY Zenon DEF CeeEvent
<1>3. /\ Guessable(p.path) /\ p.good \in BOOLEAN
      /\ p.scheme \in {"", "base64", "base64utf16", "utf16", "rot13"}
  BY DEF IsPublication
<1> HIDE DEF e
<1>4. CASE Plain(p.path)
  <2>1. ~e.encodedPath.set
    BY <1>2, <1>4 DEF NoName
  <2>2. CeeEventPath(e) = e.path
    BY <2>1, Zenon DEF CeeEventPath
  <2>. QED  BY <1>1, <1>2, <1>4, <2>2, Zenon DEF Undecoded
<1>5. CASE ~Plain(p.path)
  <2>1. e.encodedPath = Base64(p.path, p.good) /\ e.path = UTF8(Lossy)
    BY <1>2, <1>5, Zenon
  <2>2. p.path # <<>> /\ e.encodedPath.set
    <3>1. DOMAIN <<>> = {}
      OBVIOUS
    <3>2. DOMAIN p.path # {}
      BY <1>5 DEF Plain
    <3>3. p.path # <<>>
      BY <3>1, <3>2, Zenon
    <3> DEFINE set == p.path # <<>>
    <3> HIDE DEF set
    <3>4. Base64(p.path, p.good).set = set
      BY DEF Base64, set
    <3>. QED  BY <2>1, <3>3, <3>4, Zenon DEF set
  <2>3. CASE p.scheme = "rot13" \/ ~p.good
    <3>1. DecodeCEEEncoded(e.encodedPath, e.encodingType) = DecodeError
      <4>1. CASE p.scheme = "rot13"
        BY <1>2, <4>1 DEF DecodeCEEEncoded
      <4>2. CASE ~p.good
        <5>0. DecodeBase64UTF16(Base64(p.path, p.good)) = DecodeError
          BY <1>3, <4>2, EncodedName
        <5>1. DecodeBase64UTF16(e.encodedPath) = DecodeError
          BY <2>1, <5>0, Zenon
        <5>. QED  BY <5>1, Zenon DEF DecodeCEEEncoded
      <4>. QED  BY <2>3, <4>1, <4>2
    <3>2. ~DecodeError.ok
      BY DEF DecodeError
    <3>3. CeeEventPath(e) = e.path
      BY <3>1, <3>2, Zenon DEF CeeEventPath
    <3>4. Undecoded(p)
      BY <1>5, <2>3 DEF Undecoded
    <3>. QED  BY <1>1, <2>1, <3>3, <3>4, Zenon
  <2>4. CASE p.scheme # "rot13" /\ p.good
    <3>1. DecodeBase64UTF16(e.encodedPath) = Decoded(UTF8(p.path))
      BY <1>3, <2>1, <2>2, <2>4, EncodedName, Zenon
    <3>2. DecodeCEEEncoded(e.encodedPath, e.encodingType) = Decoded(UTF8(p.path))
      BY <1>2, <1>3, <2>4, <3>1 DEF DecodeCEEEncoded
    <3>3. Decoded(UTF8(p.path)).ok /\ Decoded(UTF8(p.path)).bytes = UTF8(p.path)
      BY DEF Decoded
    <3>4. UTF8(p.path) # <<>>
      BY <1>3, <2>2, UTF8NotEmpty DEF Guessable
    <3>5. CeeEventPath(e) = UTF8(p.path)
      BY <2>2, <3>2, <3>3, <3>4, Zenon DEF CeeEventPath
    <3>6. ~Undecoded(p)
      BY <2>4 DEF Undecoded
    <3>. QED  BY <1>1, <3>5, <3>6, Zenon
  <2>. QED  BY <2>3, <2>4
<1>. QED  BY <1>4, <1>5

(* The least and the greatest of a set of positions. *)
LEMMA EndsOf ==
  ASSUME NEW L \in Nat, NEW S \in SUBSET (1..L), S # {}
  PROVE  /\ Min(S) \in S /\ \A i \in S : Min(S) <= i
         /\ Max(S) \in S /\ \A i \in S : Max(S) >= i
<1>1. \E x \in S : \A y \in S : x <= y
  <2>1. S \in SUBSET Nat
    OBVIOUS
  <2>. QED  BY <2>1, LeastNumber
<1>2. \E x \in S : \A y \in S : x >= y
  <2> DEFINE U == {n \in Nat : \A y \in S : y <= n}
  <2>1. L \in U /\ U \in SUBSET Nat
    OBVIOUS
  <2>2. PICK x \in U : \A z \in U : x <= z
    BY <2>1, LeastNumber
  <2>3. x \in Nat /\ \A y \in S : y \in Nat /\ y <= x
    OBVIOUS
  <2>4. x \in S
    <3> SUFFICES ASSUME x \notin S PROVE FALSE
      OBVIOUS
    <3>1. \A y \in S : y \in Nat /\ y # 0 /\ y <= x - 1
      BY <2>3
    <3>2. x - 1 \in Nat
      <4>1. PICK y : y \in S
        BY Zenon
      <4>. QED  BY <2>3, <3>1, <4>1
    <3>3. x - 1 \in U
      BY <3>1, <3>2
    <3>. QED  BY <2>2, <2>3, <3>3
  <2>5. \A y \in S : x >= y
    BY <2>3
  <2>. QED  BY <2>4, <2>5
<1>. QED  BY <1>1, <1>2, Zenon DEF Min, Max

(* Only what is white, and only at the ends, is trimmed. *)
LEMMA TrimKeeps ==
  ASSUME NEW s \in Seq(Nat), NEW white
  PROVE  \E m \in 1..(Len(s) + 1), n \in 0..Len(s) :
           /\ Trim(s, white) = SubSeq(s, m, n)
           /\ \A i \in 1..(m - 1) : s[i] \in white
           /\ \A i \in (n + 1)..Len(s) : s[i] \in white
           /\ m <= n => s[m] \notin white /\ s[n] \notin white
<1> DEFINE solid == {i \in DOMAIN s : s[i] \notin white}
<1>1. Len(s) \in Nat /\ DOMAIN s = 1..Len(s)
  OBVIOUS
<1>2. Trim(s, white) = IF solid = {} THEN <<>> ELSE SubSeq(s, Min(solid), Max(solid))
  BY Zenon DEF Trim
<1>3. \A i \in 1..Len(s) : i \notin solid => s[i] \in white
  BY <1>1
<1>4. \A i \in solid : i \in 1..Len(s) /\ s[i] \notin white
  BY <1>1
<1>5. solid \in SUBSET (1..Len(s))
  BY <1>4
<1> HIDE DEF solid
<1>6. CASE solid = {}
  <2>1. Trim(s, white) = SubSeq(s, 1, 0)
    <3>1. SubSeq(s, 1, 0) = <<>>
      OBVIOUS
    <3>. QED  BY <1>2, <1>6, <3>1, Zenon
  <2>2. 1 \in 1..(Len(s) + 1) /\ 0 \in 0..Len(s) /\ ~(1 <= 0)
    BY <1>1
  <2>3. \A i \in 1..(1 - 1) : s[i] \in white
    OBVIOUS
  <2>4. \A i \in (0 + 1)..Len(s) : s[i] \in white
    BY <1>1, <1>3, <1>6
  <2>. QED  BY <2>1, <2>2, <2>3, <2>4
<1>7. CASE solid # {}
  <2> DEFINE m == Min(solid)
             n == Max(solid)
  <2>1. m \in solid /\ n \in solid /\ \A i \in solid : m <= i /\ n >= i
    BY <1>1, <1>5, <1>7, EndsOf
  <2>2. Trim(s, white) = SubSeq(s, m, n)
    BY <1>2, <1>7, Zenon
  <2> HIDE DEF m, n
  <2>3. m \in 1..Len(s) /\ n \in 1..Len(s) /\ s[m] \notin white /\ s[n] \notin white
    BY <1>4, <2>1
  <2>4. m \in 1..(Len(s) + 1) /\ n \in 0..Len(s)
    BY <1>1, <2>3
  <2>5. \A i \in 1..(m - 1) : s[i] \in white
    <3>1. \A i \in 1..(m - 1) : i \in 1..Len(s) /\ ~(m <= i)
      BY <1>1, <2>3
    <3>. QED  BY <1>3, <2>1, <3>1
  <2>6. \A i \in (n + 1)..Len(s) : s[i] \in white
    <3>1. \A i \in (n + 1)..Len(s) : i \in 1..Len(s) /\ ~(n >= i)
      BY <1>1, <2>3
    <3>. QED  BY <1>3, <2>1, <3>1
  <2>. QED  BY <2>2, <2>3, <2>4, <2>5, <2>6
<1>. QED  BY <1>6, <1>7

(* Dell CEE: the server without the white space at its ends. *)
LEMMA CeeServer ==
  ASSUME NEW p, IsPublication(p), p.from = "cee"
  PROVE  IsTrimmed(Meant(p).Server, p.server)
<1> DEFINE s == p.server
<1>1. Meant(p).Server = UTF8(Trim(s, White))
  <2>1. Meant(p).Server = UTF8(Trim(CeeEvent(p).server, White))
    BY DEF Meant, ConvertCheckEvent
  <2>2. CeeEvent(p).server = s
    BY Zenon DEF CeeEvent
  <2>. QED  BY <2>1, <2>2, Zenon
<1>2. s \in Seq(Nat)
  <2>1. IsText(s)
    BY DEF IsPublication
  <2>. QED  BY <2>1, SMT DEF IsText
<1> HIDE DEF s
<1>3. PICK m \in 1..(Len(s) + 1), n \in 0..Len(s) :
        /\ Trim(s, White) = SubSeq(s, m, n)
        /\ \A i \in 1..(m - 1) : s[i] \in White
        /\ \A i \in (n + 1)..Len(s) : s[i] \in White
        /\ m <= n => s[m] \notin White /\ s[n] \notin White
  BY <1>2, TrimKeeps
<1>4. Meant(p).Server = UTF8(SubSeq(s, m, n))
  BY <1>1, <1>3, Zenon DEF s
<1>. QED  BY <1>3, <1>4, Zenon DEF IsTrimmed, s

(* What the parsers make of the names and the actor of a publication. *)
LEMMA NamesOfOne ==
  ASSUME NEW p, IsPublication(p), p.from \in {"cee", "onefs", "vcaps"}, Readable(p)
  PROVE  /\ Meant(p).FilePath = UTF8(IF Undecoded(p) THEN Lossy ELSE p.path)
         /\ Meant(p).UserSID = Actor(p)
         /\ ServerIsSent(p, Meant(p).Server)
         /\ p.from = "onefs" => Meant(p).FilePath # <<>>
<1>1. Guessable(p.path)
  BY DEF IsPublication
<1>2. CASE p.from = "cee"
  <2>1. Meant(p).UserSID = CeeUserSID(CeeEvent(p))
    BY <1>2 DEF Meant, ConvertCheckEvent
  <2>2. CeeEvent(p).userSid = p.sid /\ CeeEvent(p).userId = p.uid
    BY Zenon DEF CeeEvent
  <2>3. CeeUserSID(CeeEvent(p)) = Actor(p)
    BY <2>2, Zenon DEF CeeUserSID, Actor
  <2>4. Meant(p).FilePath = UTF8(IF Undecoded(p) THEN Lossy ELSE p.path)
    BY <1>2, CeePath
  <2>5. ServerIsSent(p, Meant(p).Server)
    BY <1>2, CeeServer DEF ServerIsSent
  <2>. QED  BY <1>2, <2>1, <2>3, <2>4, <2>5
<1>3. CASE p.from = "onefs"
  <2> DEFINE e == OneFSEvent(p)
             name == DecodeBase64UTF16(e.name)
             server == DecodeBase64UTF16(e.serverName)
  <2>0. Meant(p) = ConvertOneFS(e, ReceiveTime)
    BY <1>3 DEF Meant
  <2>1. /\ Meant(p).UserSID = e.userSid /\ Meant(p).FilePath = name.bytes
        /\ Meant(p).Server = IF server.ok THEN server.bytes ELSE <<>>
    BY <2>0 DEF ConvertOneFS
  <2>2. /\ e.name = Base64(p.path, p.good) /\ e.userSid = p.sid
        /\ e.serverName = Base64(p.server, TRUE)
    BY Zenon DEF OneFSEvent
  <2>3. name.ok
    BY <1>3 DEF Readable
  <2>4. name.bytes = UTF8(p.path) /\ p.path # <<>>
    <3>1. DecodeBase64UTF16(Base64(p.path, p.good)).ok
      BY <2>2, <2>3, Zenon
    <3>2. DecodeBase64UTF16(Base64(p.path, p.good)).bytes = UTF8(p.path) /\ p.path # <<>>
      BY <1>1, <3>1, EncodedName
    <3>. QED  BY <2>2, <3>2, Zenon
  <2> HIDE DEF e
  <2> DEFINE yes == TRUE
  <2> HIDE DEF yes
  <2>5. server = DecodeBase64UTF16(Base64(p.server, yes))
    BY <2>2, Zenon DEF yes
  <2>6. Guessable(p.server) /\ yes
    BY <1>3 DEF IsPublication, yes
  <2>7. Meant(p).Server = UTF8(p.server)
    <3>1. CASE p.server # <<>>
      <4>1. server = Decoded(UTF8(p.server))
        BY <2>5, <2>6, <3>1, EncodedName
      <4>2. Decoded(UTF8(p.server)).ok /\ Decoded(UTF8(p.server)).bytes = UTF8(p.server)
        BY DEF Decoded
      <4>. QED  BY <2>1, <4>1, <4>2, Zenon
    <3>2. CASE p.server = <<>>
      <4>1. server = DecodeError
        BY <2>5, <2>6, <3>2, EncodedName
      <4>2. ~DecodeError.ok
        BY DEF DecodeError
      <4>. QED  BY <2>1, <3>2, <4>1, <4>2, UTF8Empty, Zenon
    <3>. QED  BY <3>1, <3>2
  <2>8. Actor(p) = p.sid
    <3>1. p.uid = <<>>
      BY <1>3 DEF IsPublication
    <3>. QED  BY <3>1, Zenon DEF Actor
  <2>9. ~Undecoded(p)
    BY <1>3 DEF Undecoded
  <2>10. UTF8(p.path) # <<>>
    BY <1>1, <2>4, UTF8NotEmpty DEF Guessable
  <2>11. ServerIsSent(p, Meant(p).Server)
    BY <1>3, <2>7 DEF ServerIsSent
  <2>. QED  BY <2>1, <2>2, <2>4, <2>8, <2>9, <2>10, <2>11, Zenon
<1>4. CASE p.from = "vcaps"
  <2>1. Meant(p).UserSID = p.sid /\ Meant(p).FilePath = UTF8(p.path) /\ Meant(p).Server = <<>>
    BY <1>4 DEF Meant, Convert, VcapsEvent
  <2>2. Actor(p) = p.sid
    <3>1. p.uid = <<>>
      BY <1>4 DEF IsPublication
    <3>. QED  BY <3>1, Zenon DEF Actor
  <2>3. ~Undecoded(p)
    BY <1>4 DEF Undecoded
  <2>4. ServerIsSent(p, Meant(p).Server)
    BY <1>4, <2>1 DEF ServerIsSent
  <2>5. p.from # "onefs"
    BY <1>4
  <2>. QED  BY <2>1, <2>2, <2>3, <2>4, <2>5, Zenon
<1>. QED  BY <1>2, <1>3, <1>4

(* Every event of a payload that parsed has its record, in its place, with its own
   object, actor and server (ceeEventPath, ceeUserSID, decodeBase64UTF16, TrimSpace). *)
THEOREM RecordsHaveTheirNames == Spec => []RecordsNameObjectAndActor
<1>1. EventsInv => RecordsNameObjectAndActor
  <2> SUFFICES ASSUME EventsInv, pc = "done", parsed.ok
               PROVE  /\ Len(records) = Len(doc.events)
                      /\ \A i \in DOMAIN records :
                           /\ records[i].ObjectName = UTF8(IF Undecoded(Sent(i)) THEN Lossy ELSE Sent(i).path)
                           /\ records[i].SubjectUserSID = Actor(Sent(i))
                           /\ ServerIsSent(Sent(i), parsed.events[i].Server)
                           /\ Sent(i).from = "onefs" => records[i].ObjectName # <<>>
    BY DEF RecordsNameObjectAndActor
  <2>1. /\ records = [i \in DOMAIN parsed.events |-> Map(parsed.events[i])]
        /\ parsed.events = [i \in DOMAIN doc.events |-> Meant(doc.events[i])]
        /\ doc \in Documents
    BY DEF EventsInv
  <2>2. Len(doc.events) \in Nat /\ DOMAIN doc.events = 1..Len(doc.events)
    BY <2>1, EventsOfDocument
  <2>3. Len(records) = Len(doc.events)
    <3>1. DOMAIN parsed.events = 1..Len(doc.events)
      BY <2>1, <2>2
    <3>. QED  BY <2>1, <2>2, <3>1
  <2>4. ASSUME NEW i \in DOMAIN records
        PROVE  /\ records[i].ObjectName = UTF8(IF Undecoded(Sent(i)) THEN Lossy ELSE Sent(i).path)
               /\ records[i].SubjectUserSID = Actor(Sent(i))
               /\ ServerIsSent(Sent(i), parsed.events[i].Server)
               /\ Sent(i).from = "onefs" => records[i].ObjectName # <<>>
    <3> DEFINE p == Sent(i)
    <3>1. /\ records[i] = Map(Meant(p)) /\ IsPublication(p) /\ Readable(p)
          /\ p.from \in {"cee", "onefs", "vcaps"} /\ i \in DOMAIN doc.events
      BY RecordsAreMeant
    <3>2. parsed.events[i] = Meant(p)
      BY <2>1, <3>1 DEF Sent
    <3> HIDE DEF p
    <3>3. Map(Meant(p)).ObjectName = Meant(p).FilePath /\ Map(Meant(p)).SubjectUserSID = Meant(p).UserSID
      BY DEF Map
    <3>4. /\ Meant(p).FilePath = UTF8(IF Undecoded(p) THEN Lossy ELSE p.path)
          /\ Meant(p).UserSID = Actor(p)
          /\ ServerIsSent(p, Meant(p).Server)
          /\ p.from = "onefs" => Meant(p).FilePath # <<>>
      BY <3>1, NamesOfOne
    <3>. QED  BY <3>1, <3>2, <3>3, <3>4, Zenon DEF p
  <2>. QED  BY <2>3, <2>4, Zenon
<1>. QED  BY <1>1, EventsInductive, PTL

----------------------------------------------------------------------------
(* Payloads cut anywhere                                                   *)


----------------------------------------------------------------------------
(* Payloads cut anywhere                                                   *)

(* What a concatenation is. *)
LEMMA ConcatFacts ==
  ASSUME NEW S, NEW a \in Seq(S), NEW b \in Seq(S)
  PROVE  /\ a \o b \in Seq(S) /\ Len(a \o b) = Len(a) + Len(b)
         /\ Len(a) \in Nat /\ Len(b) \in Nat
         /\ \A i \in 1..Len(a) : (a \o b)[i] = a[i]
         /\ \A i \in 1..Len(b) : (a \o b)[Len(a) + i] = b[i]
OBVIOUS

(* A character of two units. *)
Wide(c) == c > 65535

(* Units that end within the next character have its first half. *)
LEMMA HalfPair ==
  ASSUME NEW w \in Seq(CodeUnit), Closed(w), NEW c \in Scalar,
         NEW v \in Seq(CodeUnit), Len(w) < Len(v), Len(v) < Len(w \o UnitsOf(c)),
         \A i \in 1..Len(v) : v[i] = (w \o UnitsOf(c))[i]
  PROVE  /\ Wide(c) /\ Len(v) = Len(w \o UnitsOf(c)) - 1
         /\ Runes(v) = Append(Runes(w), Replacement)
<1>0. c \in Nat
  BY SMT DEF Scalar
<1>1. c < 65536 \/ (c >= 65536 /\ c > 65535)
  BY <1>0
<1> DEFINE x == UnitsOf(c)
           z == w \o x
<1>2. x \in Seq(CodeUnit) /\ (c < 65536 => Len(x) = 1)
      /\ (c >= 65536 => Len(x) = 2 /\ x[1] \in CodeUnit /\ High(x[1]))
  <2>1. CASE c < 65536
    <3>1. x = <<c>> /\ c \in CodeUnit
      BY <2>1, UnitsOfScalar
    <3>2. ~(c >= 65536)
      BY <1>0, <2>1
    <3> HIDE DEF x
    <3>. QED  BY <2>1, <3>1, <3>2
  <2>2. CASE c >= 65536
    <3>1. PICK h, l \in CodeUnit : x = <<h, l>> /\ High(h)
      BY <2>2, UnitsOfScalar
    <3> HIDE DEF x
    <3>2. x \in Seq(CodeUnit) /\ Len(x) = 2 /\ x[1] = h
      BY <3>1
    <3>3. ~(c < 65536)
      BY <1>0, <2>2
    <3>. QED  BY <3>1, <3>2, <3>3
  <2>. QED  BY <1>1, <2>1, <2>2
<1> HIDE DEF x
<1>3. /\ Len(z) = Len(w) + Len(x) /\ Len(w) \in Nat /\ Len(x) \in Nat
      /\ \A i \in 1..Len(w) : z[i] = w[i]
      /\ \A i \in 1..Len(x) : z[Len(w) + i] = x[i]
  BY <1>2
<1>4. Len(w) < Len(v) /\ Len(v) < Len(z) /\ Len(v) \in Nat /\ \A i \in 1..Len(v) : v[i] = z[i]
  BY DEF x
<1> HIDE DEF z
<1>5. Len(x) # 1
  BY <1>3, <1>4
<1>6. c > 65535 /\ Len(x) = 2 /\ x[1] \in CodeUnit /\ High(x[1])
  BY <1>1, <1>2, <1>5
<1>7. Len(v) = Len(w) + 1 /\ Len(v) = Len(z) - 1
  BY <1>3, <1>4, <1>6
<1> DEFINE h == x[1]
<1>8. v[Len(w) + 1] = h /\ \A i \in 1..Len(w) : v[i] = w[i]
  <2>1. 1 \in 1..Len(x) /\ Len(w) + 1 \in 1..Len(v) /\ \A i \in 1..Len(w) : i \in 1..Len(v)
    BY <1>3, <1>6, <1>7
  <2>. QED  BY <1>3, <1>4, <2>1
<1>9. h \in CodeUnit /\ High(h)
  BY <1>6
<1> HIDE DEF h
<1>10. v = Append(w, h)
  BY <1>3, <1>7, <1>8, <1>9
<1>11. Runes(Append(w, h)) = Append(Runes(w), Replacement)
  BY <1>9, RunesAppendOne
<1>12. z = w \o UnitsOf(c)
  BY DEF z, x
<1>13. Len(v) = Len(w \o UnitsOf(c)) - 1
  BY <1>7, <1>12
<1>. QED  BY <1>6, <1>10, <1>11, <1>13 DEF Wide

(* The first k units of a text are those of its first m characters, or these and
   the first half of the next: the half is read as the replacement character. *)
LEMMA CutUnits ==
  ASSUME NEW t, IsText(t), NEW k \in 0..Len(Units(t))
  PROVE  \E m \in 0..Len(t) :
           \/ /\ SubSeq(Units(t), 1, k) = Units(SubSeq(t, 1, m))
              /\ Runes(SubSeq(Units(t), 1, k)) = SubSeq(t, 1, m)
           \/ /\ m >= 1 /\ Wide(t[m]) /\ k = Len(Units(SubSeq(t, 1, m))) - 1
              /\ Runes(SubSeq(Units(t), 1, k)) = Append(SubSeq(t, 1, m - 1), Replacement)
<1> DEFINE P(m) == SubSeq(t, 1, m)
           g == UnitCounts(t)
           u == Units(t)
<1>1. /\ t \in Seq(Scalar) /\ Len(t) \in Nat /\ SubSeq(t, 1, Len(t)) = t
      /\ \A i \in 1..Len(t) : t[i] \in Scalar
  BY TextParts
<1>2. /\ IsGrowth(g, Len(t)) /\ \A m \in 0..Len(t) : Units(P(m)) \in Seq(CodeUnit)
      /\ \A m \in 0..(Len(t) - 1) : Units(P(m + 1)) = Units(P(m)) \o UnitsOf(t[m + 1])
  BY UnitsGrow
<1>3. \A m \in 0..Len(t) : g[m] = Units(P(m))
  BY DEF UnitCounts
<1>4. Len(t) \in 0..Len(t) /\ g[Len(t)] = u
  <2>1. Len(t) \in 0..Len(t)
    BY <1>1
  <2>2. g[Len(t)] = Units(P(Len(t)))
    BY <1>3, <2>1
  <2>. QED  BY <1>1, <2>1, <2>2, Zenon
<1>5. \A m \in 0..Len(t) : \A i \in 1..Len(Units(P(m))) : u[i] = Units(P(m))[i]
  <2> SUFFICES ASSUME NEW m \in 0..Len(t)
               PROVE  \A i \in 1..Len(Units(P(m))) : u[i] = Units(P(m))[i]
    OBVIOUS
  <2>1. m <= Len(t)
    BY <1>1
  <2>2. \A i \in 1..Len(g[m]) : g[Len(t)][i] = g[m][i]
    BY <1>1, <1>2, <1>4, <2>1, Grows
  <2>. QED  BY <1>3, <1>4, <2>2
<1>6. u \in Seq(CodeUnit) /\ Len(u) \in Nat
  BY <1>1, LittleEndian
<1>7. \A m \in 0..Len(t) : Runes(Units(P(m))) = P(m) /\ Closed(Units(P(m)))
  BY RunesOfUnits
<1> DEFINE v == SubSeq(u, 1, k)
<1>8. v \in Seq(CodeUnit) /\ Len(v) = k /\ k \in Nat /\ \A i \in 1..k : v[i] = u[i]
  BY <1>6, PrefixFacts
<1>9. \E m \in 0..Len(t) : \/ k = Len(g[m])
                           \/ m >= 1 /\ Len(g[m - 1]) < k /\ k < Len(g[m])
  BY <1>1, <1>2, <1>4, Covered
<1>10. ASSUME NEW m \in 0..Len(t), k = Len(g[m])
       PROVE  v = Units(P(m)) /\ Runes(v) = P(m)
  <2> DEFINE w == Units(P(m))
  <2>1. w \in Seq(CodeUnit) /\ Len(w) = k /\ \A i \in 1..k : w[i] = u[i]
    BY <1>2, <1>3, <1>5, <1>10
  <2> HIDE DEF v, w
  <2>2. v = w
    BY <1>8, <2>1
  <2>. QED  BY <1>7, <2>2 DEF w
<1>11. ASSUME NEW m \in 0..Len(t), m >= 1, Len(g[m - 1]) < k, k < Len(g[m])
       PROVE  /\ Wide(t[m]) /\ k = Len(Units(P(m))) - 1
              /\ Runes(v) = Append(P(m - 1), Replacement)
  <2> DEFINE w == Units(P(m - 1))
             c == t[m]
  <2>1. /\ m - 1 \in 0..(Len(t) - 1) /\ m - 1 \in 0..Len(t) /\ (m - 1) + 1 = m /\ m \in 1..Len(t)
    BY <1>1, <1>11
  <2>2. w \in Seq(CodeUnit) /\ Units(P(m)) = w \o UnitsOf(c) /\ c \in Scalar
    BY <1>1, <1>2, <2>1
  <2>3. Len(w) < k /\ k < Len(Units(P(m))) /\ Len(w) \in Nat
    BY <1>3, <1>11, <2>1, <2>2
  <2> DEFINE z == Units(P(m))
  <2>4. \A i \in 1..Len(v) : v[i] = z[i]
    <3>1. \A i \in 1..Len(z) : u[i] = z[i]
      BY <1>5
    <3>2. \A i \in 1..Len(v) : i \in 1..Len(z) /\ i \in 1..k
      BY <1>2, <1>8, <2>3
    <3>. QED  BY <1>8, <3>1, <3>2
  <2>5. Runes(w) = P(m - 1) /\ Closed(w)
    BY <1>7, <2>1
  <2>6. v \in Seq(CodeUnit) /\ Len(w) < Len(v) /\ Len(v) < Len(z) /\ z = w \o UnitsOf(c)
    BY <1>8, <2>2, <2>3
  <2>7. \A i \in 1..Len(v) : v[i] = (w \o UnitsOf(c))[i]
    BY <2>4, <2>6, Zenon
  <2>8. Len(v) < Len(w \o UnitsOf(c))
    BY <2>6, Zenon
  <2>9. /\ Wide(c) /\ Len(v) = Len(w \o UnitsOf(c)) - 1
        /\ Runes(v) = Append(Runes(w), Replacement)
    BY <2>2, <2>5, <2>6, <2>7, <2>8, HalfPair, Zenon
  <2>10. Len(z) = Len(w \o UnitsOf(c)) /\ Len(v) = k
    BY <1>8, <2>6, Zenon
  <2>11. k = Len(z) - 1
    BY <2>9, <2>10, Zenon
  <2>12. Runes(v) = Append(P(m - 1), Replacement)
    BY <2>5, <2>9, Zenon
  <2>. QED  BY <2>9, <2>11, <2>12, Zenon
<1> HIDE DEF v
<1>12. PICK m \in 0..Len(t) : \/ k = Len(g[m])
                              \/ m >= 1 /\ Len(g[m - 1]) < k /\ k < Len(g[m])
  BY <1>9
<1>13. \/ v = Units(P(m)) /\ Runes(v) = P(m)
       \/ /\ m >= 1 /\ Wide(t[m]) /\ k = Len(Units(P(m))) - 1
          /\ Runes(v) = Append(P(m - 1), Replacement)
  BY <1>10, <1>11, <1>12
<1>. QED  BY <1>13 DEF v

(* The text that a cut in UTF-16 leaves is the part that arrived, up to a pair. *)
ReadsPart(t, y, little, r) ==
  \E m \in 0..Len(t) :
    \/ Carries(y, Units(SubSeq(t, 1, m)), little) /\ r = UTF8(SubSeq(t, 1, m))
    \/ /\ m >= 1 /\ Wide(t[m]) /\ Len(y) = 2 * Len(Units(SubSeq(t, 1, m))) - 2
       /\ r = UTF8(Append(SubSeq(t, 1, m - 1), Replacement))

(* What the decoder makes of a part of the pairs, and of all of them. *)
CutReads(t, y, little) ==
  LET d == DecodeUTF16Pairs(y, little)
  IN  d.ok => ReadsPart(t, y, little, d.bytes) /\ d = Decoded(d.bytes)

AllReads(t, y, little) == DecodeUTF16Pairs(y, little) = Decoded(UTF8(t))

(* A cut in the pairs reads the part of the text before it. *)
LEMMA CutText ==
  ASSUME NEW t, IsText(t), NEW little \in BOOLEAN, NEW x, Carries(x, Units(t), little),
         NEW n \in 0..Len(x), NEW y, y = SubSeq(x, 1, n)
  PROVE  CutReads(t, y, little) /\ (n = Len(x) => AllReads(t, y, little))
<1> DEFINE u == Units(t)
           k == n \div 2
           v == SubSeq(u, 1, k)
<1>1. t \in Seq(Scalar) /\ Len(t) \in Nat /\ SubSeq(t, 1, Len(t)) = t
  BY TextParts
<1>2. u \in Seq(CodeUnit) /\ Len(u) \in Nat
  BY <1>1, LittleEndian
<1>3. x \in Seq(Nat) /\ Len(x) = 2 * Len(u)
  BY DEF Carries
<1> HIDE DEF u
<1>4. /\ n \in Nat /\ n <= 2 * Len(u) /\ y \in Seq(Nat) /\ Len(y) = n
      /\ k \in 0..Len(u) /\ (n % 2 = 0 => n = 2 * k)
  <2>1. n \in 0..Len(x)
    OBVIOUS
  <2>2. y \in Seq(Nat) /\ Len(y) = n
    BY <1>3, <2>1, PrefixFacts
  <2>. QED  BY <1>2, <1>3, <2>1, <2>2
<1>5. n % 2 # 0 => ~DecodeUTF16Pairs(y, little).ok
  BY <1>4 DEF DecodeUTF16Pairs, DecodeError
<1>6. ASSUME n % 2 = 0
      PROVE  /\ Carries(y, v, little)
             /\ DecodeUTF16Pairs(y, little) = Decoded(UTF8(Runes(v)))
  <2>1. y = SubSeq(x, 1, 2 * k)
    BY <1>4, <1>6
  <2>2. Carries(y, v, little) /\ Pairs(y, little) = v
    <3>1. Carries(x, u, little)
      BY DEF u
    <3> HIDE DEF k
    <3>. QED  BY <1>2, <1>4, <2>1, <3>1, CarriedPart
  <2>. QED  BY <1>4, <1>6, <2>2, Zenon DEF DecodeUTF16Pairs
<1> HIDE DEF k
<1>7. ASSUME n % 2 = 0 PROVE ReadsPart(t, y, little, UTF8(Runes(v)))
  <2>1. PICK m \in 0..Len(t) :
           \/ /\ v = Units(SubSeq(t, 1, m)) /\ Runes(v) = SubSeq(t, 1, m)
           \/ /\ m >= 1 /\ Wide(t[m]) /\ k = Len(Units(SubSeq(t, 1, m))) - 1
              /\ Runes(v) = Append(SubSeq(t, 1, m - 1), Replacement)
    BY <1>4, CutUnits, Zenon DEF u
  <2> HIDE DEF v
  <2>2. CASE v = Units(SubSeq(t, 1, m)) /\ Runes(v) = SubSeq(t, 1, m)
    <3>1. Carries(y, Units(SubSeq(t, 1, m)), little) /\ UTF8(Runes(v)) = UTF8(SubSeq(t, 1, m))
      BY <1>6, <1>7, <2>2, Zenon
    <3>. QED  BY <3>1, Zenon DEF ReadsPart
  <2>3. CASE /\ m >= 1 /\ Wide(t[m]) /\ k = Len(Units(SubSeq(t, 1, m))) - 1
             /\ Runes(v) = Append(SubSeq(t, 1, m - 1), Replacement)
    <3>1. Units(SubSeq(t, 1, m)) \in Seq(CodeUnit)
      BY RunesOfUnits
    <3>2. Len(y) = 2 * Len(Units(SubSeq(t, 1, m))) - 2
      BY <1>4, <1>7, <2>3, <3>1
    <3>3. UTF8(Runes(v)) = UTF8(Append(SubSeq(t, 1, m - 1), Replacement))
      BY <2>3, Zenon
    <3>. QED  BY <2>3, <3>2, <3>3, Zenon DEF ReadsPart
  <2>. QED  BY <2>1, <2>2, <2>3
<1>8. ASSUME DecodeUTF16Pairs(y, little).ok
      PROVE  /\ ReadsPart(t, y, little, DecodeUTF16Pairs(y, little).bytes)
             /\ DecodeUTF16Pairs(y, little) = Decoded(DecodeUTF16Pairs(y, little).bytes)
  <2>1. n % 2 = 0
    BY <1>5, <1>8
  <2>2. \A z : Decoded(z).bytes = z
    BY DEF Decoded
  <2>. QED  BY <1>6, <1>7, <2>1, <2>2, Zenon
<1>9. ASSUME n = Len(x) PROVE DecodeUTF16Pairs(y, little) = Decoded(UTF8(t))
  <2>1. n % 2 = 0 /\ k = Len(u)
    BY <1>2, <1>3, <1>4, <1>9 DEF k
  <2>2. v = u
    BY <1>2, <2>1, PrefixFacts
  <2>3. Len(t) \in 0..Len(t)
    BY <1>1
  <2>4. Runes(u) = t
    BY <1>1, <2>3, RunesOfUnits, Zenon DEF u
  <2>. QED  BY <1>6, <2>1, <2>2, <2>4, Zenon
<1>10. CutReads(t, y, little)
  BY <1>8, Zenon DEF CutReads
<1>11. n = Len(x) => AllReads(t, y, little)
  BY <1>9, Zenon DEF AllReads
<1>. QED  BY <1>10, <1>11

(* Bytes of UTF-8 are none of those that tell UTF-16. *)
LEMMA OctetsStay ==
  ASSUME NEW b \in Seq(Octet)
  PROVE  DecodeBody(b) = Decoded(b)
<1>1. Len(b) >= 2 => b[1] > 0 /\ b[1] < 248 /\ b[2] > 0 /\ b[1] \in Nat /\ b[2] \in Nat
  BY DEF Octet
<1>2. ~StartsWith(b, 255, 254) /\ ~StartsWith(b, 254, 255)
  BY <1>1 DEF StartsWith
<1>3. ~ZeroIsSecond(b) /\ ~ZeroIsFirst(b)
  BY <1>1 DEF ZeroIsSecond, ZeroIsFirst
<1>. QED  BY <1>2, <1>3, Zenon DEF DecodeBody

(* What a cut leaves is UTF-8, replacement character or not. *)
LEMMA PartIsUTF8 ==
  ASSUME NEW t, IsText(t), NEW y, NEW little, NEW r, ReadsPart(t, y, little, r)
  PROVE  r \in Seq(Octet)
<1>1. Replacement \in Scalar
  BY SMT DEF Replacement, Scalar
<1>2. \A m \in 0..Len(t) : SubSeq(t, 1, m) \in Seq(Scalar)
  BY TextParts
<1>3. \A s \in Seq(Scalar) : UTF8(s) \in Seq(Octet)
  BY <1>1, UTF8Append
<1>4. PICK m \in 0..Len(t) :
        \/ r = UTF8(SubSeq(t, 1, m))
        \/ m >= 1 /\ r = UTF8(Append(SubSeq(t, 1, m - 1), Replacement))
  BY Zenon DEF ReadsPart
<1>5. CASE r = UTF8(SubSeq(t, 1, m))
  BY <1>2, <1>3, <1>5
<1>6. CASE m >= 1 /\ r = UTF8(Append(SubSeq(t, 1, m - 1), Replacement))
  <2>1. Len(t) \in Nat
    BY TextParts
  <2>2. m - 1 \in 0..Len(t)
    BY <1>6, <2>1
  <2>3. SubSeq(t, 1, m - 1) \in Seq(Scalar)
    BY <1>2, <2>2
  <2> DEFINE s == SubSeq(t, 1, m - 1)
  <2> HIDE DEF s
  <2>4. Append(s, Replacement) \in Seq(Scalar)
    BY <1>1, <2>3 DEF s
  <2>. QED  BY <1>3, <1>6, <2>4 DEF s
<1>. QED  BY <1>4, <1>5, <1>6

----------------------------------------------------------------------------
(* What each encoding leaves of a payload                                  *)

(* The five ways to send a text. *)
LEMMA EncodeIs ==
  ASSUME NEW t
  PROVE  /\ Encode("utf8", t) = UTF8(t)
         /\ Encode("utf16le", t) = EncodeUTF16LE(t)
         /\ Encode("utf16leMark", t) = <<255, 254>> \o EncodeUTF16LE(t)
         /\ Encode("utf16be", t) = BigEndian(EncodeUTF16LE(t))
         /\ Encode("utf16beMark", t) = <<254, 255>> \o BigEndian(EncodeUTF16LE(t))
BY Zenon DEF Encode

(* The length of what a publisher sends. *)
LEMMA EncodeType ==
  ASSUME NEW t \in Seq(Scalar), NEW e \in Encodings
  PROVE  /\ Encode(e, t) \in Seq(Nat) /\ Len(Encode(e, t)) \in Nat /\ Len(Units(t)) \in Nat
         /\ e = "utf8" => Encode(e, t) \in Seq(Octet)
         /\ e \in {"utf16le", "utf16be"} => Len(Encode(e, t)) = 2 * Len(Units(t))
         /\ e \in {"utf16leMark", "utf16beMark"} => Len(Encode(e, t)) = 2 * Len(Units(t)) + 2
<1> DEFINE x == EncodeUTF16LE(t)
           y == BigEndian(EncodeUTF16LE(t))
           n == Len(Units(t))
<1>1. Units(t) \in Seq(CodeUnit) /\ n \in Nat
  BY LittleEndian
<1>2. Carries(x, Units(t), TRUE) /\ Carries(y, Units(t), FALSE)
  BY EncodersCarry
<1>3. x \in Seq(Nat) /\ y \in Seq(Nat) /\ Len(x) = 2 * n /\ Len(y) = 2 * n
  BY <1>2, Zenon DEF Carries
<1> HIDE DEF x, y, n
<1> DEFINE mx == <<255, 254>> \o x
           my == <<254, 255>> \o y
<1>4. /\ mx \in Seq(Nat) /\ Len(mx) = 2 * n + 2
      /\ my \in Seq(Nat) /\ Len(my) = 2 * n + 2
  BY <1>1, <1>3
<1> HIDE DEF mx, my
<1>5. 2 * n \in Nat /\ 2 * n + 2 \in Nat
  BY <1>1
<1>6. UTF8(t) \in Seq(Octet) /\ UTF8(t) \in Seq(Nat) /\ Len(UTF8(t)) \in Nat
  <2>1. 1 \in Scalar
    BY SMT DEF Scalar
  <2>2. UTF8(t) \in Seq(Octet)
    BY <2>1, UTF8Append
  <2>3. Octet \subseteq Nat
    BY DEF Octet
  <2>4. UTF8(t) \in Seq(Nat)
    BY <2>2, <2>3, SeqOfSuperset
  <2>. QED  BY <2>2, <2>4
<1>7. CASE e = "utf8"
  BY <1>1, <1>6, <1>7, EncodeIs DEF n
<1>8. CASE e = "utf16le"
  BY <1>1, <1>3, <1>5, <1>8, EncodeIs DEF n, x
<1>9. CASE e = "utf16be"
  BY <1>1, <1>3, <1>5, <1>9, EncodeIs DEF n, y
<1>10. CASE e = "utf16leMark"
  <2>1. Encode(e, t) = mx
    BY <1>10, EncodeIs, Zenon DEF mx, x
  <2>. QED  BY <1>1, <1>4, <1>5, <1>10, <2>1 DEF n
<1>11. CASE e = "utf16beMark"
  <2>1. Encode(e, t) = my
    BY <1>11, EncodeIs, Zenon DEF my, y
  <2>. QED  BY <1>1, <1>4, <1>5, <1>11, <2>1 DEF n
<1>. QED  BY <1>7, <1>8, <1>9, <1>10, <1>11 DEF Encodings

(* Two bytes and what follows them. *)
LEMMA TwoBefore ==
  ASSUME NEW S, NEW x \in Seq(S), NEW a \in S, NEW b \in S
  PROVE  /\ <<a, b>> \o x \in Seq(S) /\ Len(<<a, b>> \o x) = Len(x) + 2
         /\ (<<a, b>> \o x)[1] = a /\ (<<a, b>> \o x)[2] = b
         /\ \A i \in 1..Len(x) : (<<a, b>> \o x)[i + 2] = x[i]
<1> DEFINE m == <<a, b>>
<1>1. m \in Seq(S) /\ Len(m) = 2 /\ m[1] = a /\ m[2] = b
  OBVIOUS
<1> HIDE DEF m
<1>2. /\ m \o x \in Seq(S) /\ Len(m \o x) = Len(m) + Len(x)
      /\ Len(m) \in Nat /\ Len(x) \in Nat
      /\ \A i \in 1..Len(m) : (m \o x)[i] = m[i]
      /\ \A i \in 1..Len(x) : (m \o x)[Len(m) + i] = x[i]
  <2>1. m \in Seq(S)
    BY <1>1
  <2>. QED  BY <2>1, ConcatFacts
<1>3. (m \o x)[1] = a /\ (m \o x)[2] = b
  <2>1. 1 \in 1..Len(m) /\ 2 \in 1..Len(m)
    BY <1>1
  <2>. QED  BY <1>1, <1>2, <2>1
<1>4. \A i \in 1..Len(x) : (m \o x)[i + 2] = x[i]
  <2>1. \A i \in 1..Len(x) : Len(m) + i = i + 2
    BY <1>1
  <2>. QED  BY <1>2, <2>1
<1>5. Len(m \o x) = Len(x) + 2
  BY <1>1, <1>2
<1>. QED  BY <1>2, <1>3, <1>4, <1>5 DEF m

(* A byte order mark, and what follows it. *)
Marked(a, b, x) == <<a, b>> \o x

(* What is left when x is cut at n, with its mark. *)
IsAfterMark(S, a, b, x, n, y) ==
  /\ y \in Seq(S) /\ Len(y) = n /\ StartsWith(y, a, b) /\ n - 2 \in 0..Len(x)
  /\ SubSeq(y, 3, Len(y)) = SubSeq(x, 1, n - 2)
  /\ y = Marked(a, b, SubSeq(x, 1, n - 2))

(* After a byte order mark, the rest is cut where the whole is. *)
LEMMA CutAfterMark ==
  ASSUME NEW S, NEW x \in Seq(S), NEW a \in S, NEW b \in S,
         NEW n \in 2..(Len(x) + 2), NEW y, y = SubSeq(Marked(a, b, x), 1, n)
  PROVE  IsAfterMark(S, a, b, x, n, y)
<1> DEFINE m == <<a, b>>
           z == m \o x
           p == SubSeq(x, 1, n - 2)
<1>1. /\ z \in Seq(S) /\ Len(z) = Len(x) + 2 /\ z[1] = a /\ z[2] = b
      /\ \A i \in 1..Len(x) : z[i + 2] = x[i]
  BY TwoBefore
<1>2. Len(x) \in Nat /\ n \in Nat /\ n >= 2 /\ n <= Len(x) + 2 /\ n - 2 \in 0..Len(x)
  OBVIOUS
<1>3. p \in Seq(S) /\ Len(p) = n - 2 /\ \A i \in 1..(n - 2) : p[i] = x[i]
  BY <1>2, PrefixFacts
<1>4. y = SubSeq(z, 1, n)
  BY Zenon DEF Marked
<1> HIDE DEF m, p, z
<1>5. n \in 0..Len(z)
  BY <1>1, <1>2
<1>6. y \in Seq(S) /\ Len(y) = n /\ \A i \in 1..n : y[i] = z[i]
  <2>1. z \in Seq(S)
    BY <1>1
  <2>2. /\ SubSeq(z, 1, n) \in Seq(S) /\ Len(SubSeq(z, 1, n)) = n
        /\ \A i \in 1..n : SubSeq(z, 1, n)[i] = z[i]
    BY <1>5, <2>1, PrefixFacts
  <2>. QED  BY <1>4, <2>2
<1>7. y[1] = a /\ y[2] = b /\ \A i \in 1..(n - 2) : y[i + 2] = p[i]
  <2>1. 1 \in 1..n /\ 2 \in 1..n
    BY <1>2
  <2>2. \A i \in 1..(n - 2) : i + 2 \in 1..n /\ i \in 1..Len(x)
    BY <1>2
  <2>. QED  BY <1>1, <1>3, <1>6, <2>1, <2>2
<1>8. StartsWith(y, a, b)
  BY <1>2, <1>6, <1>7 DEF StartsWith
<1>9. SubSeq(y, 3, Len(y)) = p
  <2>1. SubSeq(y, 3, n) \in Seq(S) /\ Len(SubSeq(y, 3, n)) = n - 2
    BY <1>2, <1>6
  <2>2. \A i \in 1..(n - 2) : SubSeq(y, 3, n)[i] = p[i]
    <3> SUFFICES ASSUME NEW i \in 1..(n - 2) PROVE SubSeq(y, 3, n)[i] = p[i]
      OBVIOUS
    <3>1. SubSeq(y, 3, n)[i] = y[i + 2]
      BY <1>2, <1>6
    <3>. QED  BY <1>7, <3>1
  <2>. QED  BY <1>3, <1>6, <2>1, <2>2
<1>10. y = m \o p
  <2> DEFINE w == m \o p
  <2>1. /\ w \in Seq(S) /\ Len(w) = Len(p) + 2 /\ w[1] = a /\ w[2] = b
        /\ \A i \in 1..Len(p) : w[i + 2] = p[i]
    BY <1>3, TwoBefore DEF m
  <2> HIDE DEF w
  <2>2. \A i \in 1..n : y[i] = w[i]
    <3> SUFFICES ASSUME NEW i \in 1..n PROVE y[i] = w[i]
      OBVIOUS
    <3>1. i = 1 \/ i = 2 \/ (i - 2 \in 1..(n - 2) /\ (i - 2) + 2 = i)
      BY <1>2
    <3>2. CASE i = 1
      BY <1>7, <2>1, <3>2
    <3>3. CASE i = 2
      BY <1>7, <2>1, <3>3
    <3>4. CASE i - 2 \in 1..(n - 2) /\ (i - 2) + 2 = i
      <4> DEFINE k == i - 2
      <4>1. k \in 1..(n - 2) /\ k \in 1..Len(p) /\ k + 2 = i
        BY <1>3, <3>4
      <4> HIDE DEF k
      <4>2. y[k + 2] = p[k] /\ w[k + 2] = p[k]
        BY <1>7, <2>1, <4>1
      <4>. QED  BY <4>1, <4>2
    <3>. QED  BY <3>1, <3>2, <3>3, <3>4
  <2>3. Len(w) = n
    BY <1>2, <1>3, <2>1
  <2>. QED  BY <1>6, <2>1, <2>2, <2>3 DEF w
<1>11. y = Marked(a, b, p)
  BY <1>10, Zenon DEF Marked, m
<1>. QED  BY <1>2, <1>6, <1>8, <1>9, <1>11 DEF p, IsAfterMark

(* UTF-16 without its mark, in either order. *)
Bytes16(little, t) == IF little THEN EncodeUTF16LE(t) ELSE BigEndian(EncodeUTF16LE(t))

(* UTF-16 of either order carries the units of the text. *)
LEMMA Bytes16Carry ==
  ASSUME NEW little \in BOOLEAN, NEW t \in Seq(Scalar)
  PROVE  Carries(Bytes16(little, t), Units(t), little)
<1>1. Carries(EncodeUTF16LE(t), Units(t), TRUE) /\ Carries(BigEndian(EncodeUTF16LE(t)), Units(t), FALSE)
  BY EncodersCarry
<1>2. CASE little = TRUE
  BY <1>1, <1>2, Zenon DEF Bytes16
<1>3. CASE little = FALSE
  BY <1>1, <1>3, Zenon DEF Bytes16
<1>. QED  BY <1>2, <1>3

(* Without a mark, two bytes are enough to tell. *)
LEMMA GuessIsRight ==
  ASSUME NEW t, IsText(t), t # <<>>, t[1] < 256, NEW little \in BOOLEAN,
         NEW x, Carries(x, Units(t), little), NEW n \in 2..Len(x), NEW y, y = SubSeq(x, 1, n)
  PROVE  DecodeBody(y) = DecodeUTF16Pairs(y, little)
<1> DEFINE c == Units(t)[1]
<1>1. Len(Units(t)) >= 1 /\ Len(Units(t)) \in Nat /\ c \in Nat /\ 0 < c /\ c < 256
  BY FirstUnit
<1>2. x \in Seq(Nat)
  BY Zenon DEF Carries
<1>3. 2 * 1 - 1 = 1 /\ 2 * 1 = 2
  OBVIOUS
<1> HIDE DEF c
<1>4. x[2 * 1 - 1] = FirstByte(c, little) /\ x[2 * 1] = SecondByte(c, little)
  <2>1. 1 \in 1..Len(Units(t))
    BY <1>1
  <2>. QED  BY <2>1, Zenon DEF Carries, c
<1>5. x[1] = FirstByte(c, little) /\ x[2] = SecondByte(c, little)
  BY <1>3, <1>4, Zenon
<1>6. n \in Nat /\ n >= 2 /\ n \in 0..Len(x)
  <2>1. x \in Seq(Nat)
    BY <1>2
  <2>. QED  BY <2>1
<1>7. y \in Seq(Nat) /\ Len(y) = n /\ \A i \in 1..n : y[i] = x[i]
  <2>1. x \in Seq(Nat)
    BY <1>2
  <2>. QED  BY <1>6, <2>1, PrefixFacts
<1>8. y[1] = x[1] /\ y[2] = x[2] /\ Len(y) >= 2
  <2>1. 1 \in 1..n /\ 2 \in 1..n
    BY <1>6
  <2>. QED  BY <1>6, <1>7, <2>1
<1>9. c % 256 = c /\ c \div 256 = 0
  BY <1>1
<1>10. CASE little = TRUE
  <2>1. y[1] = c /\ y[2] = 0
    BY <1>5, <1>8, <1>9, <1>10, Zenon DEF FirstByte, SecondByte
  <2>2. ~StartsWith(y, 255, 254) /\ ~StartsWith(y, 254, 255) /\ ZeroIsSecond(y)
    BY <1>1, <1>8, <2>1 DEF StartsWith, ZeroIsSecond
  <2>. QED  BY <1>10, <2>2, Zenon DEF DecodeBody
<1>11. CASE little = FALSE
  <2>1. y[1] = 0 /\ y[2] = c
    BY <1>5, <1>8, <1>9, <1>11, Zenon DEF FirstByte, SecondByte
  <2>2. /\ ~StartsWith(y, 255, 254) /\ ~StartsWith(y, 254, 255)
        /\ ~ZeroIsSecond(y) /\ ZeroIsFirst(y)
    BY <1>1, <1>8, <2>1 DEF StartsWith, ZeroIsSecond, ZeroIsFirst
  <2>. QED  BY <1>11, <2>2, Zenon DEF DecodeBody
<1>. QED  BY <1>10, <1>11

(* What arrived of a text, in each encoding. *)
ArrivedAs(e, t, y, r) ==
  \/ \E m \in 0..Len(t) : y = Encode(e, SubSeq(t, 1, m)) /\ r = UTF8(SubSeq(t, 1, m))
  \/ r = y /\ (e = "utf8" \/ Len(y) <= 1)
  \/ /\ e # "utf8"
     /\ \E m \in 1..Len(t) : /\ Wide(t[m]) /\ Len(y) = Len(Encode(e, SubSeq(t, 1, m))) - 2
                             /\ r = UTF8(Append(SubSeq(t, 1, m - 1), Replacement))

(* Encoding e is that of the pairs z, with so many bytes before them. *)
IsFramed(e, little, extra, z, y) ==
  /\ Len(y) = Len(z) + extra
  /\ \A s \in Seq(Scalar) : /\ Len(Encode(e, s)) = 2 * Len(Units(s)) + extra
                            /\ z = Bytes16(little, s) => y = Encode(e, s)

(* The part that is read, in the bytes of its encoding. *)
LEMMA PartArrived ==
  ASSUME NEW t, IsText(t), NEW little \in BOOLEAN, NEW e \in Encodings, e # "utf8",
         NEW extra \in {0, 2},
         NEW y, NEW z, NEW r, ReadsPart(t, z, little, r), IsFramed(e, little, extra, z, y)
  PROVE  ArrivedAs(e, t, y, r)
<1>1. \A m \in 0..Len(t) : SubSeq(t, 1, m) \in Seq(Scalar)
  BY TextParts
<1>2. PICK m \in 0..Len(t) :
        \/ Carries(z, Units(SubSeq(t, 1, m)), little) /\ r = UTF8(SubSeq(t, 1, m))
        \/ /\ m >= 1 /\ Wide(t[m]) /\ Len(z) = 2 * Len(Units(SubSeq(t, 1, m))) - 2
           /\ r = UTF8(Append(SubSeq(t, 1, m - 1), Replacement))
  BY Zenon DEF ReadsPart
<1> DEFINE s == SubSeq(t, 1, m)
<1>3. s \in Seq(Scalar)
  BY <1>1
<1>4. Units(s) \in Seq(CodeUnit) /\ Len(Units(s)) \in Nat /\ Carries(Bytes16(little, s), Units(s), little)
  <2>1. Units(s) \in Seq(CodeUnit)
    BY <1>3, LittleEndian
  <2>2. Len(Units(s)) \in Nat
    BY <2>1
  <2>3. Carries(Bytes16(little, s), Units(s), little)
    BY <1>3, Bytes16Carry
  <2>. QED  BY <2>1, <2>2, <2>3
<1>5. CASE Carries(z, Units(s), little) /\ r = UTF8(s)
  <2>1. z = Bytes16(little, s)
    <3> HIDE DEF s
    <3>. QED  BY <1>4, <1>5, CarriedOnce
  <2>2. y = Encode(e, s)
    BY <1>3, <2>1 DEF IsFramed
  <2>. QED  BY <1>5, <2>2, Zenon DEF ArrivedAs
<1>6. CASE /\ m >= 1 /\ Wide(t[m]) /\ Len(z) = 2 * Len(Units(s)) - 2
           /\ r = UTF8(Append(SubSeq(t, 1, m - 1), Replacement))
  <2>1. Len(t) \in Nat
    BY TextParts
  <2>2. m \in 1..Len(t)
    BY <1>6, <2>1
  <2>3. Len(Encode(e, s)) = 2 * Len(Units(s)) + extra /\ Len(y) = Len(z) + extra
    BY <1>3, Zenon DEF IsFramed
  <2>4. Len(y) = Len(Encode(e, s)) - 2
    <3> HIDE DEF s
    <3>. QED  BY <1>4, <1>6, <2>3
  <2>. QED  BY <1>6, <2>2, <2>4, Zenon DEF ArrivedAs
<1>. QED  BY <1>2, <1>5, <1>6

(* What DecodeBody makes of the bytes that arrived of a text. *)
BodyRead(e, t, y) ==
  LET d == DecodeBody(y)
  IN  d.ok => ArrivedAs(e, t, y, d.bytes) /\ DecodeBody(d.bytes) = d

BodyWhole(t, y) == DecodeBody(y) = Decoded(UTF8(t))

(* Without a mark: half a unit is an error, and half a pair is replaced. *)
LEMMA CutUnmarked ==
  ASSUME NEW t, IsText(t), t # <<>>, t[1] < 256, NEW little \in BOOLEAN,
         NEW e \in {"utf16le", "utf16be"}, \A s : Encode(e, s) = Bytes16(little, s),
         NEW n \in 2..Len(Encode(e, t)), NEW y, y = SubSeq(Encode(e, t), 1, n)
  PROVE  BodyRead(e, t, y) /\ (n = Len(Encode(e, t)) => BodyWhole(t, y))
<1> DEFINE x == Encode(e, t)
           d == DecodeUTF16Pairs(y, little)
<1>1. t \in Seq(Scalar) /\ Len(t) \in Nat
  BY TextParts
<1>2. Carries(x, Units(t), little)
  BY <1>1, Bytes16Carry
<1>3. DecodeBody(y) = d
  BY <1>2, GuessIsRight
<1>4. x \in Seq(Nat)
  BY <1>2, Zenon DEF Carries
<1>5. n \in Nat /\ n \in 0..Len(x) /\ Len(y) = n
  <2>1. n \in 0..Len(x)
    BY <1>4
  <2>. QED  BY <1>4, <2>1, PrefixFacts
<1>6. /\ d.ok => ReadsPart(t, y, little, d.bytes) /\ d = Decoded(d.bytes)
      /\ n = Len(x) => d = Decoded(UTF8(t))
  <2>1. n \in 0..Len(x)
    BY <1>5
  <2>2. y = SubSeq(x, 1, n)
    OBVIOUS
  <2> HIDE DEF x
  <2>3. CutReads(t, y, little) /\ (n = Len(x) => AllReads(t, y, little))
    BY <1>2, <2>1, <2>2, CutText
  <2>. QED  BY <2>3, Zenon DEF CutReads, AllReads
<1>7. ASSUME d.ok PROVE ArrivedAs(e, t, y, d.bytes) /\ DecodeBody(d.bytes) = d
  <2>1. ReadsPart(t, y, little, d.bytes) /\ d = Decoded(d.bytes)
    BY <1>6, <1>7
  <2>2. d.bytes \in Seq(Octet)
    BY <2>1, PartIsUTF8
  <2> DEFINE r == d.bytes
  <2> HIDE DEF d, r
  <2>3. DecodeBody(r) = Decoded(r)
    BY <2>2, OctetsStay DEF r
  <2>4. e \in Encodings /\ e # "utf8"
    BY DEF Encodings
  <2>5. Len(y) = Len(y) + 0
    BY <1>5
  <2>6. \A s \in Seq(Scalar) : /\ Len(Encode(e, s)) = 2 * Len(Units(s)) + 0
                               /\ y = Bytes16(little, s) => y = Encode(e, s)
    <3> SUFFICES ASSUME NEW s \in Seq(Scalar)
                 PROVE  /\ Len(Encode(e, s)) = 2 * Len(Units(s)) + 0
                        /\ y = Bytes16(little, s) => y = Encode(e, s)
      OBVIOUS
    <3>1. Len(Encode(e, s)) = 2 * Len(Units(s)) /\ Len(Units(s)) \in Nat
      BY <2>4, EncodeType
    <3>2. y = Bytes16(little, s) => y = Encode(e, s)
      OBVIOUS
    <3>. QED  BY <3>1, <3>2
  <2>7. ReadsPart(t, y, little, r)
    BY <2>1 DEF r
  <2>8. ArrivedAs(e, t, y, r)
    <3>1. IsFramed(e, little, 0, y, y)
      BY <2>5, <2>6, Zenon DEF IsFramed
    <3>2. 0 \in {0, 2}
      OBVIOUS
    <3>. QED  BY <2>4, <2>7, <3>1, <3>2, PartArrived
  <2>. QED  BY <2>1, <2>3, <2>8, Zenon DEF r
<1>. QED  BY <1>3, <1>6, <1>7, Zenon DEF BodyRead, BodyWhole

(* The bytes a and b are the mark of encoding e. *)
Prepends(e, a, b, little) == \A s : Encode(e, s) = Marked(a, b, Bytes16(little, s))

IsMark(e, a, b, little) ==
  /\ Prepends(e, a, b, little)
  /\ \A w \in Seq(Nat) : StartsWith(w, a, b) =>
       DecodeBody(w) = DecodeUTF16Pairs(SubSeq(w, 3, Len(w)), little)

(* With a mark the same is true of what follows it. *)
LEMMA CutMarked ==
  ASSUME NEW t, IsText(t), NEW little \in BOOLEAN, NEW e \in {"utf16leMark", "utf16beMark"},
         NEW a \in Nat, NEW b \in Nat, IsMark(e, a, b, little),
         NEW n \in 2..Len(Encode(e, t)), NEW y, y = SubSeq(Encode(e, t), 1, n)
  PROVE  BodyRead(e, t, y) /\ (n = Len(Encode(e, t)) => BodyWhole(t, y))
<1> DEFINE x == Bytes16(little, t)
           z == SubSeq(x, 1, n - 2)
           d == DecodeUTF16Pairs(z, little)
<1>1. t \in Seq(Scalar) /\ Len(t) \in Nat
  BY TextParts
<1>2. Carries(x, Units(t), little)
  BY <1>1, Bytes16Carry
<1>3. x \in Seq(Nat)
  BY <1>2, Zenon DEF Carries
<1> HIDE DEF x
<1>4. Encode(e, t) = Marked(a, b, x)
  BY Zenon DEF x, IsMark, Prepends
<1>5. Len(Encode(e, t)) = Len(x) + 2
  <2>1. Len(<<a, b>> \o x) = Len(x) + 2
    BY <1>3, TwoBefore
  <2>. QED  BY <1>4, <2>1, Zenon DEF Marked
<1>6. n \in 2..(Len(x) + 2) /\ y = SubSeq(Marked(a, b, x), 1, n)
  BY <1>4, <1>5
<1>7. /\ y \in Seq(Nat) /\ Len(y) = n /\ StartsWith(y, a, b) /\ n - 2 \in 0..Len(x)
      /\ SubSeq(y, 3, Len(y)) = z /\ y = Marked(a, b, z)
  <2>1. n \in 2..(Len(x) + 2)
    BY <1>6
  <2>2. y = SubSeq(Marked(a, b, x), 1, n)
    BY <1>6
  <2>3. IsAfterMark(Nat, a, b, x, n, y)
    BY <1>3, <2>1, <2>2, CutAfterMark
  <2>. QED  BY <2>3, Zenon DEF IsAfterMark
<1>8. DecodeBody(y) = d
  BY <1>7, Zenon DEF IsMark
<1>9. /\ d.ok => ReadsPart(t, z, little, d.bytes) /\ d = Decoded(d.bytes)
      /\ n - 2 = Len(x) => d = Decoded(UTF8(t))
  <2>1. n - 2 \in 0..Len(x)
    BY <1>7
  <2>2. z = SubSeq(x, 1, n - 2)
    OBVIOUS
  <2> HIDE DEF z
  <2>3. CutReads(t, z, little) /\ (n - 2 = Len(x) => AllReads(t, z, little))
    BY <1>2, <2>1, <2>2, CutText
  <2>. QED  BY <2>3, Zenon DEF CutReads, AllReads
<1>10. z \in Seq(Nat) /\ Len(z) = n - 2 /\ n \in Nat
  <2>1. n - 2 \in 0..Len(x)
    BY <1>7
  <2>2. \A m \in 0..Len(x) : SubSeq(x, 1, m) \in Seq(Nat) /\ Len(SubSeq(x, 1, m)) = m
    BY <1>3, PrefixFacts
  <2>3. n \in Nat
    OBVIOUS
  <2>. QED  BY <2>1, <2>2, <2>3
<1>11. ASSUME d.ok PROVE ArrivedAs(e, t, y, d.bytes) /\ DecodeBody(d.bytes) = d
  <2>1. ReadsPart(t, z, little, d.bytes) /\ d = Decoded(d.bytes)
    BY <1>9, <1>11
  <2>2. d.bytes \in Seq(Octet)
    BY <2>1, PartIsUTF8
  <2> DEFINE r == d.bytes
  <2> HIDE DEF d, r, z
  <2>3. DecodeBody(r) = Decoded(r)
    BY <2>2, OctetsStay DEF r
  <2>4. e \in Encodings /\ e # "utf8"
    BY DEF Encodings
  <2>5. Len(y) = Len(z) + 2
    BY <1>7, <1>10
  <2>6. \A s \in Seq(Scalar) : /\ Len(Encode(e, s)) = 2 * Len(Units(s)) + 2
                               /\ z = Bytes16(little, s) => y = Encode(e, s)
    <3> SUFFICES ASSUME NEW s \in Seq(Scalar)
                 PROVE  /\ Len(Encode(e, s)) = 2 * Len(Units(s)) + 2
                        /\ z = Bytes16(little, s) => y = Encode(e, s)
      OBVIOUS
    <3>1. Len(Encode(e, s)) = 2 * Len(Units(s)) + 2
      BY <2>4, EncodeType
    <3>2. z = Bytes16(little, s) => y = Encode(e, s)
      BY <1>7, Zenon DEF IsMark, Prepends
    <3>. QED  BY <3>1, <3>2
  <2>7. ReadsPart(t, z, little, r)
    BY <2>1 DEF r
  <2>8. ArrivedAs(e, t, y, r)
    <3>1. IsFramed(e, little, 2, z, y)
      BY <2>5, <2>6, Zenon DEF IsFramed
    <3>2. 2 \in {0, 2}
      OBVIOUS
    <3>. QED  BY <2>4, <2>7, <3>1, <3>2, PartArrived
  <2>. QED  BY <2>1, <2>3, <2>8, Zenon DEF r
<1>12. n = Len(Encode(e, t)) => n - 2 = Len(x)
  BY <1>3, <1>5, <1>10
<1>. QED  BY <1>8, <1>9, <1>11, <1>12, Zenon DEF BodyRead, BodyWhole

(* The two marks, and the two orders without one. *)
LEMMA MarksOfEncodings ==
  /\ IsMark("utf16leMark", 255, 254, TRUE) /\ IsMark("utf16beMark", 254, 255, FALSE)
  /\ \A s : Encode("utf16le", s) = Bytes16(TRUE, s) /\ Encode("utf16be", s) = Bytes16(FALSE, s)
<1>1. Prepends("utf16leMark", 255, 254, TRUE) /\ Prepends("utf16beMark", 254, 255, FALSE)
  <2>1. Prepends("utf16leMark", 255, 254, TRUE)
    BY Zenon DEF Prepends, Encode, Marked, Bytes16
  <2>2. Prepends("utf16beMark", 254, 255, FALSE)
    BY Zenon DEF Prepends, Encode, Marked, Bytes16
  <2>. QED  BY <2>1, <2>2
<1>2. \A s : Encode("utf16le", s) = Bytes16(TRUE, s) /\ Encode("utf16be", s) = Bytes16(FALSE, s)
  BY EncodeIs, Zenon DEF Bytes16
<1>3. \A w \in Seq(Nat) : StartsWith(w, 255, 254) =>
        DecodeBody(w) = DecodeUTF16Pairs(SubSeq(w, 3, Len(w)), TRUE)
  BY Zenon DEF DecodeBody
<1>4. \A w \in Seq(Nat) : StartsWith(w, 254, 255) => ~StartsWith(w, 255, 254)
  BY SMT DEF StartsWith
<1>5. \A w \in Seq(Nat) : StartsWith(w, 254, 255) =>
        DecodeBody(w) = DecodeUTF16Pairs(SubSeq(w, 3, Len(w)), FALSE)
  BY <1>4, Zenon DEF DecodeBody
<1>. QED  BY <1>1, <1>2, <1>3, <1>5, Zenon DEF IsMark

(* A prefix of a payload is read as the part of its text that arrived, and the
   whole of it as the text. *)
LEMMA CutBody ==
  ASSUME NEW t, IsText(t), t # <<>>, t[1] < 128, NEW e \in Encodings,
         NEW n \in 0..Len(Encode(e, t)), NEW y, y = SubSeq(Encode(e, t), 1, n)
  PROVE  BodyRead(e, t, y) /\ (n = Len(Encode(e, t)) => BodyWhole(t, y))
<1> DEFINE x == Encode(e, t)
<1>1. t \in Seq(Scalar)
  BY TextParts
<1>2. /\ x \in Seq(Nat) /\ Len(x) \in Nat /\ Len(Units(t)) \in Nat
      /\ e = "utf8" => x \in Seq(Octet)
      /\ e \in {"utf16le", "utf16be"} => Len(x) = 2 * Len(Units(t))
      /\ e \in {"utf16leMark", "utf16beMark"} => Len(x) = 2 * Len(Units(t)) + 2
  BY <1>1, EncodeType
<1>3. t[1] < 256 /\ Len(Units(t)) >= 1
  <2>1. t[1] \in Nat
    <3>1. t \in Seq(Nat) /\ Len(t) # 0
      BY SMT DEF IsText
    <3>. QED  BY <3>1
  <2>2. t[1] < 256
    BY <2>1
  <2>. QED  BY <2>2, FirstUnit
<1>4. n \in 0..Len(x) /\ y = SubSeq(x, 1, n)
  OBVIOUS
<1>5. \A z : Decoded(z).bytes = z
  BY DEF Decoded
<1>6. CASE e = "utf8"
  <2>1. x \in Seq(Octet)
    BY <1>2, <1>6
  <2>2. x = UTF8(t)
    BY <1>6, EncodeIs, Zenon
  <2> HIDE DEF x
  <2>3. y \in Seq(Octet) /\ (n = Len(x) => y = x)
    <3>1. /\ SubSeq(x, 1, Len(x)) = x
          /\ \A m \in 0..Len(x) : SubSeq(x, 1, m) \in Seq(Octet)
      BY <2>1, PrefixFacts
    <3>. QED  BY <1>4, <3>1
  <2>4. DecodeBody(y) = Decoded(y)
    BY <2>3, OctetsStay
  <2>5. BodyRead(e, t, y)
    BY <1>5, <1>6, <2>4, Zenon DEF BodyRead, ArrivedAs
  <2>6. n = Len(x) => BodyWhole(t, y)
    BY <2>2, <2>3, <2>4, Zenon DEF BodyWhole
  <2>. QED  BY <2>5, <2>6 DEF x
<1>7. CASE e # "utf8" /\ n < 2
  <2>1. e \in {"utf16le", "utf16be", "utf16leMark", "utf16beMark"}
    BY <1>7 DEF Encodings
  <2>2. Len(x) >= 2
    BY <1>2, <1>3, <2>1
  <2> HIDE DEF x
  <2>3. Len(y) = n
    <3>1. \A m \in 0..Len(x) : Len(SubSeq(x, 1, m)) = m
      BY <1>2, PrefixFacts
    <3>. QED  BY <1>4, <3>1
  <2>4. ~(Len(y) >= 2) /\ Len(y) <= 1 /\ n # Len(x)
    BY <1>4, <1>7, <2>2, <2>3
  <2>5. DecodeBody(y) = Decoded(y)
    BY <2>4, ShortBody
  <2>6. BodyRead(e, t, y)
    BY <1>5, <2>4, <2>5, Zenon DEF BodyRead, ArrivedAs
  <2>. QED  BY <2>4, <2>6 DEF x
<1>8. CASE e # "utf8" /\ n >= 2
  <2>1. n \in 2..Len(Encode(e, t))
    BY <1>2, <1>4, <1>8
  <2> DEFINE yes == TRUE
             no == FALSE
  <2>2. yes \in BOOLEAN /\ no \in BOOLEAN
    OBVIOUS
  <2>3. IsMark("utf16leMark", 255, 254, yes) /\ IsMark("utf16beMark", 254, 255, no)
    BY MarksOfEncodings, Zenon
  <2>4. /\ \A s : Encode("utf16le", s) = Bytes16(yes, s)
        /\ \A s : Encode("utf16be", s) = Bytes16(no, s)
    BY MarksOfEncodings, Zenon
  <2>5. 255 \in Nat /\ 254 \in Nat
    OBVIOUS
  <2>6. t[1] < 256
    BY <1>3
  <2> HIDE DEF yes, no, x
  <2>7. CASE e = "utf16le"
    <3>1. e \in {"utf16le", "utf16be"} /\ \A s : Encode(e, s) = Bytes16(yes, s)
      BY <2>4, <2>7
    <3>. QED  BY <2>1, <2>2, <2>6, <3>1, CutUnmarked DEF x
  <2>8. CASE e = "utf16be"
    <3>1. e \in {"utf16le", "utf16be"} /\ \A s : Encode(e, s) = Bytes16(no, s)
      BY <2>4, <2>8
    <3>. QED  BY <2>1, <2>2, <2>6, <3>1, CutUnmarked DEF x
  <2>9. CASE e = "utf16leMark"
    <3>1. e \in {"utf16leMark", "utf16beMark"} /\ IsMark(e, 255, 254, yes)
      BY <2>3, <2>9
    <3>. QED  BY <2>1, <2>2, <2>5, <3>1, CutMarked DEF x
  <2>10. CASE e = "utf16beMark"
    <3>1. e \in {"utf16leMark", "utf16beMark"} /\ IsMark(e, 254, 255, no)
      BY <2>3, <2>10
    <3>. QED  BY <2>1, <2>2, <2>5, <3>1, CutMarked DEF x
  <2>. QED  BY <1>8, <2>7, <2>8, <2>9, <2>10 DEF Encodings
<1>9. n \in Nat
  OBVIOUS
<1>. QED  BY <1>6, <1>7, <1>8, <1>9

----------------------------------------------------------------------------
(* What arrives, and what is made of it                                    *)

Replied(name) ==
  [name  |-> name,
   bytes |-> IF IsUTF16(body) THEN EncodeUTF16LE(ReplyText(name)) ELSE UTF8(ReplyText(name))]

(* Reply and count of a body that decoded, by its dialect. *)
Outcome ==
  /\ dialect = "RegisterRequest" => reply = Replied("registerReply") /\ counted = "registration"
  /\ dialect = "HeartBeatRequest" => reply = Replied("heartbeatReply") /\ counted = "heartbeat"
  /\ dialect = "CheckFileRequest" =>
       /\ reply = Replied("checkFileResponse")
       /\ counted = IF CheckFileAction = OneFSHeartbeatAction THEN "heartbeat" ELSE "nothing"
  /\ dialect = "CheckEventRequest" => reply = Replied("checkEventResponse") /\ counted = "nothing"
  /\ dialect = "Unknown" => reply.name = "none" /\ counted = "nothing"

(* The body is a prefix of the payload, and what is known of it is read from it. *)
TransitInv ==
  /\ doc \in Documents /\ enc \in Encodings
  /\ pc \in {"send", "classify", "dispatch", "enqueue", "done"}
  /\ pc # "send" => \E n \in 0..Len(Encode(enc, doc.text)) :
                      body = SubSeq(Encode(enc, doc.text), 1, n)
  /\ pc \in {"send", "classify", "dispatch"} =>
       reply.name = "none" /\ counted = "nothing" /\ ~parsed.ok
  /\ pc \in {"dispatch", "enqueue", "done"} =>
       /\ decoded = DecodeBody(body)
       /\ decoded.ok => dialect = ClassifyDecoded(decoded.bytes)
       /\ decoded.ok \/ (pc = "done" /\ counted = "nothing" /\ ~parsed.ok)
  /\ pc \in {"enqueue", "done"} /\ decoded.ok => Outcome
  /\ parsed.ok => \E root : Unmarshal(root).ok

(* The dialect is one of those that the handler knows. *)
LEMMA DialectOf ==
  ASSUME NEW b
  PROVE  /\ ClassifyDecoded(b) \in Named \cup {"Unknown"}
         /\ ClassifyDecoded(b) \in Named => RootIs(b, Root(ClassifyDecoded(b)))
<1>1. CASE \E d \in Named : RootIs(b, Root(d))
  <2>1. ClassifyDecoded(b) = CHOOSE d \in Named : RootIs(b, Root(d))
    BY <1>1, Zenon DEF ClassifyDecoded
  <2>2. (CHOOSE d \in Named : RootIs(b, Root(d))) \in Named
        /\ RootIs(b, Root(CHOOSE d \in Named : RootIs(b, Root(d))))
    BY <1>1, Zenon
  <2>. QED  BY <2>1, <2>2, Zenon
<1>2. CASE ~ \E d \in Named : RootIs(b, Root(d))
  <2>1. ClassifyDecoded(b) = "Unknown"
    BY <1>2, Zenon DEF ClassifyDecoded
  <2>2. "Unknown" \notin Named
    BY DEF Named
  <2>. QED  BY <2>1, <2>2
<1>. QED  BY <1>1, <1>2, Zenon

(* A parser finds events only where xml.Unmarshal reads the document. *)
LEMMA ParsedIsRead ==
  /\ ParseOneFSEvent(Unmarshal("CheckFileRequest"), ReceiveTime).ok =>
       Unmarshal("CheckFileRequest").ok
  /\ ParseCheckEventRequest(Unmarshal("CheckEventRequest"), ReceiveTime).ok =>
       Unmarshal("CheckEventRequest").ok
  /\ ParseDecoded(Unmarshal("EventBatch"), Unmarshal("CEEEvent"), ReceiveTime).ok =>
       Unmarshal("EventBatch").ok \/ Unmarshal("CEEEvent").ok
<1>1. ~ParseError.ok
  BY DEF ParseError
<1>2. ParseOneFSEvent(Unmarshal("CheckFileRequest"), ReceiveTime).ok =>
        Unmarshal("CheckFileRequest").ok
  BY <1>1, Zenon DEF ParseOneFSEvent
<1>3. ParseCheckEventRequest(Unmarshal("CheckEventRequest"), ReceiveTime).ok =>
        Unmarshal("CheckEventRequest").ok
  BY <1>1, Zenon DEF ParseCheckEventRequest
<1>4. ParseDecoded(Unmarshal("EventBatch"), Unmarshal("CEEEvent"), ReceiveTime).ok =>
        Unmarshal("EventBatch").ok \/ Unmarshal("CEEEvent").ok
  BY <1>1, Zenon DEF ParseDecoded
<1>. QED  BY <1>2, <1>3, <1>4

(* The bytes that are sent are a prefix of the payload, all of it or less. *)
LEMMA SentPrefix ==
  ASSUME NEW d \in Documents, NEW e \in Encodings
  PROVE  /\ Len(Encode(e, d.text)) \in Nat
         /\ Encode(e, d.text) = SubSeq(Encode(e, d.text), 1, Len(Encode(e, d.text)))
<1>1. IsText(d.text)
  BY DeliveryAssumption DEF IsDocument
<1>2. d.text \in Seq(Scalar)
  BY <1>1, TextParts
<1>3. Encode(e, d.text) \in Seq(Nat) /\ Len(Encode(e, d.text)) \in Nat
  BY <1>2, EncodeType
<1> DEFINE x == Encode(e, d.text)
<1> HIDE DEF x
<1>4. x \in Seq(Nat) => SubSeq(x, 1, Len(x)) = x
  BY PrefixFacts
<1>. QED  BY <1>3, <1>4 DEF x

(* The body, the dialect and the reply are those of TransitInv in every step: what
   is decoded, classified and answered is the one prefix that arrived. *)
THEOREM TransitInductive == Spec => []TransitInv
<1>1. Init => TransitInv
  BY DEF Init, TransitInv, ParseError
<1>2. TransitInv /\ [Next]_vars => TransitInv'
  <2> SUFFICES ASSUME TransitInv, [Next]_vars PROVE TransitInv'
    OBVIOUS
  <2>1. CASE Send
    <3>1. /\ pc' = "classify" /\ body' = Encode(enc, doc.text)
          /\ UNCHANGED <<doc, enc, decoded, dialect, reply, counted, parsed, records>> /\ pc = "send"
      BY <2>1 DEF Send
    <3>2. \E n \in 0..Len(Encode(enc', doc'.text)) : body' = SubSeq(Encode(enc', doc'.text), 1, n)
      <4>1. doc \in Documents /\ enc \in Encodings
        BY DEF TransitInv
      <4>2. Len(Encode(enc, doc.text)) \in 0..Len(Encode(enc, doc.text))
        BY <4>1, SentPrefix
      <4>3. body' = SubSeq(Encode(enc, doc.text), 1, Len(Encode(enc, doc.text)))
        BY <3>1, <4>1, SentPrefix
      <4>. QED  BY <3>1, <4>2, <4>3
    <3>. QED  BY <3>1, <3>2 DEF TransitInv
  <2>2. CASE SendTruncated
    <3>1. /\ pc' = "classify" /\ pc = "send"
          /\ UNCHANGED <<doc, enc, decoded, dialect, reply, counted, parsed, records>>
      BY <2>2 DEF SendTruncated
    <3>2. \E n \in 0..Len(Encode(enc', doc'.text)) : body' = SubSeq(Encode(enc', doc'.text), 1, n)
      <4>1. doc \in Documents /\ enc \in Encodings
        BY DEF TransitInv
      <4>2. PICK n \in 0..(Len(Encode(enc, doc.text)) - 1) : body' = SubSeq(Encode(enc, doc.text), 1, n)
        BY <2>2 DEF SendTruncated
      <4>3. n \in 0..Len(Encode(enc, doc.text))
        BY <4>1, SentPrefix
      <4>. QED  BY <3>1, <4>2, <4>3
    <3>. QED  BY <3>1, <3>2 DEF TransitInv
  <2>3. CASE Classify
    <3>1. /\ pc = "classify" /\ decoded' = DecodeBody(body)
          /\ UNCHANGED <<doc, enc, body, counted, parsed, records>>
          /\ decoded'.ok => dialect' = ClassifyDecoded(decoded'.bytes) /\ pc' = "dispatch" /\ UNCHANGED reply
          /\ ~decoded'.ok => pc' = "done"
      BY <2>3 DEF Classify
    <3>2. counted = "nothing" /\ ~parsed.ok /\ reply.name = "none"
      BY <3>1 DEF TransitInv
    <3>3. /\ doc' \in Documents /\ enc' \in Encodings
          /\ \E n \in 0..Len(Encode(enc', doc'.text)) : body' = SubSeq(Encode(enc', doc'.text), 1, n)
      BY <3>1 DEF TransitInv
    <3>. QED  BY <3>1, <3>2, <3>3 DEF TransitInv
  <2>4. ASSUME pc = "dispatch", UNCHANGED <<doc, enc, body, decoded, dialect>>,
               pc' \in {"enqueue", "done"}, Outcome',
               parsed'.ok => \E root : Unmarshal(root).ok
        PROVE  TransitInv'
    <3>1. /\ doc' \in Documents /\ enc' \in Encodings
          /\ \E n \in 0..Len(Encode(enc', doc'.text)) : body' = SubSeq(Encode(enc', doc'.text), 1, n)
          /\ decoded' = DecodeBody(body') /\ decoded'.ok /\ dialect' = ClassifyDecoded(decoded'.bytes)
      BY <2>4 DEF TransitInv
    <3>2. \A root : Unmarshal(root)' = Unmarshal(root)
      BY <2>4 DEF Unmarshal
    <3>3. parsed'.ok => \E root : Unmarshal(root).ok'
      BY <2>4, <3>2
    <3>. QED  BY <2>4, <3>1, <3>3 DEF TransitInv
  <2>5. ASSUME pc = "dispatch" PROVE ~parsed.ok /\ reply.name = "none" /\ counted = "nothing"
    BY <2>5 DEF TransitInv
  <2>6. \A name : /\ Respond(name) /\ body' = body => reply' = Replied(name)
                  /\ body' = body => Replied(name)' = Replied(name)
    BY Zenon DEF Respond, Replied
  <2>7. CASE RegisterRequest
    <3>1. /\ pc = "dispatch" /\ UNCHANGED <<doc, enc, body, decoded, dialect, parsed>> /\ pc' = "done"
          /\ dialect = "RegisterRequest" /\ counted' = "registration" /\ Respond("registerReply")
      BY <2>7 DEF RegisterRequest, AtDialect
    <3>2. reply' = Replied("registerReply")'
      BY <2>6, <3>1
    <3>3. Outcome'
      BY <3>1, <3>2 DEF Outcome
    <3>. QED  BY <2>4, <2>5, <3>1, <3>3
  <2>8. CASE HeartBeatRequest
    <3>1. /\ pc = "dispatch" /\ UNCHANGED <<doc, enc, body, decoded, dialect, parsed>> /\ pc' = "done"
          /\ dialect = "HeartBeatRequest" /\ counted' = "heartbeat" /\ Respond("heartbeatReply")
      BY <2>8 DEF HeartBeatRequest, AtDialect
    <3>2. reply' = Replied("heartbeatReply")'
      BY <2>6, <3>1
    <3>3. Outcome'
      BY <3>1, <3>2 DEF Outcome
    <3>. QED  BY <2>4, <2>5, <3>1, <3>3
  <2>9. ASSUME UNCHANGED <<doc, decoded>> PROVE CheckFileAction' = CheckFileAction
    BY <2>9 DEF CheckFileAction, Unmarshal
  <2>10. CASE CheckFileHeartbeat
    <3>1. /\ pc = "dispatch" /\ UNCHANGED <<doc, enc, body, decoded, dialect, parsed>> /\ pc' = "done"
          /\ dialect = "CheckFileRequest" /\ counted' = "heartbeat" /\ Respond("checkFileResponse")
          /\ CheckFileAction = OneFSHeartbeatAction
      BY <2>10 DEF CheckFileHeartbeat, AtDialect
    <3>2. reply' = Replied("checkFileResponse")' /\ CheckFileAction' = OneFSHeartbeatAction
      BY <2>6, <2>9, <3>1
    <3>3. Outcome'
      BY <3>1, <3>2 DEF Outcome, OneFSHeartbeatAction
    <3>. QED  BY <2>4, <2>5, <3>1, <3>3
  <2>11. CASE CheckFileEvent
    <3>1. /\ pc = "dispatch" /\ UNCHANGED <<doc, enc, body, decoded, dialect, counted>>
          /\ pc' \in {"enqueue", "done"}
          /\ dialect = "CheckFileRequest" /\ Respond("checkFileResponse")
          /\ CheckFileAction # OneFSHeartbeatAction
          /\ parsed' = ParseOneFSEvent(Unmarshal("CheckFileRequest"), ReceiveTime)
      BY <2>11 DEF CheckFileEvent, AtDialect
    <3>2. reply' = Replied("checkFileResponse")' /\ CheckFileAction' # OneFSHeartbeatAction
      BY <2>6, <2>9, <3>1
    <3>3. Outcome'
      BY <2>5, <3>1, <3>2 DEF Outcome, OneFSHeartbeatAction
    <3>4. parsed'.ok => \E root : Unmarshal(root).ok
      BY <3>1, ParsedIsRead, Zenon
    <3>. QED  BY <2>4, <3>1, <3>3, <3>4
  <2>12. CASE CheckEventRequest
    <3>1. /\ pc = "dispatch" /\ UNCHANGED <<doc, enc, body, decoded, dialect, counted>>
          /\ pc' \in {"enqueue", "done"}
          /\ dialect = "CheckEventRequest" /\ Respond("checkEventResponse")
          /\ parsed' = ParseCheckEventRequest(Unmarshal("CheckEventRequest"), ReceiveTime)
      BY <2>12 DEF CheckEventRequest, AtDialect
    <3>2. reply' = Replied("checkEventResponse")'
      BY <2>6, <3>1
    <3>3. Outcome'
      BY <2>5, <3>1, <3>2 DEF Outcome
    <3>4. parsed'.ok => \E root : Unmarshal(root).ok
      BY <3>1, ParsedIsRead, Zenon
    <3>. QED  BY <2>4, <3>1, <3>3, <3>4
  <2>13. CASE Events
    <3>1. /\ pc = "dispatch" /\ UNCHANGED <<doc, enc, body, decoded, dialect, counted, reply>>
          /\ pc' \in {"enqueue", "done"} /\ dialect = "Unknown"
          /\ parsed' = ParseDecoded(Unmarshal("EventBatch"), Unmarshal("CEEEvent"), ReceiveTime)
      BY <2>13 DEF Events, AtDialect
    <3>3. Outcome'
      BY <2>5, <3>1 DEF Outcome
    <3>4. parsed'.ok => \E root : Unmarshal(root).ok
      BY <3>1, ParsedIsRead, Zenon
    <3>. QED  BY <2>4, <3>1, <3>3, <3>4
  <2>14. ASSUME UNCHANGED <<doc, enc, body, decoded, dialect, reply, counted, parsed>>,
                (pc = "enqueue" /\ pc' = "done") \/ pc' = pc
         PROVE  TransitInv'
    <3>1. \A root : Unmarshal(root)' = Unmarshal(root)
      BY <2>14 DEF Unmarshal
    <3>2. parsed'.ok => \E root : Unmarshal(root).ok'
      BY <2>14, <3>1 DEF TransitInv
    <3>3. Outcome' <=> Outcome
      BY <2>6, <2>9, <2>14 DEF Outcome
    <3>4. pc' \in {"enqueue", "done"} /\ decoded'.ok => Outcome'
      BY <2>14, <3>3 DEF TransitInv
    <3>. QED  BY <2>14, <3>2, <3>4 DEF TransitInv
  <2>15. CASE Enqueue
    BY <2>14, <2>15 DEF Enqueue
  <2>16. CASE UNCHANGED vars
    BY <2>14, <2>16 DEF vars
  <2>. QED  BY <2>1, <2>2, <2>3, <2>7, <2>8, <2>10, <2>11, <2>12, <2>13, <2>15, <2>16 DEF Next
<1>. QED  BY <1>1, <1>2, PTL DEF Spec

(* The text of a document, as the lemmas on texts need it. *)
LEMMA TextOfDocument ==
  ASSUME NEW d \in Documents
  PROVE  IsText(d.text) /\ d.text # <<>> /\ d.text[1] < 128
<1>1. IsDocument(d)
  BY DeliveryAssumption
<1>2. IsText(d.text)
  BY <1>1 DEF IsDocument
<1>3. PICK n, m \in DOMAIN d.text : n + 2 <= m /\ \A i \in 1..(n + 2) : d.text[i] < 128
  BY <1>1 DEF IsDocument
<1>4. d.text \in Seq(Nat) /\ n \in 1..Len(d.text) /\ m \in 1..Len(d.text)
  <2>1. d.text \in Seq(Nat)
    BY SMT, <1>2 DEF IsText
  <2>2. DOMAIN d.text = 1..Len(d.text)
    BY <2>1
  <2>. QED  BY <2>1, <2>2
<1>5. d.text # <<>>
  BY <1>4
<1>6. 1 \in 1..(n + 2)
  BY <1>4
<1>. QED  BY <1>2, <1>3, <1>5, <1>6

(* In every encoding, what DecodeBody returns is the part of the document that
   arrived and no more, and decoding it again changes nothing (utf16.go). *)
THEOREM DecodesWhatArrived == Spec => []DecodedIsWhatArrived
<1>1. TransitInv => DecodedIsWhatArrived
  <2> SUFFICES ASSUME TransitInv, pc \notin {"send", "classify"}, decoded.ok
               PROVE  /\ \/ \E n \in 0..Len(doc.text) :
                              body = Encode(enc, Before(n)) /\ decoded.bytes = UTF8(Before(n))
                         \/ decoded.bytes = body /\ (enc = "utf8" \/ Len(body) <= 1)
                         \/ enc # "utf8" /\ SplitPair
                      /\ DecodeBody(decoded.bytes) = decoded
    BY DEF DecodedIsWhatArrived
  <2> DEFINE t == doc.text
  <2>1. IsText(t) /\ t # <<>> /\ t[1] < 128 /\ enc \in Encodings
    BY TextOfDocument DEF TransitInv
  <2>2. PICK n \in 0..Len(Encode(enc, t)) : body = SubSeq(Encode(enc, t), 1, n)
    BY DEF TransitInv
  <2>3. decoded = DecodeBody(body)
    BY DEF TransitInv
  <2>4. BodyRead(enc, t, body)
    <3> HIDE DEF t
    <3>. QED  BY <2>1, <2>2, CutBody
  <2>5. ArrivedAs(enc, t, body, decoded.bytes) /\ DecodeBody(decoded.bytes) = decoded
    BY <2>3, <2>4, Zenon DEF BodyRead
  <2>6. Len(t) \in Nat /\ DOMAIN t = 1..Len(t) /\ \A m \in 1..Len(t) : t[m] \in Nat
    <3>1. t \in Seq(Nat)
      BY SMT, <2>1 DEF IsText
    <3>. QED  BY <3>1
  <2>7. ASSUME NEW m \in 1..Len(t), Wide(t[m]), Len(body) = Len(Encode(enc, SubSeq(t, 1, m))) - 2,
               decoded.bytes = UTF8(Append(SubSeq(t, 1, m - 1), Replacement))
        PROVE  SplitPair
    <3>1. t[m] > 65535
      BY <2>7, SMT DEF Wide
    <3>2. m \in DOMAIN t
      BY <2>6
    <3>. QED  BY <2>7, <3>1, <3>2, SMT DEF SplitPair, Before
  <2>8. \/ \E m \in 0..Len(t) : body = Encode(enc, Before(m)) /\ decoded.bytes = UTF8(Before(m))
        \/ decoded.bytes = body /\ (enc = "utf8" \/ Len(body) <= 1)
        \/ enc # "utf8" /\ SplitPair
    BY <2>5, <2>7, Zenon DEF ArrivedAs, Before
  <2>. QED  BY <2>5, <2>8
<1>. QED  BY <1>1, TransitInductive, PTL

----------------------------------------------------------------------------
(* Where the characters of a tag are in what arrived                       *)

(* The bytes of a character, in each prefix of the text that has it. *)
CharBytes(t, c) ==
  /\ AppendRune(t[c]) \in Seq(Nat) /\ Len(AppendRune(t[c])) \in Nat
  /\ Len(Bytes(t)[c - 1]) \in Nat
  /\ Len(Bytes(t)[c]) = Len(Bytes(t)[c - 1]) + Len(AppendRune(t[c]))
  /\ \A j \in 1..Len(AppendRune(t[c])) :
       Bytes(t)[c][Len(Bytes(t)[c - 1]) + j] = AppendRune(t[c])[j]
  /\ t[c] < 128 => AppendRune(t[c]) = <<t[c]>>
  /\ t[c] >= 128 => \A j \in 1..Len(AppendRune(t[c])) : AppendRune(t[c])[j] >= 128

(* So it is with every character of a text. *)
LEMMA CharsAreBytes ==
  ASSUME NEW t, IsText(t), NEW c \in 1..Len(t)
  PROVE  CharBytes(t, c)
<1> DEFINE b == Bytes(t)
           x == AppendRune(t[c])
<1>1. Len(t) \in Nat /\ t[c] \in Scalar
  BY TextParts
<1>2. c - 1 \in 0..(Len(t) - 1) /\ c - 1 \in 0..Len(t) /\ c \in 0..Len(t) /\ c - 1 + 1 = c
  BY <1>1
<1>3. UTF8(SubSeq(t, 1, c - 1 + 1)) = UTF8(SubSeq(t, 1, c - 1)) \o AppendRune(t[c - 1 + 1])
  BY <1>2, UTF8Grows
<1>4. b[c] = b[c - 1] \o x
  <2>1. \A n \in 0..Len(t) : b[n] = UTF8(SubSeq(t, 1, n))
    BY DEF Bytes
  <2>2. b[c] = UTF8(SubSeq(t, 1, c)) /\ b[c - 1] = UTF8(SubSeq(t, 1, c - 1))
    BY <1>2, <2>1, Zenon
  <2>. QED  BY <1>2, <1>3, <2>2
<1>5. b[c - 1] \in Seq(Nat) /\ b[c] \in Seq(Nat)
  BY <1>2, UTF8Grows DEF IsGrowth
<1>6. /\ x \in Seq(Octet) /\ Len(x) \in 1..4
      /\ t[c] < 128 => x = <<t[c]>>
      /\ t[c] >= 128 => \A j \in 1..Len(x) : x[j] >= 128
  BY <1>1, RuneBytes
<1>7. x \in Seq(Nat)
  <2>1. Octet \in SUBSET Nat
    BY DEF Octet
  <2>. QED  BY <1>6, <2>1, SeqOfSuperset
<1> HIDE DEF b, x
<1>8. /\ Len(b[c - 1] \o x) = Len(b[c - 1]) + Len(x)
      /\ \A j \in 1..Len(x) : (b[c - 1] \o x)[Len(b[c - 1]) + j] = x[j]
  BY <1>5, <1>7, ConcatFacts
<1>9. Len(b[c - 1]) \in Nat /\ Len(x) \in Nat /\ Len(x) >= 1
  <2>1. Len(b[c - 1]) \in Nat
    BY <1>5
  <2>2. \A l \in 1..4 : l \in Nat /\ l >= 1
    OBVIOUS
  <2>. QED  BY <1>6, <2>1, <2>2, Zenon
<1>. QED  BY <1>4, <1>5, <1>6, <1>7, <1>8, <1>9 DEF CharBytes, b, x

(* A byte below 128 is that of a character, and the last byte so far. *)
LEMMA ByteIsChar ==
  ASSUME NEW t, IsText(t), NEW k \in 0..Len(t), NEW q \in 1..Len(Bytes(t)[k]),
         Bytes(t)[k][q] < 128
  PROVE  \E c \in 1..k : t[c] = Bytes(t)[k][q] /\ q = Len(Bytes(t)[c])
<1> DEFINE b == Bytes(t)
           L == Len(t)
<1>1. L \in Nat /\ L \in 0..L /\ IsGrowth(b, L)
  <2>1. L \in Nat
    BY TextParts
  <2>. QED  BY <2>1, UTF8Grows
<1>2. \A n \in 0..L : b[n] \in Seq(Nat) /\ Len(b[n]) \in Nat
  BY <1>1 DEF IsGrowth
<1>3. Len(b[0]) = 0
  BY <1>1 DEF IsGrowth
<1> HIDE DEF b, L
<1>4. k \in 0..L /\ q \in 1..Len(b[k]) /\ b[k][q] < 128
  BY DEF b, L
<1>5. \A m, n \in 0..L : m <= n => /\ Len(b[m]) + (n - m) <= Len(b[n])
                                   /\ \A i \in 1..Len(b[m]) : b[n][i] = b[m][i]
  BY <1>1, Grows
<1>6. Len(b[k]) <= Len(b[L])
  <2>1. k <= L
    BY <1>1, <1>4
  <2>2. Len(b[k]) + (L - k) <= Len(b[L])
    BY <1>1, <1>4, <1>5, <2>1
  <2>3. Len(b[k]) \in Nat /\ Len(b[L]) \in Nat /\ k \in Nat
    BY <1>1, <1>2, <1>4
  <2>. QED  BY <1>1, <2>1, <2>2, <2>3
<1>7. q \in 0..Len(b[L])
  BY <1>1, <1>2, <1>4, <1>6
<1>8. PICK n \in 0..L : q = Len(b[n]) \/ (n >= 1 /\ Len(b[n - 1]) < q /\ q < Len(b[n]))
  BY <1>1, <1>7, Covered
<1>9. n \in 1..L /\ n - 1 \in 0..L
  BY <1>1, <1>3, <1>4, <1>8
<1>10. Len(b[n - 1]) < q /\ q <= Len(b[n])
  <2>1. Len(b[n - 1]) + (n - (n - 1)) <= Len(b[n])
    BY <1>5, <1>9
  <2>2. Len(b[n]) \in Nat /\ Len(b[n - 1]) \in Nat /\ n \in Nat /\ q \in Nat
    BY <1>2, <1>4, <1>9
  <2>3. Len(b[n - 1]) < Len(b[n])
    BY <2>1, <2>2
  <2>. QED  BY <1>8, <2>2, <2>3
<1>11. n <= k
  <2> SUFFICES ASSUME ~(n <= k) PROVE FALSE
    OBVIOUS
  <2>1. k <= n - 1
    BY <1>4, <1>9
  <2>2. Len(b[k]) + (n - 1 - k) <= Len(b[n - 1])
    BY <1>4, <1>5, <1>9, <2>1
  <2>. QED  BY <1>2, <1>4, <1>9, <1>10, <2>1, <2>2
<1>12. b[k][q] = b[n][q]
  <2>1. q \in 1..Len(b[n])
    BY <1>2, <1>4, <1>9, <1>10
  <2>. QED  BY <1>4, <1>5, <1>9, <1>11, <2>1
<1> DEFINE x == AppendRune(t[n])
           j == q - Len(b[n - 1])
<1>13. /\ x \in Seq(Nat) /\ Len(x) \in Nat /\ Len(b[n - 1]) \in Nat
       /\ Len(b[n]) = Len(b[n - 1]) + Len(x)
       /\ \A i \in 1..Len(x) : b[n][Len(b[n - 1]) + i] = x[i]
       /\ t[n] < 128 => x = <<t[n]>>
       /\ t[n] >= 128 => \A i \in 1..Len(x) : x[i] >= 128
  <2>1. n \in 1..Len(t)
    BY <1>9 DEF L
  <2> HIDE DEF L
  <2>2. /\ AppendRune(t[n]) \in Seq(Nat) /\ Len(AppendRune(t[n])) \in Nat
        /\ Len(Bytes(t)[n - 1]) \in Nat
        /\ Len(Bytes(t)[n]) = Len(Bytes(t)[n - 1]) + Len(AppendRune(t[n]))
        /\ \A i \in 1..Len(AppendRune(t[n])) :
             Bytes(t)[n][Len(Bytes(t)[n - 1]) + i] = AppendRune(t[n])[i]
        /\ t[n] < 128 => AppendRune(t[n]) = <<t[n]>>
        /\ t[n] >= 128 => \A i \in 1..Len(AppendRune(t[n])) : AppendRune(t[n])[i] >= 128
    BY <2>1, CharsAreBytes DEF CharBytes
  <2>. QED  BY <2>2, Zenon DEF b
<1>14. t[n] \in Nat
  <2>1. n \in 1..Len(t) /\ t \in Seq(Nat)
    BY SMT, <1>9 DEF L, IsText
  <2>. QED  BY <2>1
<1> HIDE DEF x
<1>15. j \in 1..Len(x) /\ Len(b[n - 1]) + j = q
  <2>1. Len(x) \in Nat /\ Len(b[n - 1]) \in Nat /\ q \in Nat
    BY <1>2, <1>4, <1>13
  <2>2. Len(b[n - 1]) < q /\ q <= Len(b[n - 1]) + Len(x)
    BY <1>10, <1>13
  <2>. QED  BY <2>1, <2>2
<1> HIDE DEF j
<1>16. x[j] = b[k][q]
  BY <1>12, <1>13, <1>15
<1>17. x = <<t[n]>>
  <2>1. x[j] < 128 /\ x[j] \in Nat
    <3>1. x[j] < 128
      BY <1>4, <1>16
    <3>2. x \in Seq(Nat) /\ j \in 1..Len(x)
      BY <1>13, <1>15
    <3>3. x[j] \in Nat
      BY <3>2
    <3>. QED  BY <3>1, <3>3
  <2>2. ~(x[j] >= 128)
    BY <2>1
  <2>3. ~(t[n] >= 128)
    BY <1>13, <1>15, <2>2, Zenon
  <2>4. t[n] < 128
    BY <1>14, <2>3
  <2>. QED  BY <1>13, <2>4, Zenon
<1>18. j = 1 /\ t[n] = b[k][q] /\ q = Len(b[n])
  BY <1>13, <1>15, <1>16, <1>17
<1>19. n \in 1..k
  BY <1>4, <1>9, <1>11
<1>. QED  BY <1>18, <1>19 DEF b

(* A character below 128 is one byte, and the last one of the text so far. *)
LEMMA CharIsByte ==
  ASSUME NEW t, IsText(t), NEW k \in 0..Len(t), NEW c \in 1..k, t[c] < 128
  PROVE  /\ Len(Bytes(t)[c]) \in 1..Len(Bytes(t)[k]) /\ Bytes(t)[k][Len(Bytes(t)[c])] = t[c]
         /\ Len(Bytes(t)[c]) = Len(Bytes(t)[c - 1]) + 1
<1> DEFINE b == Bytes(t)
<1>1. Len(t) \in Nat /\ IsGrowth(b, Len(t)) /\ c \in 1..Len(t) /\ c \in 0..Len(t) /\ c <= k
  <2>1. Len(t) \in Nat
    BY TextParts
  <2>. QED  BY <2>1, UTF8Grows
<1>2. \A n \in 0..Len(t) : Len(b[n]) \in Nat
  BY <1>1 DEF IsGrowth
<1>3. /\ Len(b[c - 1]) \in Nat /\ Len(b[c]) = Len(b[c - 1]) + Len(AppendRune(t[c]))
      /\ \A j \in 1..Len(AppendRune(t[c])) : b[c][Len(b[c - 1]) + j] = AppendRune(t[c])[j]
      /\ AppendRune(t[c]) = <<t[c]>>
  <2>1. c \in 1..Len(t)
    BY <1>1
  <2> HIDE DEF b
  <2>2. CharBytes(t, c)
    BY <2>1, CharsAreBytes
  <2>. QED  BY <2>2 DEF CharBytes, b
<1>4. /\ Len(b[c]) + (k - c) <= Len(b[k])
      /\ \A i \in 1..Len(b[c]) : b[k][i] = b[c][i]
  <2>1. Len(t) \in Nat /\ IsGrowth(b, Len(t)) /\ c \in 0..Len(t) /\ k \in 0..Len(t) /\ c <= k
    BY <1>1
  <2> HIDE DEF b
  <2>. QED  BY <2>1, Grows
<1> HIDE DEF b
<1>5. Len(b[c]) = Len(b[c - 1]) + 1
  BY <1>3
<1>6. b[c][Len(b[c])] = t[c]
  <2>1. 1 \in 1..Len(AppendRune(t[c])) /\ AppendRune(t[c])[1] = t[c]
    BY <1>3
  <2>2. b[c][Len(b[c - 1]) + 1] = t[c]
    BY <1>3, <2>1
  <2>. QED  BY <1>5, <2>2
<1>7. Len(b[c]) \in 1..Len(b[k]) /\ Len(b[c]) \in 1..Len(b[c])
  <2>1. Len(b[c]) \in Nat /\ Len(b[k]) \in Nat /\ Len(b[c - 1]) \in Nat /\ c \in Nat
    BY <1>1, <1>2, <1>3
  <2>. QED  BY <1>1, <1>4, <1>5, <2>1
<1>. QED  BY <1>4, <1>5, <1>6, <1>7 DEF b

(* As long as a text is ASCII, its bytes are its characters. *)
LEMMA AsciiStart ==
  ASSUME NEW t, IsText(t), NEW a \in 0..Len(t), \A i \in 1..a : t[i] < 128
  PROVE  /\ \A i \in 0..a : Len(Bytes(t)[i]) = i
         /\ \A k \in 0..Len(t) : \A i \in 1..a : i <= k => Bytes(t)[k][i] = t[i]
<1> DEFINE b == Bytes(t)
           Off == {i \in 0..a : Len(b[i]) # i}
<1>1. Len(t) \in Nat /\ a \in Nat /\ a <= Len(t) /\ Len(b[0]) = 0
  <2>1. Len(t) \in Nat
    BY TextParts
  <2>2. Len(b[0]) = 0
    BY UTF8Grows DEF IsGrowth
  <2>. QED  BY <2>1, <2>2
<1>2. \A c \in 1..a : Len(b[c]) = Len(b[c - 1]) + 1
  <2> SUFFICES ASSUME NEW c \in 1..a PROVE Len(b[c]) = Len(b[c - 1]) + 1
    OBVIOUS
  <2>1. a \in 0..Len(t) /\ t[c] < 128
    OBVIOUS
  <2>. QED  BY <2>1, CharIsByte
<1> HIDE DEF b
<1>3. \A i \in 0..a : Len(b[i]) = i
  <2> SUFFICES ASSUME Off # {} PROVE FALSE
    OBVIOUS
  <2>1. Off \in SUBSET Nat
    BY <1>1
  <2>2. PICK i \in Off : \A j \in Off : i <= j
    BY <2>1, LeastNumber
  <2>3. i \in 1..a /\ i - 1 \in 0..a /\ ~(i <= i - 1)
    BY <1>1
  <2>4. Len(b[i - 1]) = i - 1
    BY <2>2, <2>3
  <2>5. Len(b[i]) = i
    BY <1>2, <2>3, <2>4
  <2>. QED  BY <2>5
<1>4. ASSUME NEW k \in 0..Len(t), NEW i \in 1..a, i <= k PROVE b[k][i] = t[i]
  <2>1. i \in 1..k /\ t[i] < 128 /\ i \in 0..a
    BY <1>1, <1>4
  <2>2. b[k][Len(b[i])] = t[i]
    BY <2>1, CharIsByte DEF b
  <2>. QED  BY <1>3, <2>1, <2>2
<1>. QED  BY <1>3, <1>4 DEF b

(* The longer the text, the longer its encoding; a pair takes two units. *)
LEMMA EncodeGrows ==
  ASSUME NEW t, IsText(t), NEW e \in Encodings, NEW m \in 0..Len(t), NEW k \in 0..Len(t), m <= k
  PROVE  /\ Len(Encode(e, SubSeq(t, 1, m))) \in Nat /\ Len(Encode(e, SubSeq(t, 1, k))) \in Nat
         /\ Len(Encode(e, SubSeq(t, 1, m))) + (k - m) <= Len(Encode(e, SubSeq(t, 1, k)))
<1> DEFINE p == SubSeq(t, 1, m)
           q == SubSeq(t, 1, k)
<1>1. p \in Seq(Scalar) /\ q \in Seq(Scalar) /\ Len(t) \in Nat
  BY TextParts
<1>2. IsGrowth(Bytes(t), Len(t)) /\ IsGrowth(UnitCounts(t), Len(t))
  BY UTF8Grows, UnitsGrow
<1>3. /\ \A n \in 0..Len(t) : Bytes(t)[n] = UTF8(SubSeq(t, 1, n))
      /\ \A n \in 0..Len(t) : UnitCounts(t)[n] = Units(SubSeq(t, 1, n))
  BY DEF Bytes, UnitCounts
<1>4. Len(Bytes(t)[m]) + (k - m) <= Len(Bytes(t)[k])
  BY <1>1, <1>2, Grows
<1>5. Len(UnitCounts(t)[m]) + (k - m) <= Len(UnitCounts(t)[k])
  BY <1>1, <1>2, Grows
<1>6. Len(UTF8(p)) + (k - m) <= Len(UTF8(q)) /\ Len(Units(p)) + (k - m) <= Len(Units(q))
  BY <1>3, <1>4, <1>5
<1> HIDE DEF p, q
<1>7. /\ Len(Encode(e, p)) \in Nat /\ Len(Units(p)) \in Nat
      /\ e \in {"utf16le", "utf16be"} => Len(Encode(e, p)) = 2 * Len(Units(p))
      /\ e \in {"utf16leMark", "utf16beMark"} => Len(Encode(e, p)) = 2 * Len(Units(p)) + 2
  BY <1>1, EncodeType
<1>8. /\ Len(Encode(e, q)) \in Nat /\ Len(Units(q)) \in Nat
      /\ e \in {"utf16le", "utf16be"} => Len(Encode(e, q)) = 2 * Len(Units(q))
      /\ e \in {"utf16leMark", "utf16beMark"} => Len(Encode(e, q)) = 2 * Len(Units(q)) + 2
  BY <1>1, EncodeType
<1>9. k \in Nat /\ m \in Nat /\ m <= k
  OBVIOUS
<1>10. CASE e = "utf8"
  <2>1. Encode(e, p) = UTF8(p) /\ Encode(e, q) = UTF8(q)
    BY <1>10, EncodeIs, Zenon
  <2>. QED  BY <1>6, <1>7, <1>8, <2>1 DEF p, q
<1>11. CASE e # "utf8"
  <2>1. \A x, y \in Nat : x + (k - m) <= y => 2 * x + (k - m) <= 2 * y /\ 2 * x + 2 + (k - m) <= 2 * y + 2
    BY <1>9
  <2>2. 2 * Len(Units(p)) + (k - m) <= 2 * Len(Units(q))
        /\ 2 * Len(Units(p)) + 2 + (k - m) <= 2 * Len(Units(q)) + 2
    BY <1>6, <1>7, <1>8, <2>1
  <2>3. e \in {"utf16le", "utf16be"} \/ e \in {"utf16leMark", "utf16beMark"}
    BY <1>11 DEF Encodings
  <2>. QED  BY <1>7, <1>8, <2>2, <2>3 DEF p, q
<1>. QED  BY <1>10, <1>11

(* A wide character is two units, and four bytes of UTF-16. *)
LEMMA WideGrows ==
  ASSUME NEW t, IsText(t), NEW e \in Encodings, e # "utf8", NEW m \in 1..Len(t), Wide(t[m])
  PROVE  Len(Encode(e, SubSeq(t, 1, m))) = Len(Encode(e, SubSeq(t, 1, m - 1))) + 4
<1> DEFINE p == SubSeq(t, 1, m - 1)
           q == SubSeq(t, 1, m)
<1>1. m - 1 \in 0..(Len(t) - 1) /\ m - 1 \in 0..Len(t) /\ m \in 0..Len(t) /\ m - 1 + 1 = m
  BY TextParts
<1>2. p \in Seq(Scalar) /\ q \in Seq(Scalar) /\ t[m] \in Scalar
  BY <1>1, TextParts
<1>3. Units(q) = Units(p) \o UnitsOf(t[m])
  BY <1>1, UnitsGrow
<1>4. UnitsOf(t[m]) \in Seq(CodeUnit) /\ Len(UnitsOf(t[m])) = 2
  <2>1. t[m] >= 65536
    BY <1>2, SMT DEF Wide, Scalar
  <2>2. PICK h \in CodeUnit, l \in CodeUnit : UnitsOf(t[m]) = <<h, l>>
    BY <1>2, <2>1, UnitsOfScalar, SMT
  <2>3. <<h, l>> \in Seq(CodeUnit) /\ Len(<<h, l>>) = 2
    OBVIOUS
  <2>. QED  BY <2>2, <2>3
<1> HIDE DEF p, q
<1>5. /\ Len(Encode(e, p)) \in Nat /\ Len(Units(p)) \in Nat
      /\ e \in {"utf16le", "utf16be"} => Len(Encode(e, p)) = 2 * Len(Units(p))
      /\ e \in {"utf16leMark", "utf16beMark"} => Len(Encode(e, p)) = 2 * Len(Units(p)) + 2
  BY <1>2, EncodeType
<1>6. /\ Len(Encode(e, q)) \in Nat /\ Len(Units(q)) \in Nat
      /\ e \in {"utf16le", "utf16be"} => Len(Encode(e, q)) = 2 * Len(Units(q))
      /\ e \in {"utf16leMark", "utf16beMark"} => Len(Encode(e, q)) = 2 * Len(Units(q)) + 2
  BY <1>2, EncodeType
<1>7. Units(p) \in Seq(CodeUnit)
  BY <1>2, LittleEndian
<1>8. Len(Units(p) \o UnitsOf(t[m])) = Len(Units(p)) + Len(UnitsOf(t[m]))
  <2> DEFINE u == Units(p)
             v == UnitsOf(t[m])
  <2>1. u \in Seq(CodeUnit)
    BY <1>7
  <2>2. v \in Seq(CodeUnit)
    BY <1>4
  <2> HIDE DEF u, v
  <2>3. Len(u \o v) = Len(u) + Len(v)
    BY <2>1, <2>2, ConcatFacts
  <2>. QED  BY <2>3 DEF u, v
<1>9. Len(Units(q)) = Len(Units(p)) + 2
  BY <1>3, <1>4, <1>8
<1>10. e \in {"utf16le", "utf16be"} \/ e \in {"utf16leMark", "utf16beMark"}
  BY DEF Encodings
<1>. QED  BY <1>5, <1>6, <1>9, <1>10 DEF p, q

(* Byte q of what was read is the end of a tag that is all in y. *)
TagEnd(e, t, y, q) ==
  \E c \in 1..Len(t) : /\ t[c] = GT /\ q = Len(Bytes(t)[c])
                       /\ Len(Encode(e, SubSeq(t, 1, c))) <= Len(y)

(* A tag's end that was read had arrived, in whichever encoding. *)
LEMMA GTArrived ==
  ASSUME NEW t, IsText(t), NEW e \in Encodings, NEW y, NEW r, ArrivedAs(e, t, y, r),
         NEW n \in 0..Len(Encode(e, t)), y = SubSeq(Encode(e, t), 1, n),
         Len(r) >= 2, NEW q \in 1..Len(r), r[q] = GT
  PROVE  TagEnd(e, t, y, q)
<1>1. Len(t) \in Nat /\ t \in Seq(Scalar)
  BY TextParts
<1>2. \A k \in 0..Len(t) : Bytes(t)[k] = UTF8(SubSeq(t, 1, k)) /\ Bytes(t)[k] \in Seq(Octet)
  BY UTF8Grows DEF Bytes
<1>3. GT < 128 /\ GT \in Nat
  BY DEF GT
<1>4. ASSUME NEW k \in 0..Len(t), q \in 1..Len(Bytes(t)[k]), Bytes(t)[k][q] = GT
      PROVE  \E c \in 1..k : t[c] = GT /\ q = Len(Bytes(t)[c])
  <2>1. Bytes(t)[k][q] < 128
    BY <1>3, <1>4
  <2>2. q \in 1..Len(Bytes(t)[k])
    BY <1>4
  <2>3. \E c \in 1..k : t[c] = Bytes(t)[k][q] /\ q = Len(Bytes(t)[c])
    BY <2>1, <2>2, ByteIsChar
  <2>. QED  BY <1>4, <2>3
<1>5. ASSUME NEW m \in 0..Len(t), y = Encode(e, SubSeq(t, 1, m)), r = UTF8(SubSeq(t, 1, m))
      PROVE  \E c \in 1..Len(t) : /\ t[c] = GT /\ q = Len(Bytes(t)[c])
                                  /\ Len(Encode(e, SubSeq(t, 1, c))) <= Len(y)
  <2>1. r = Bytes(t)[m]
    BY <1>2, <1>5
  <2>2. PICK c \in 1..m : t[c] = GT /\ q = Len(Bytes(t)[c])
    BY <1>4, <2>1
  <2>3. c \in 0..Len(t) /\ c \in 1..Len(t) /\ c <= m /\ m - c \in Nat
    BY <1>1
  <2>4. /\ Len(Encode(e, SubSeq(t, 1, c))) \in Nat /\ Len(Encode(e, SubSeq(t, 1, m))) \in Nat
        /\ Len(Encode(e, SubSeq(t, 1, c))) + (m - c) <= Len(Encode(e, SubSeq(t, 1, m)))
    BY <2>3, EncodeGrows
  <2>5. Len(Encode(e, SubSeq(t, 1, c))) <= Len(Encode(e, SubSeq(t, 1, m)))
    BY <2>3, <2>4
  <2>. QED  BY <1>5, <2>2, <2>3, <2>5
<1>6. ASSUME r = y, e = "utf8"
      PROVE  \E c \in 1..Len(t) : /\ t[c] = GT /\ q = Len(Bytes(t)[c])
                                  /\ Len(Encode(e, SubSeq(t, 1, c))) <= Len(y)
  <2>1. Encode(e, t) = UTF8(t) /\ \A s : Encode(e, s) = UTF8(s)
    BY <1>6, EncodeIs, Zenon
  <2>2. Len(t) \in 0..Len(t) /\ SubSeq(t, 1, Len(t)) = t
    BY <1>1, TextParts
  <2>3. Bytes(t)[Len(t)] = UTF8(t) /\ UTF8(t) \in Seq(Octet)
    BY <1>2, <2>2, Zenon
  <2> DEFINE x == UTF8(t)
  <2>4. y = SubSeq(x, 1, n) /\ n \in 0..Len(x) /\ x \in Seq(Octet)
    BY <2>1, <2>3
  <2> HIDE DEF x
  <2>5. Len(y) = n /\ \A i \in 1..n : y[i] = x[i]
    BY <2>4, PrefixFacts
  <2>6. q \in 1..Len(x) /\ x[q] = GT /\ q <= Len(y)
    BY <1>6, <2>4, <2>5
  <2>7. PICK c \in 1..Len(t) : t[c] = GT /\ q = Len(Bytes(t)[c])
    BY <1>4, <2>2, <2>3, <2>6 DEF x
  <2>8. Encode(e, SubSeq(t, 1, c)) = Bytes(t)[c]
    BY <1>1, <1>2, <2>1
  <2>. QED  BY <2>6, <2>7, <2>8
<1>7. ASSUME e # "utf8", NEW m \in 1..Len(t), Wide(t[m]),
             Len(y) = Len(Encode(e, SubSeq(t, 1, m))) - 2,
             r = UTF8(Append(SubSeq(t, 1, m - 1), Replacement))
      PROVE  \E c \in 1..Len(t) : /\ t[c] = GT /\ q = Len(Bytes(t)[c])
                                  /\ Len(Encode(e, SubSeq(t, 1, c))) <= Len(y)
  <2>1. m - 1 \in 0..Len(t) /\ m \in 0..Len(t)
    BY <1>1
  <2> DEFINE p == Bytes(t)[m - 1]
             w == AppendRune(Replacement)
  <2>2. Replacement \in Scalar /\ Replacement >= 128
    BY SMT DEF Replacement, Scalar
  <2>3. w \in Seq(Octet) /\ \A i \in 1..Len(w) : w[i] >= 128
    BY <2>2, RuneBytes
  <2>4. p \in Seq(Octet) /\ r = p \o w
    <3>1. SubSeq(t, 1, m - 1) \in Seq(Scalar)
      BY <2>1, TextParts
    <3>2. UTF8(Append(SubSeq(t, 1, m - 1), Replacement)) = UTF8(SubSeq(t, 1, m - 1)) \o w
      BY <2>2, <3>1, UTF8Append
    <3>. QED  BY <1>2, <1>7, <2>1, <3>2
  <2> HIDE DEF p, w
  <2>5. /\ Len(p \o w) = Len(p) + Len(w) /\ Len(p) \in Nat /\ Len(w) \in Nat
        /\ \A i \in 1..Len(p) : (p \o w)[i] = p[i]
        /\ \A i \in 1..Len(w) : (p \o w)[Len(p) + i] = w[i]
    BY <2>3, <2>4, ConcatFacts
  <2>6. q \in 1..Len(p)
    <3> SUFFICES ASSUME q \notin 1..Len(p) PROVE FALSE
      OBVIOUS
    <3>1. q \in 1..(Len(p) + Len(w))
      BY <2>4, <2>5
    <3>2. q - Len(p) \in 1..Len(w) /\ Len(p) + (q - Len(p)) = q
      BY <2>5, <3>1
    <3>3. r[q] = w[q - Len(p)]
      BY <2>4, <2>5, <3>2
    <3>4. w[q - Len(p)] >= 128
      BY <2>3, <3>2
    <3>. QED  BY <1>3, <3>3, <3>4
  <2>7. p[q] = GT
    BY <2>4, <2>5, <2>6
  <2>8. PICK c \in 1..(m - 1) : t[c] = GT /\ q = Len(Bytes(t)[c])
    BY <1>4, <2>1, <2>6, <2>7 DEF p
  <2>9. c \in 0..Len(t) /\ c \in 1..Len(t) /\ c <= m - 1 /\ m - 1 - c \in Nat
    BY <1>1
  <2>10. /\ Len(Encode(e, SubSeq(t, 1, c))) \in Nat /\ Len(Encode(e, SubSeq(t, 1, m - 1))) \in Nat
         /\ Len(Encode(e, SubSeq(t, 1, c))) + (m - 1 - c) <= Len(Encode(e, SubSeq(t, 1, m - 1)))
    BY <2>1, <2>9, EncodeGrows
  <2>11. Len(Encode(e, SubSeq(t, 1, m))) = Len(Encode(e, SubSeq(t, 1, m - 1))) + 4
    BY <1>7, WideGrows
  <2>12. Len(Encode(e, SubSeq(t, 1, c))) <= Len(y)
    BY <1>7, <2>9, <2>10, <2>11
  <2>. QED  BY <2>8, <2>9, <2>12
<1>8. CASE r = y /\ e # "utf8" /\ Len(y) <= 1
  <2>1. ~(Len(r) >= 2)
    <3>1. Encode(e, t) \in Seq(Nat)
      BY <1>1, EncodeType
    <3> DEFINE x == Encode(e, t)
    <3> HIDE DEF x
    <3>2. x \in Seq(Nat) /\ n \in 0..Len(x) /\ y = SubSeq(x, 1, n)
      BY <3>1 DEF x
    <3>3. Len(y) = n /\ n \in Nat
      BY <3>2, PrefixFacts
    <3>. QED  BY <1>8, <3>3
  <2>. QED  BY <2>1
<1>9. CASE \E m \in 0..Len(t) : y = Encode(e, SubSeq(t, 1, m)) /\ r = UTF8(SubSeq(t, 1, m))
  BY <1>5, <1>9, Zenon DEF TagEnd
<1>10. CASE e # "utf8" /\ \E m \in 1..Len(t) : /\ Wide(t[m]) /\ Len(y) = Len(Encode(e, SubSeq(t, 1, m))) - 2
                                               /\ r = UTF8(Append(SubSeq(t, 1, m - 1), Replacement))
  BY <1>7, <1>10, Zenon DEF TagEnd
<1>11. TagEnd(e, t, y, q) <=> \E c \in 1..Len(t) : /\ t[c] = GT /\ q = Len(Bytes(t)[c])
                                                  /\ Len(Encode(e, SubSeq(t, 1, c))) <= Len(y)
  BY Zenon DEF TagEnd
<1>. QED  BY <1>6, <1>8, <1>9, <1>10, <1>11, Zenon DEF ArrivedAs

(* Bytes that start as a text does, up to a. *)
SameTo(t, a, r) == r \in Seq(Nat) /\ \A i \in 1..a : i <= Len(r) => r[i] = t[i]

(* What arrived starts as the document does, as long as that is ASCII. *)
LEMMA AsciiArrived ==
  ASSUME NEW t, IsText(t), NEW a \in 0..Len(t), \A i \in 1..a : t[i] < 128,
         NEW e \in Encodings, NEW y, NEW r, ArrivedAs(e, t, y, r),
         NEW n \in 0..Len(Encode(e, t)), y = SubSeq(Encode(e, t), 1, n), Len(r) >= 2
  PROVE  SameTo(t, a, r)
<1>1. Len(t) \in Nat /\ t \in Seq(Scalar) /\ Octet \in SUBSET Nat
  BY TextParts DEF Octet
<1>2. \A k \in 0..Len(t) : Bytes(t)[k] = UTF8(SubSeq(t, 1, k)) /\ Bytes(t)[k] \in Seq(Octet)
  BY UTF8Grows DEF Bytes
<1>3. /\ \A i \in 0..a : Len(Bytes(t)[i]) = i
      /\ \A k \in 0..Len(t) : \A i \in 1..a : i <= k => Bytes(t)[k][i] = t[i]
  BY AsciiStart
<1>4. \A k \in 0..Len(t) : k <= a \/ Len(Bytes(t)[k]) >= a
  <2> SUFFICES ASSUME NEW k \in 0..Len(t), ~(k <= a) PROVE Len(Bytes(t)[k]) >= a
    OBVIOUS
  <2>1. a <= k /\ a \in Nat /\ k \in Nat
    BY <1>1
  <2>2. Len(Bytes(t)[a]) + (k - a) <= Len(Bytes(t)[k])
    BY <1>1, <2>1, UTF8Grows, Grows
  <2>3. Len(Bytes(t)[a]) = a /\ Len(Bytes(t)[k]) \in Nat
    BY <1>2, <1>3
  <2>. QED  BY <2>1, <2>2, <2>3
<1>5. ASSUME NEW k \in 0..Len(t), NEW i \in 1..a, i <= Len(Bytes(t)[k])
      PROVE  Bytes(t)[k][i] = t[i]
  <2>1. i <= k
    <3>1. CASE k <= a
      <4>1. k \in 0..a
        BY <1>1, <3>1
      <4>2. Len(Bytes(t)[k]) = k
        BY <1>3, <4>1
      <4>. QED  BY <1>5, <4>2
    <3>2. CASE ~(k <= a)
      BY <1>1, <3>2
    <3>. QED  BY <3>1, <3>2
  <2>. QED  BY <1>3, <2>1
<1>6. ASSUME NEW m \in 0..Len(t), r = UTF8(SubSeq(t, 1, m))
      PROVE  r \in Seq(Octet) /\ \A i \in 1..a : i <= Len(r) => r[i] = t[i]
  <2>1. r = Bytes(t)[m]
    BY <1>2, <1>6
  <2>. QED  BY <1>2, <1>5, <2>1
<1>7. ASSUME r = y, e = "utf8"
      PROVE  r \in Seq(Octet) /\ \A i \in 1..a : i <= Len(r) => r[i] = t[i]
  <2>1. Encode(e, t) = UTF8(t)
    BY <1>7, EncodeIs, Zenon
  <2>2. Len(t) \in 0..Len(t) /\ SubSeq(t, 1, Len(t)) = t
    BY <1>1, TextParts
  <2>3. Bytes(t)[Len(t)] = UTF8(t) /\ UTF8(t) \in Seq(Octet)
    BY <1>2, <2>2, Zenon
  <2> DEFINE x == UTF8(t)
  <2>4. y = SubSeq(x, 1, n) /\ n \in 0..Len(x) /\ x \in Seq(Octet)
    BY <2>1, <2>3
  <2> HIDE DEF x
  <2>5. Len(y) = n /\ y \in Seq(Octet) /\ \A i \in 1..n : y[i] = x[i]
    BY <2>4, PrefixFacts
  <2>6. ASSUME NEW i \in 1..a, i <= Len(r) PROVE r[i] = t[i]
    <3>1. i \in 1..n /\ i <= Len(x) /\ x = Bytes(t)[Len(t)]
      BY <1>7, <2>3, <2>4, <2>5, <2>6 DEF x
    <3>2. x[i] = t[i]
      BY <1>5, <2>2, <3>1
    <3>. QED  BY <1>7, <2>5, <3>1, <3>2
  <2>. QED  BY <1>7, <2>5, <2>6
<1>8. ASSUME NEW m \in 1..Len(t), Wide(t[m]), r = UTF8(Append(SubSeq(t, 1, m - 1), Replacement))
      PROVE  r \in Seq(Octet) /\ \A i \in 1..a : i <= Len(r) => r[i] = t[i]
  <2>1. m - 1 \in 0..Len(t) /\ m \in 1..Len(t)
    BY <1>1
  <2>2. a <= m - 1
    <3>1. ~(t[m] < 128)
      <4>1. t[m] \in Scalar
        BY <1>1
      <4>. QED  BY <1>8, <4>1, SMT DEF Wide, Scalar
    <3>2. m \notin 1..a
      BY <3>1
    <3>. QED  BY <1>1, <3>2
  <2> DEFINE p == Bytes(t)[m - 1]
             w == AppendRune(Replacement)
  <2>3. Replacement \in Scalar
    BY SMT DEF Replacement, Scalar
  <2>4. w \in Seq(Octet)
    BY <2>3, RuneBytes
  <2>5. p \in Seq(Octet) /\ r = p \o w
    <3>1. SubSeq(t, 1, m - 1) \in Seq(Scalar)
      BY <2>1, TextParts
    <3>2. UTF8(Append(SubSeq(t, 1, m - 1), Replacement)) = UTF8(SubSeq(t, 1, m - 1)) \o w
      BY <2>3, <3>1, UTF8Append
    <3>. QED  BY <1>2, <1>8, <2>1, <3>2
  <2>6. Len(p) >= a
    <3>1. m - 1 <= a \/ Len(p) >= a
      BY <1>4, <2>1
    <3>2. a \in 0..Len(t) /\ a \in 0..a
      BY <1>1
    <3>3. m - 1 = a => Len(p) = a
      BY <1>3, <3>2
    <3>. QED  BY <1>1, <2>1, <2>2, <3>1, <3>2, <3>3
  <2>7. \A i \in 1..a : p[i] = t[i]
    <3> SUFFICES ASSUME NEW i \in 1..a PROVE p[i] = t[i]
      OBVIOUS
    <3>1. i <= m - 1
      BY <1>1, <2>1, <2>2
    <3>. QED  BY <1>3, <2>1, <3>1
  <2> HIDE DEF p, w
  <2>8. /\ p \o w \in Seq(Octet) /\ Len(p) \in Nat
        /\ \A i \in 1..Len(p) : (p \o w)[i] = p[i]
    BY <2>4, <2>5, ConcatFacts
  <2>9. \A i \in 1..a : i \in 1..Len(p)
    BY <1>1, <2>6, <2>8
  <2>. QED  BY <2>5, <2>7, <2>8, <2>9
<1>9. CASE r = y /\ e # "utf8" /\ Len(y) <= 1
  <2>1. ~(Len(r) >= 2)
    <3>1. Encode(e, t) \in Seq(Nat)
      BY <1>1, EncodeType
    <3> DEFINE x == Encode(e, t)
    <3> HIDE DEF x
    <3>2. x \in Seq(Nat) /\ n \in 0..Len(x) /\ y = SubSeq(x, 1, n)
      BY <3>1 DEF x
    <3>3. Len(y) = n /\ n \in Nat
      BY <3>2, PrefixFacts
    <3>. QED  BY <1>9, <3>3
  <2>. QED  BY <2>1
<1>10. r \in Seq(Octet) /\ \A i \in 1..a : i <= Len(r) => r[i] = t[i]
  <2>1. CASE \E m \in 0..Len(t) : y = Encode(e, SubSeq(t, 1, m)) /\ r = UTF8(SubSeq(t, 1, m))
    BY <1>6, <2>1
  <2>2. CASE \E m \in 1..Len(t) : /\ Wide(t[m]) /\ Len(y) = Len(Encode(e, SubSeq(t, 1, m))) - 2
                                   /\ r = UTF8(Append(SubSeq(t, 1, m - 1), Replacement))
    BY <1>8, <2>2
  <2>3. CASE r = y /\ (e = "utf8" \/ Len(y) <= 1)
    BY <1>7, <1>9, <2>3
  <2>. QED  BY <2>1, <2>2, <2>3, Zenon DEF ArrivedAs
<1>11. r \in Seq(Nat)
  BY <1>1, <1>10, SeqOfSuperset
<1>. QED  BY <1>10, <1>11, Zenon DEF SameTo

----------------------------------------------------------------------------
(* The root element, behind white space and a declaration                  *)

(* Part of a sequence, and part of that. *)
LEMMA SliceFacts ==
  ASSUME NEW S, NEW b \in Seq(S), NEW lo \in 1..(Len(b) + 1), NEW hi \in (lo - 1)..Len(b)
  PROVE  /\ SubSeq(b, lo, hi) \in Seq(S) /\ Len(SubSeq(b, lo, hi)) = hi - lo + 1
         /\ \A i \in 1..(hi - lo + 1) : SubSeq(b, lo, hi)[i] = b[lo + i - 1]
OBVIOUS

(* A part of a part is a part. *)
LEMMA SliceOfSlice ==
  ASSUME NEW S, NEW b \in Seq(S), NEW lo \in 1..(Len(b) + 1), NEW hi \in (lo - 1)..Len(b),
         NEW k \in 1..(hi - lo + 2), NEW l \in (k - 1)..(hi - lo + 1)
  PROVE  SubSeq(SubSeq(b, lo, hi), k, l) = SubSeq(b, lo + k - 1, lo + l - 1)
<1> DEFINE c == SubSeq(b, lo, hi)
           x == SubSeq(c, k, l)
           y == SubSeq(b, lo + k - 1, lo + l - 1)
<1>1. /\ c \in Seq(S) /\ Len(c) = hi - lo + 1
      /\ \A i \in 1..(hi - lo + 1) : c[i] = b[lo + i - 1]
  BY SliceFacts
<1> HIDE DEF c
<1>2. k \in 1..(Len(c) + 1) /\ l \in (k - 1)..Len(c)
  BY <1>1
<1>3. /\ x \in Seq(S) /\ Len(x) = l - k + 1
      /\ \A i \in 1..(l - k + 1) : x[i] = c[k + i - 1]
  BY <1>1, <1>2, SliceFacts
<1>4. lo + k - 1 \in 1..(Len(b) + 1) /\ lo + l - 1 \in ((lo + k - 1) - 1)..Len(b)
  OBVIOUS
<1>5. (lo + l - 1) - (lo + k - 1) + 1 = l - k + 1
  OBVIOUS
<1>6. /\ y \in Seq(S) /\ Len(y) = l - k + 1
      /\ \A i \in 1..(l - k + 1) : y[i] = b[(lo + k - 1) + i - 1]
  <2>1. /\ y \in Seq(S) /\ Len(y) = (lo + l - 1) - (lo + k - 1) + 1
        /\ \A i \in 1..((lo + l - 1) - (lo + k - 1) + 1) : y[i] = b[(lo + k - 1) + i - 1]
    BY <1>4, SliceFacts
  <2>. QED  BY <1>5, <2>1
<1>7. ASSUME NEW i \in 1..(l - k + 1) PROVE x[i] = y[i]
  <2>1. k + i - 1 \in 1..(hi - lo + 1) /\ lo + (k + i - 1) - 1 = (lo + k - 1) + i - 1
    OBVIOUS
  <2>. QED  BY <1>1, <1>3, <1>6, <2>1
<1> HIDE DEF x, y
<1>8. x = y
  BY <1>3, <1>6, <1>7
<1>. QED  BY <1>8 DEF x, y, c

(* The end of what is not white space. *)
LEMMA LastSolid ==
  ASSUME NEW b \in Seq(Nat), NEW lo \in 1..Len(b), b[lo] \notin Blank
  PROVE  \E hi \in lo..Len(b) : /\ b[hi] \notin Blank
                                /\ \A i \in (hi + 1)..Len(b) : b[i] \in Blank
<1> DEFINE L == Len(b)
           Back == {k \in 0..(L - lo) : b[L - k] \notin Blank}
<1>1. L \in Nat /\ lo \in Nat /\ lo <= L
  OBVIOUS
<1> HIDE DEF L
<1>2. L - lo \in Back /\ Back \in SUBSET Nat
  <2>1. L - lo \in 0..(L - lo) /\ L - (L - lo) = lo
    BY <1>1
  <2>. QED  BY <2>1
<1>3. PICK k \in Back : \A j \in Back : k <= j
  BY <1>2, LeastNumber
<1>4. L - k \in lo..L /\ b[L - k] \notin Blank
  BY <1>1
<1>5. ASSUME NEW i \in (L - k + 1)..L PROVE b[i] \in Blank
  <2>1. L - i \in 0..(L - lo) /\ L - (L - i) = i /\ ~(k <= L - i)
    BY <1>1, <1>4
  <2>. QED  BY <1>3, <2>1
<1>. QED  BY <1>4, <1>5 DEF L

(* The least and the greatest of a set of numbers. *)
LEMMA MinIs ==
  ASSUME NEW M, NEW x \in M, x \in Nat, \A y \in M : y \in Nat /\ x <= y
  PROVE  Min(M) = x
<1>1. \E z \in M : \A y \in M : z <= y
  OBVIOUS
<1>2. Min(M) \in M /\ \A y \in M : Min(M) <= y
  BY <1>1, Zenon DEF Min
<1> DEFINE z == Min(M)
<1> HIDE DEF z
<1>3. z \in M /\ z <= x
  BY <1>2 DEF z
<1>4. z \in Nat /\ x <= z
  BY <1>3
<1>5. z = x
  BY <1>3, <1>4
<1>. QED  BY <1>5 DEF z

(* The maximum is the member no other exceeds. *)
LEMMA MaxIs ==
  ASSUME NEW M, NEW x \in M, x \in Nat, \A y \in M : y \in Nat /\ y <= x
  PROVE  Max(M) = x
<1>1. \E z \in M : \A y \in M : z >= y
  OBVIOUS
<1>2. Max(M) \in M /\ \A y \in M : Max(M) >= y
  BY <1>1, Zenon DEF Max
<1> DEFINE z == Max(M)
<1> HIDE DEF z
<1>3. z \in M /\ z >= x
  BY <1>2 DEF z
<1>4. z \in Nat /\ z <= x
  BY <1>3
<1>5. z = x
  BY <1>3, <1>4
<1>. QED  BY <1>5 DEF z

(* TrimSpace takes the white space away at both ends and nothing else. *)
LEMMA TrimIs ==
  ASSUME NEW b \in Seq(Nat), NEW lo \in 1..Len(b), NEW hi \in lo..Len(b),
         b[lo] \notin Blank, b[hi] \notin Blank,
         \A i \in 1..(lo - 1) : b[i] \in Blank, \A i \in (hi + 1)..Len(b) : b[i] \in Blank
  PROVE  TrimSpace(b) = SubSeq(b, lo, hi)
<1> DEFINE solid == {i \in DOMAIN b : b[i] \notin Blank}
<1>1. /\ lo \in solid /\ hi \in solid /\ lo \in Nat /\ hi \in Nat
      /\ \A i \in solid : i \in Nat /\ lo <= i /\ i <= hi
  <2>1. DOMAIN b = 1..Len(b) /\ Len(b) \in Nat
    OBVIOUS
  <2>2. lo \in DOMAIN b /\ hi \in DOMAIN b
    BY <2>1
  <2>3. ASSUME NEW i \in solid PROVE i \in Nat /\ lo <= i /\ i <= hi
    <3>1. i \in 1..Len(b) /\ b[i] \notin Blank
      BY <2>1
    <3>2. ~(i \in 1..(lo - 1)) /\ ~(i \in (hi + 1)..Len(b))
      BY <3>1
    <3>. QED  BY <2>1, <3>1, <3>2
  <2>. QED  BY <2>2, <2>3
<1> HIDE DEF solid
<1>2. Min(solid) = lo
  BY <1>1, MinIs
<1>3. Max(solid) = hi
  BY <1>1, MaxIs
<1>4. solid # {}
  BY <1>1
<1>. QED  BY <1>2, <1>3, <1>4, Zenon DEF TrimSpace, Trim, solid

(* Of nothing but white space, TrimSpace leaves nothing. *)
LEMMA TrimNone ==
  ASSUME NEW b, \A i \in DOMAIN b : b[i] \in Blank
  PROVE  TrimSpace(b) = <<>>
<1>1. {i \in DOMAIN b : b[i] \notin Blank} = {}
  OBVIOUS
<1>. QED  BY <1>1, Zenon DEF TrimSpace, Trim

(* Two bytes at the start. *)
LEMMA TwoAtStart ==
  ASSUME NEW x, NEW y, NEW u \in Seq(Nat)
  PROVE  IsPrefix(<<x, y>>, u) <=> Len(u) >= 2 /\ u[1] = x /\ u[2] = y
<1>1. Len(<<x, y>>) = 2 /\ SubSeq(<<x, y>>, 1, 2) = <<x, y>> /\ Len(u) \in Nat
  <2> DEFINE w == <<x, y>>
  <2>1. w \in Seq({x, y}) /\ Len(w) = 2
    OBVIOUS
  <2> HIDE DEF w
  <2>2. SubSeq(w, 1, Len(w)) = w
    BY <2>1, PrefixFacts
  <2>3. Len(u) \in Nat
    OBVIOUS
  <2>. QED  BY <2>1, <2>2, <2>3 DEF w
<1>2. ASSUME Len(u) >= 2 PROVE SubSeq(u, 1, 2) = <<u[1], u[2]>>
  <2>1. 2 \in 0..Len(u)
    BY <1>2
  <2>2. /\ SubSeq(u, 1, 2) \in Seq(Nat) /\ Len(SubSeq(u, 1, 2)) = 2
        /\ \A i \in 1..2 : SubSeq(u, 1, 2)[i] = u[i]
    BY <2>1, PrefixFacts
  <2> DEFINE v == SubSeq(u, 1, 2)
  <2> HIDE DEF v
  <2>3. v \in Seq(Nat) /\ Len(v) = 2 /\ v[1] = u[1] /\ v[2] = u[2]
    BY <2>2 DEF v
  <2>4. v = <<v[1], v[2]>>
    BY <2>3
  <2>. QED  BY <2>3, <2>4 DEF v
<1>3. <<u[1], u[2]>> = <<x, y>> <=> u[1] = x /\ u[2] = y
  OBVIOUS
<1>4. IsPrefix(<<x, y>>, u) <=> 2 <= Len(u) /\ <<x, y>> = SubSeq(u, 1, 2)
  BY <1>1 DEF IsPrefix
<1>. QED  BY <1>1, <1>2, <1>3, <1>4

(* What SkipDeclaration skips: up to the first end of a declaration. *)
LEMMA SkipIs ==
  ASSUME NEW u \in Seq(Nat)
  PROVE  /\ ~(Len(u) >= 2 /\ u[1] = LT /\ u[2] = Question) => SkipDeclaration(u) = u
         /\ (\A k \in 1..(Len(u) - 1) : ~(u[k] = Question /\ u[k + 1] = GT)) => SkipDeclaration(u) = u
         /\ \A k \in 1..(Len(u) - 1) :
              /\ u[1] = LT /\ u[2] = Question /\ u[k] = Question /\ u[k + 1] = GT
              /\ \A j \in 1..(k - 1) : ~(u[j] = Question /\ u[j + 1] = GT)
              => SkipDeclaration(u) = TrimSpace(SubSeq(u, k + 2, Len(u)))
<1> DEFINE ends == {i \in 1..(Len(u) - 1) : u[i] = Question /\ u[i + 1] = GT}
<1>1. IsPrefix(<<LT, Question>>, u) <=> Len(u) >= 2 /\ u[1] = LT /\ u[2] = Question
  BY TwoAtStart
<1>2. ~IsPrefix(<<LT, Question>>, u) \/ ends = {} => SkipDeclaration(u) = u
  BY Zenon DEF SkipDeclaration
<1>3. (\A k \in 1..(Len(u) - 1) : ~(u[k] = Question /\ u[k + 1] = GT)) => ends = {}
  OBVIOUS
<1>4. ASSUME NEW k \in 1..(Len(u) - 1), u[1] = LT, u[2] = Question, u[k] = Question, u[k + 1] = GT,
             \A j \in 1..(k - 1) : ~(u[j] = Question /\ u[j + 1] = GT)
      PROVE  SkipDeclaration(u) = TrimSpace(SubSeq(u, k + 2, Len(u)))
  <2>1. k \in ends /\ k \in Nat /\ \A j \in ends : j \in Nat /\ k <= j
    <3>1. k \in ends
      BY <1>4
    <3>2. ASSUME NEW j \in ends PROVE j \in Nat /\ k <= j
      <4>1. j \in 1..(Len(u) - 1) /\ j \notin 1..(k - 1)
        BY <1>4
      <4>. QED  BY <4>1
    <3>. QED  BY <3>1, <3>2
  <2>2. Len(u) >= 2
    OBVIOUS
  <2> HIDE DEF ends
  <2>3. Min(ends) = k
    BY <2>1, MinIs
  <2>4. ends # {} /\ IsPrefix(<<LT, Question>>, u)
    BY <1>1, <1>4, <2>1, <2>2
  <2>. QED  BY <2>3, <2>4, Zenon DEF SkipDeclaration, ends
<1>. QED  BY <1>1, <1>2, <1>3, <1>4, Zenon

(* A text with its root element at n. *)
Rooted(t, n) ==
  /\ IsText(t) /\ n \in 1..Len(t) /\ n + 2 <= Len(t) /\ \A i \in 1..(n + 2) : t[i] < 128
  /\ IsProlog(t, n - 1) /\ t[n] = LT /\ t[n + 1] # Question

(* Bytes that start as that text does, up to the end of the root's name. *)
StartsAs(t, n, r) == r \in Seq(Nat) /\ \A i \in 1..(n + 2) : i <= Len(r) => r[i] = t[i]

(* A declaration from i to j, or as much of it as there is up to hi. *)
DeclaredUpTo(r, i, j, hi) ==
  /\ r[i] = LT /\ (i + 1 <= hi => r[i + 1] = Question)
  /\ \A p \in (i + 1)..(j - 1) : p + 1 <= hi =>
       ((r[p] = Question /\ r[p + 1] = GT) <=> p = j - 1)

(* At the start of bytes cut at hi, a declaration is skipped if it is there whole. *)
LEMMA DeclarationSkipped ==
  ASSUME NEW r \in Seq(Nat), NEW i \in 1..Len(r), NEW j \in Nat, NEW hi \in i..Len(r),
         i + 3 <= j, DeclaredUpTo(r, i, j, hi)
  PROVE  /\ j <= hi => SkipDeclaration(SubSeq(r, i, hi)) = TrimSpace(SubSeq(r, j + 1, hi))
         /\ hi < j => SkipDeclaration(SubSeq(r, i, hi)) = SubSeq(r, i, hi)
<1> DEFINE u == SubSeq(r, i, hi)
<1>1. i \in Nat /\ hi \in Nat /\ Len(r) \in Nat /\ i <= hi /\ hi <= Len(r) /\ LT # Question
  BY DEF LT, Question
<1>2. /\ u \in Seq(Nat) /\ Len(u) = hi - i + 1
      /\ \A k \in 1..(hi - i + 1) : u[k] = r[i + k - 1]
  <2>1. i \in 1..(Len(r) + 1) /\ hi \in (i - 1)..Len(r)
    BY <1>1
  <2>. QED  BY <2>1, SliceFacts
<1> HIDE DEF u
<1>3. u[1] = LT
  <2>1. 1 \in 1..(hi - i + 1) /\ i + 1 - 1 = i
    BY <1>1
  <2>. QED  BY <1>2, <2>1 DEF DeclaredUpTo
<1>4. ASSUME NEW k \in 1..(Len(u) - 1), i + k - 1 <= j - 1
      PROVE  (u[k] = Question /\ u[k + 1] = GT) <=> i + k - 1 = j - 1
  <2>1. /\ k \in 1..(hi - i + 1) /\ k + 1 \in 1..(hi - i + 1) /\ i + (k + 1) - 1 = (i + k - 1) + 1
        /\ k \in Nat /\ (i + k - 1) + 1 <= hi
    BY <1>1, <1>2
  <2>2. u[k] = r[i + k - 1] /\ u[k + 1] = r[(i + k - 1) + 1]
    BY <1>2, <2>1
  <2>3. CASE k = 1
    BY <1>1, <1>3, <2>1, <2>3
  <2>4. CASE k # 1
    <3>1. i + k - 1 \in (i + 1)..(j - 1)
      BY <1>1, <1>4, <2>1, <2>4
    <3>2. (r[i + k - 1] = Question /\ r[(i + k - 1) + 1] = GT) <=> i + k - 1 = j - 1
      BY <2>1, <3>1 DEF DeclaredUpTo
    <3>. QED  BY <2>2, <3>2
  <2>. QED  BY <2>3, <2>4
<1> DEFINE Ends(k) == u[k] = Question /\ u[k + 1] = GT
<1>e. \A k \in 1..(Len(u) - 1) : i + k - 1 <= j - 1 => (Ends(k) <=> i + k - 1 = j - 1)
  BY <1>4
<1>5. ASSUME hi < j PROVE SkipDeclaration(u) = u
  <2>1. ASSUME NEW k \in 1..(Len(u) - 1) PROVE ~(u[k] = Question /\ u[k + 1] = GT)
    <3>1. i + k - 1 <= j - 1 /\ i + k - 1 # j - 1
      BY <1>1, <1>2, <1>5
    <3>. QED  BY <1>4, <3>1
  <2>. QED  BY <1>2, <2>1, SkipIs
<1>6. ASSUME j <= hi PROVE SkipDeclaration(u) = TrimSpace(SubSeq(r, j + 1, hi))
  <2> DEFINE k == j - i
  <2>1. /\ k \in 1..(Len(u) - 1) /\ i + k - 1 = j - 1 /\ k \in Nat /\ k >= 3
        /\ k + 2 \in 1..(hi - i + 2) /\ hi - i + 1 \in ((k + 2) - 1)..(hi - i + 1)
        /\ i + (k + 2) - 1 = j + 1 /\ i + (hi - i + 1) - 1 = hi
    BY <1>1, <1>2, <1>6
  <2> HIDE DEF k
  <2>2. u[k] = Question /\ u[k + 1] = GT
    BY <1>1, <1>4, <2>1
  <2>3. ASSUME NEW m \in 1..(k - 1) PROVE ~(u[m] = Question /\ u[m + 1] = GT)
    <3>1. m \in 1..(Len(u) - 1) /\ i + m - 1 <= j - 1 /\ i + m - 1 # j - 1
      BY <1>1, <1>2, <2>1
    <3>2. ~Ends(m)
      <4> HIDE DEF Ends
      <4>. QED  BY <1>e, <3>1
    <3>. QED  BY <3>2
  <2>4. u[2] = Question
    <3>1. 2 \in 1..(hi - i + 1) /\ i + 2 - 1 = i + 1 /\ i + 1 <= hi
      BY <1>1, <1>6
    <3>. QED  BY <1>2, <3>1 DEF DeclaredUpTo
  <2>5. SkipDeclaration(u) = TrimSpace(SubSeq(u, k + 2, Len(u)))
    BY <1>2, <1>3, <2>1, <2>2, <2>3, <2>4, SkipIs
  <2>6. SubSeq(u, k + 2, Len(u)) = SubSeq(r, j + 1, hi)
    <3>1. i \in 1..(Len(r) + 1) /\ hi \in (i - 1)..Len(r)
      BY <1>1
    <3>2. SubSeq(SubSeq(r, i, hi), k + 2, hi - i + 1) = SubSeq(r, i + (k + 2) - 1, i + (hi - i + 1) - 1)
      BY <2>1, <3>1, SliceOfSlice
    <3>. QED  BY <1>2, <2>1, <3>2 DEF u
  <2>. QED  BY <2>5, <2>6
<1>. QED  BY <1>5, <1>6 DEF u

(* White space from one place to another, as far as the bytes go. *)
BlankIn(r, from, to) == \A p \in from..to : p <= Len(r) => r[p] \in Blank

(* A declaration from i to j, with white space before it and up to n after it. *)
DeclaredIn(r, i, j, n) ==
  /\ i + 3 <= j /\ BlankIn(r, 1, i - 1) /\ BlankIn(r, j + 1, n)
  /\ i <= Len(r) => DeclaredUpTo(r, i, j, Len(r))

(* What comes before the root: white space, or a declaration within it. *)
LEMMA PrologOf ==
  ASSUME NEW t, NEW n, Rooted(t, n), NEW r, StartsAs(t, n, r)
  PROVE  BlankIn(r, 1, n - 1) \/ \E i, j \in 1..(n - 1) : DeclaredIn(r, i, j, n - 1)
<1>1. n \in Nat /\ n >= 1 /\ Len(r) \in Nat
  BY DEF Rooted, StartsAs
<1>2. \A p \in 1..n : p <= Len(r) => r[p] = t[p]
  BY <1>1 DEF StartsAs
<1>3. CASE AllBlank(t, 1, n - 1)
  BY <1>1, <1>2, <1>3 DEF AllBlank, BlankIn
<1>4. CASE \E i, j \in 1..(n - 1) :
             AllBlank(t, 1, i - 1) /\ IsDeclaration(t, i, j) /\ AllBlank(t, j + 1, n - 1)
  <2>1. PICK i \in 1..(n - 1), j \in 1..(n - 1) :
             AllBlank(t, 1, i - 1) /\ IsDeclaration(t, i, j) /\ AllBlank(t, j + 1, n - 1)
    BY <1>4
  <2>2. /\ i + 3 <= j /\ t[i] = LT /\ t[i + 1] = Question
        /\ \A p \in (i + 1)..(j - 1) : (t[p] = Question /\ t[p + 1] = GT) <=> p = j - 1
    BY <2>1 DEF IsDeclaration
  <2>3. BlankIn(r, 1, i - 1)
    BY <1>1, <1>2, <2>1 DEF AllBlank, BlankIn
  <2>4. BlankIn(r, j + 1, n - 1)
    BY <1>1, <1>2, <2>1 DEF AllBlank, BlankIn
  <2>5. (i <= Len(r) => r[i] = LT) /\ (i + 1 <= Len(r) => r[i + 1] = Question)
    BY <1>1, <1>2, <2>2
  <2>6. ASSUME NEW p \in (i + 1)..(j - 1), p + 1 <= Len(r)
        PROVE  (r[p] = Question /\ r[p + 1] = GT) <=> p = j - 1
    <3>1. p \in 1..n /\ p + 1 \in 1..n /\ p <= Len(r)
      BY <1>1, <2>6
    <3>2. r[p] = t[p] /\ r[p + 1] = t[p + 1]
      BY <1>2, <2>6, <3>1
    <3>. QED  BY <2>2, <3>2
  <2>7. i <= Len(r) => DeclaredUpTo(r, i, j, Len(r))
    BY <2>5, <2>6 DEF DeclaredUpTo
  <2>. QED  BY <2>2, <2>3, <2>4, <2>7 DEF DeclaredIn
<1>. QED  BY <1>3, <1>4 DEF Rooted, IsProlog

(* The document without its declaration is the root element and what follows it,
   up to the last byte that is not white space. *)
LEMMA RootFound ==
  ASSUME NEW t, NEW n, Rooted(t, n), NEW r, StartsAs(t, n, r), n <= Len(r)
  PROVE  \E hi \in n..Len(r) :
           /\ \A i \in (hi + 1)..Len(r) : r[i] \in Blank
           /\ SkipDeclaration(TrimSpace(r)) = SubSeq(r, n, hi)
<1>1. /\ n \in Nat /\ n >= 1 /\ Len(r) \in Nat /\ r \in Seq(Nat) /\ n \in 1..Len(r)
      /\ LT \notin Blank
  BY DEF Rooted, StartsAs, LT, Blank
<1>2. r[n] = LT /\ (n + 1 <= Len(r) => r[n + 1] # Question)
  <2>1. n \in 1..(n + 2) /\ n + 1 \in 1..(n + 2)
    BY <1>1
  <2>. QED  BY <1>1, <2>1 DEF Rooted, StartsAs
<1>3. PICK hi \in n..Len(r) : r[hi] \notin Blank /\ \A i \in (hi + 1)..Len(r) : r[i] \in Blank
  BY <1>1, <1>2, LastSolid
<1>4. CASE BlankIn(r, 1, n - 1)
  <2>1. \A i \in 1..(n - 1) : r[i] \in Blank
    BY <1>1, <1>4 DEF BlankIn
  <2> DEFINE u == SubSeq(r, n, hi)
  <2>2. TrimSpace(r) = u
    BY <1>1, <1>2, <1>3, <2>1, TrimIs
  <2>3. /\ u \in Seq(Nat) /\ Len(u) = hi - n + 1
        /\ \A i \in 1..(hi - n + 1) : u[i] = r[n + i - 1]
    <3>1. n \in 1..(Len(r) + 1) /\ hi \in (n - 1)..Len(r)
      BY <1>1
    <3>. QED  BY <1>1, <3>1, SliceFacts
  <2> HIDE DEF u
  <2>4. ~(Len(u) >= 2 /\ u[1] = LT /\ u[2] = Question)
    <3> SUFFICES ASSUME Len(u) >= 2 PROVE u[2] # Question
      OBVIOUS
    <3>1. 2 \in 1..(hi - n + 1) /\ n + 2 - 1 = n + 1 /\ n + 1 <= Len(r)
      BY <1>1, <2>3
    <3>. QED  BY <1>2, <2>3, <3>1
  <2>5. SkipDeclaration(u) = u
    BY <2>3, <2>4, SkipIs
  <2>. QED  BY <1>3, <2>2, <2>5 DEF u
<1>5. CASE \E i, j \in 1..(n - 1) : DeclaredIn(r, i, j, n - 1)
  <2>1. PICK i \in 1..(n - 1), j \in 1..(n - 1) : DeclaredIn(r, i, j, n - 1)
    BY <1>5
  <2>2. /\ i \in Nat /\ j \in Nat /\ hi \in Nat /\ i \in 1..Len(r) /\ hi \in i..Len(r)
        /\ i + 3 <= j /\ j < n /\ n <= hi /\ hi <= Len(r) /\ i >= 1
    BY <1>1, <2>1 DEF DeclaredIn
  <2>3. DeclaredUpTo(r, i, j, Len(r))
    BY <2>1, <2>2 DEF DeclaredIn
  <2>4. DeclaredUpTo(r, i, j, hi) /\ r[i] = LT
    <3>1. r[i] = LT
      BY <2>3 DEF DeclaredUpTo
    <3>2. i + 1 <= hi => r[i + 1] = Question
      BY <1>1, <2>2, <2>3 DEF DeclaredUpTo
    <3>3. ASSUME NEW p \in (i + 1)..(j - 1), p + 1 <= hi
          PROVE  (r[p] = Question /\ r[p + 1] = GT) <=> p = j - 1
      <4>1. p + 1 <= Len(r)
        BY <1>1, <2>2, <3>3
      <4>. QED  BY <2>3, <4>1 DEF DeclaredUpTo
    <3>. QED  BY <3>1, <3>2, <3>3 DEF DeclaredUpTo
  <2>5. \A p \in 1..(i - 1) : r[p] \in Blank
    BY <1>1, <2>1, <2>2 DEF DeclaredIn, BlankIn
  <2>6. TrimSpace(r) = SubSeq(r, i, hi)
    <3>1. r[i] \notin Blank
      BY <1>1, <2>4
    <3>. QED  BY <1>1, <1>3, <2>2, <2>5, <3>1, TrimIs
  <2>7. SkipDeclaration(SubSeq(r, i, hi)) = TrimSpace(SubSeq(r, j + 1, hi))
    <3>1. j <= hi
      BY <1>1, <2>2
    <3>. QED  BY <1>1, <2>2, <2>4, <3>1, DeclarationSkipped
  <2> DEFINE v == SubSeq(r, j + 1, hi)
  <2>8. /\ j + 1 \in 1..(Len(r) + 1) /\ hi \in ((j + 1) - 1)..Len(r) /\ hi - (j + 1) + 1 = hi - j
        /\ \A p \in Nat : (j + 1) + p - 1 = j + p
    BY <1>1, <2>2
  <2>9. /\ v \in Seq(Nat) /\ Len(v) = hi - j
        /\ \A p \in 1..(hi - j) : v[p] = r[j + p]
    <3>1. /\ v \in Seq(Nat) /\ Len(v) = hi - (j + 1) + 1
          /\ \A p \in 1..(hi - (j + 1) + 1) : v[p] = r[(j + 1) + p - 1]
      <4>1. j + 1 \in 1..(Len(r) + 1) /\ hi \in ((j + 1) - 1)..Len(r)
        BY <2>8
      <4>. QED  BY <1>1, <4>1, SliceFacts
    <3>. QED  BY <2>8, <3>1
  <2>10. /\ n - j \in 1..Len(v) /\ hi - j \in (n - j)..Len(v) /\ Len(v) = hi - j
         /\ j + (n - j) = n /\ j + (hi - j) = hi
    <3>1. Len(v) = hi - j
      BY <2>9
    <3>2. n \in Nat
      BY <2>2, <1>1
    <3>3. /\ n - j \in 1..(hi - j) /\ hi - j \in (n - j)..(hi - j)
          /\ j + (n - j) = n /\ j + (hi - j) = hi
      BY <2>2, <3>2
    <3>. QED  BY <3>1, <3>3
  <2>11. v[n - j] \notin Blank /\ v[hi - j] \notin Blank
    <3>1. n - j \in 1..(hi - j) /\ hi - j \in 1..(hi - j)
      BY <2>2, <1>1
    <3>2. v[n - j] = r[n] /\ v[hi - j] = r[hi]
      BY <2>9, <2>10, <3>1
    <3>. QED  BY <1>1, <1>2, <1>3, <3>2
  <2>12. \A p \in 1..((n - j) - 1) : v[p] \in Blank
    <3> SUFFICES ASSUME NEW p \in 1..((n - j) - 1) PROVE v[p] \in Blank
      OBVIOUS
    <3>1. p \in 1..(hi - j) /\ j + p \in (j + 1)..(n - 1) /\ j + p <= Len(r)
      BY <1>1, <2>2
    <3>2. r[j + p] \in Blank
      BY <2>1, <3>1 DEF DeclaredIn, BlankIn
    <3>. QED  BY <2>9, <3>1, <3>2
  <2>13. \A p \in ((hi - j) + 1)..Len(v) : v[p] \in Blank
    BY <2>9, <2>2
  <2> HIDE DEF v
  <2>14. TrimSpace(v) = SubSeq(v, n - j, hi - j)
    BY <2>9, <2>10, <2>11, <2>12, <2>13, TrimIs
  <2>15. SubSeq(v, n - j, hi - j) = SubSeq(r, n, hi)
    <3>1. /\ n - j \in 1..(hi - (j + 1) + 2) /\ hi - j \in ((n - j) - 1)..(hi - (j + 1) + 1)
          /\ (j + 1) + (n - j) - 1 = n /\ (j + 1) + (hi - j) - 1 = hi
      BY <1>1, <2>2
    <3>2. SubSeq(SubSeq(r, j + 1, hi), n - j, hi - j)
            = SubSeq(r, (j + 1) + (n - j) - 1, (j + 1) + (hi - j) - 1)
      BY <1>1, <2>8, <3>1, SliceOfSlice
    <3>. QED  BY <3>1, <3>2 DEF v
  <2>. QED  BY <1>3, <2>6, <2>7, <2>14, <2>15 DEF v
<1>. QED  BY <1>4, <1>5, PrologOf

(* Bytes that end before the root element have no root. *)
LEMMA RootMissing ==
  ASSUME NEW t, NEW n, Rooted(t, n), NEW r, StartsAs(t, n, r), ~(n <= Len(r)),
         NEW name, name # Question
  PROVE  ~RootIs(r, name)
<1> DEFINE d == SkipDeclaration(TrimSpace(r))
<1>1. n \in Nat /\ n >= 1 /\ Len(r) \in Nat /\ r \in Seq(Nat) /\ Len(r) <= n - 1
      /\ LT \notin Blank
  BY DEF Rooted, StartsAs, LT, Blank
<1>2. ASSUME d \in Seq(Nat), ~(Len(d) >= 2) \/ d[2] = Question PROVE ~RootIs(r, name)
  <2>1. ~IsPrefix(<<LT, name>>, d)
    BY <1>2, TwoAtStart
  <2>. QED  BY <2>1 DEF RootIs
<1>3. SkipDeclaration(<<>>) = <<>> /\ <<>> \in Seq(Nat) /\ ~(Len(<<>>) >= 2)
  <2>1. <<>> \in Seq(Nat) /\ ~(Len(<<>>) >= 2)
    OBVIOUS
  <2>. QED  BY <2>1, SkipIs
<1>4. ASSUME \A i \in 1..Len(r) : r[i] \in Blank PROVE ~RootIs(r, name)
  <2>1. \A i \in DOMAIN r : r[i] \in Blank
    BY <1>1, <1>4
  <2>2. d = <<>>
    BY <1>3, <2>1, TrimNone
  <2>. QED  BY <1>2, <1>3, <2>2
<1>5. CASE BlankIn(r, 1, n - 1)
  <2>1. \A i \in 1..Len(r) : r[i] \in Blank
    BY <1>1, <1>5 DEF BlankIn
  <2>. QED  BY <1>4, <2>1
<1>6. CASE \E i, j \in 1..(n - 1) : DeclaredIn(r, i, j, n - 1)
  <2>1. PICK i \in 1..(n - 1), j \in 1..(n - 1) : DeclaredIn(r, i, j, n - 1)
    BY <1>6
  <2>2. i \in Nat /\ j \in Nat /\ i >= 1 /\ i + 3 <= j /\ j <= n - 1
    BY <1>1, <2>1 DEF DeclaredIn
  <2>3. CASE Len(r) < i
    <3>1. \A p \in 1..Len(r) : r[p] \in Blank
      BY <1>1, <2>1, <2>2, <2>3 DEF DeclaredIn, BlankIn
    <3>. QED  BY <1>4, <3>1
  <2>4. CASE i <= Len(r)
    <3>1. DeclaredUpTo(r, i, j, Len(r)) /\ i \in 1..Len(r)
      BY <1>1, <2>1, <2>2, <2>4 DEF DeclaredIn
    <3>2. r[i] = LT /\ (i + 1 <= Len(r) => r[i + 1] = Question)
      BY <3>1 DEF DeclaredUpTo
    <3>3. PICK hi \in i..Len(r) : r[hi] \notin Blank /\ \A p \in (hi + 1)..Len(r) : r[p] \in Blank
      BY <1>1, <3>1, <3>2, LastSolid
    <3>4. hi \in Nat /\ i <= hi /\ hi <= Len(r)
      BY <1>1, <2>2
    <3>5. TrimSpace(r) = SubSeq(r, i, hi)
      <4>1. \A p \in 1..(i - 1) : r[p] \in Blank
        BY <1>1, <2>1, <2>2, <2>4 DEF DeclaredIn, BlankIn
      <4>2. r[i] \notin Blank
        BY <1>1, <3>2
      <4>. QED  BY <1>1, <3>1, <3>3, <4>1, <4>2, TrimIs
    <3>6. DeclaredUpTo(r, i, j, hi)
      <4>1. i + 1 <= hi => r[i + 1] = Question
        BY <1>1, <2>2, <3>2, <3>4
      <4>2. ASSUME NEW p \in (i + 1)..(j - 1), p + 1 <= hi
            PROVE  (r[p] = Question /\ r[p + 1] = GT) <=> p = j - 1
        <5>1. p + 1 <= Len(r)
          BY <1>1, <2>2, <3>4, <4>2
        <5>. QED  BY <3>1, <5>1 DEF DeclaredUpTo
      <4>. QED  BY <3>2, <4>1, <4>2 DEF DeclaredUpTo
    <3> DEFINE u == SubSeq(r, i, hi)
    <3>7. /\ u \in Seq(Nat) /\ Len(u) = hi - i + 1
          /\ \A k \in 1..(hi - i + 1) : u[k] = r[i + k - 1]
      <4>1. i \in 1..(Len(r) + 1) /\ hi \in (i - 1)..Len(r)
        BY <1>1, <2>2, <3>4
      <4>. QED  BY <1>1, <4>1, SliceFacts
    <3>8. j <= hi => SkipDeclaration(u) = TrimSpace(SubSeq(r, j + 1, hi))
      BY <1>1, <2>2, <3>1, <3>6, DeclarationSkipped
    <3>9. hi < j => SkipDeclaration(u) = u
      BY <1>1, <2>2, <3>1, <3>6, DeclarationSkipped
    <3>10. CASE hi < j
      <4>1. d = u
        BY <3>5, <3>9, <3>10
      <4> HIDE DEF u
      <4>2. Len(u) >= 2 => u[2] = Question
        <5> SUFFICES ASSUME Len(u) >= 2 PROVE u[2] = Question
          OBVIOUS
        <5>1. 2 \in 1..(hi - i + 1) /\ i + 2 - 1 = i + 1 /\ i + 1 <= Len(r)
          BY <1>1, <2>2, <3>4, <3>7
        <5>. QED  BY <3>2, <3>7, <5>1
      <4>. QED  BY <1>2, <3>7, <4>1, <4>2
    <3>11. CASE j <= hi
      <4> DEFINE v == SubSeq(r, j + 1, hi)
      <4>1. j + 1 \in 1..(Len(r) + 1) /\ hi \in ((j + 1) - 1)..Len(r)
        BY <1>1, <2>2, <3>4, <3>11
      <4>2. /\ v \in Seq(Nat) /\ Len(v) = hi - (j + 1) + 1
            /\ \A p \in 1..(hi - (j + 1) + 1) : v[p] = r[(j + 1) + p - 1]
        BY <1>1, <4>1, SliceFacts
      <4> HIDE DEF v
      <4>3. ASSUME NEW p \in DOMAIN v PROVE v[p] \in Blank
        <5>1. p \in 1..(hi - (j + 1) + 1)
          BY <4>2
        <5>2. (j + 1) + p - 1 \in (j + 1)..(n - 1) /\ (j + 1) + p - 1 <= Len(r)
          <6>1. p \in Nat /\ p >= 1 /\ p <= hi - (j + 1) + 1
            BY <2>2, <3>4, <5>1
          <6>2. hi <= n - 1 /\ n \in Nat /\ Len(r) \in Nat
            BY <1>1, <3>4
          <6>. QED  BY <2>2, <3>4, <6>1, <6>2
        <5>3. r[(j + 1) + p - 1] \in Blank
          BY <2>1, <5>2 DEF DeclaredIn, BlankIn
        <5>. QED  BY <4>2, <5>1, <5>3
      <4>4. TrimSpace(v) = <<>>
        BY <4>3, TrimNone
      <4>5. d = <<>>
        BY <3>5, <3>8, <3>11, <4>4 DEF v
      <4>. QED  BY <1>2, <1>3, <4>5
    <3>. QED  BY <1>1, <2>2, <3>4, <3>10, <3>11
  <2>. QED  BY <1>1, <2>2, <2>3, <2>4
<1>. QED  BY <1>5, <1>6, PrologOf

(* The root element from n on, as far as rootIs looks at it. *)
HasRoot(r, n, name) ==
  /\ n + 2 <= Len(r) /\ r[n + 1] = name /\ r[n + 2] \in NameEnd
  /\ \E q \in (n + 2)..Len(r) : r[q] = GT

(* What rootIs looks at is the root element, whatever comes before and after it. *)
LEMMA RootAt ==
  ASSUME NEW t, NEW n, Rooted(t, n), NEW r, StartsAs(t, n, r), NEW name, name # Question
  PROVE  RootIs(r, name) <=> HasRoot(r, n, name)
<1>1. n \in Nat /\ n >= 1 /\ Len(r) \in Nat /\ r \in Seq(Nat)
  BY DEF Rooted, StartsAs
<1>2. CASE ~(n <= Len(r))
  <2>1. ~RootIs(r, name)
    BY <1>2, RootMissing
  <2>2. ~(n + 2 <= Len(r))
    BY <1>1, <1>2
  <2>. QED  BY <2>1, <2>2 DEF HasRoot
<1>3. CASE n <= Len(r)
  <2>1. PICK hi \in n..Len(r) : /\ \A i \in (hi + 1)..Len(r) : r[i] \in Blank
                                /\ SkipDeclaration(TrimSpace(r)) = SubSeq(r, n, hi)
    BY <1>3, RootFound
  <2> DEFINE d == SubSeq(r, n, hi)
             z == SubSeq(d, 3, Len(d))
  <2>2. n \in 1..(Len(r) + 1) /\ hi \in (n - 1)..Len(r) /\ hi \in Nat /\ n <= hi /\ hi <= Len(r)
    BY <1>1, <2>1
  <2>3. /\ d \in Seq(Nat) /\ Len(d) = hi - n + 1
        /\ \A i \in 1..(hi - n + 1) : d[i] = r[n + i - 1]
    BY <1>1, <2>2, SliceFacts
  <2>4. r[n] = LT
    <3>1. n \in 1..(n + 2)
      BY <1>1
    <3>. QED  BY <1>3, <3>1 DEF Rooted, StartsAs
  <2>5. GT \notin Blank
    BY DEF GT, Blank
  <2>6. ASSUME NEW q \in (n + 2)..Len(r), r[q] = GT PROVE q <= hi
    <3>1. q \notin (hi + 1)..Len(r)
      BY <2>1, <2>5, <2>6
    <3>. QED  BY <1>1, <2>2, <3>1
  <2>7. RootIs(r, name) <=> /\ IsPrefix(<<LT, name>>, d) /\ Len(d) > 2
                            /\ d[3] \in NameEnd /\ Contains(z, GT)
    BY <2>1, Zenon DEF RootIs, NameEnd
  <2> HIDE DEF d
  <2>8. IsPrefix(<<LT, name>>, d) <=> Len(d) >= 2 /\ d[1] = LT /\ d[2] = name
    BY <2>3, TwoAtStart
  <2>9. CASE ~(n + 2 <= hi)
    <3>1. ~(Len(d) > 2)
      BY <1>1, <2>2, <2>3, <2>9
    <3>2. ~ \E q \in (n + 2)..Len(r) : r[q] = GT
      BY <1>1, <2>2, <2>6, <2>9
    <3>. QED  BY <2>7, <3>1, <3>2, Zenon DEF HasRoot
  <2>10. CASE n + 2 <= hi
    <3>0. Len(d) > 2 /\ Len(d) >= 2 /\ n + 2 <= Len(r)
      <4>1. hi - n + 1 > 2 /\ hi - n + 1 >= 2 /\ n + 2 <= Len(r)
        BY <1>1, <2>2, <2>10
      <4>. QED  BY <2>3, <4>1, Zenon
    <3>1. /\ 1 \in 1..(hi - n + 1) /\ 2 \in 1..(hi - n + 1) /\ 3 \in 1..(hi - n + 1)
          /\ n + 1 - 1 = n /\ n + 2 - 1 = n + 1 /\ n + 3 - 1 = n + 2
      BY <1>1, <2>2, <2>10
    <3>2. d[1] = LT /\ d[2] = r[n + 1] /\ d[3] = r[n + 2]
      BY <2>3, <2>4, <3>1
    <3>3. z \in Seq(Nat) /\ Len(z) = hi - n - 1 /\ \A i \in 1..(hi - n - 1) : z[i] = r[n + i + 1]
      <4>1. 3 \in 1..(Len(d) + 1) /\ Len(d) \in (3 - 1)..Len(d) /\ Len(d) - 3 + 1 = hi - n - 1
        <5> DEFINE L == hi - n + 1
        <5>1. Len(d) = L
          BY <2>3
        <5>2. 3 \in 1..(L + 1) /\ L \in (3 - 1)..L /\ L - 3 + 1 = hi - n - 1
          BY <1>1, <2>2, <2>10
        <5>. QED  BY <5>1, <5>2, Zenon
      <4>2. /\ z \in Seq(Nat) /\ Len(z) = Len(d) - 3 + 1
            /\ \A i \in 1..(Len(d) - 3 + 1) : z[i] = d[3 + i - 1]
        <5>1. d \in Seq(Nat) /\ 3 \in 1..(Len(d) + 1) /\ Len(d) \in (3 - 1)..Len(d)
          BY <2>3, <4>1
        <5>. QED  BY <5>1, SliceFacts
      <4> HIDE DEF z
      <4>3. ASSUME NEW i \in 1..(hi - n - 1) PROVE z[i] = r[n + i + 1]
        <5>1. 3 + i - 1 \in 1..(hi - n + 1) /\ n + (3 + i - 1) - 1 = n + i + 1
          BY <1>1, <2>2
        <5>2. z[i] = d[3 + i - 1]
          BY <4>1, <4>2
        <5>. QED  BY <2>3, <5>1, <5>2
      <4>. QED  BY <4>1, <4>2, <4>3
    <3> HIDE DEF z
    <3>4. Contains(z, GT) <=> \E i \in 1..Len(z) : z[i] = GT
      BY DEF Contains
    <3>5. ASSUME NEW i \in 1..Len(z), z[i] = GT PROVE \E q \in (n + 2)..Len(r) : r[q] = GT
      <4>1. n + i + 1 \in (n + 2)..Len(r) /\ i \in 1..(hi - n - 1)
        BY <1>1, <2>2, <3>3
      <4>. QED  BY <3>3, <3>5, <4>1
    <3>6. ASSUME NEW q \in (n + 2)..Len(r), r[q] = GT PROVE \E i \in 1..Len(z) : z[i] = GT
      <4>1. q <= hi /\ q \in Nat
        BY <1>1, <2>6, <3>6
      <4>2. q - n - 1 \in 1..(hi - n - 1) /\ n + (q - n - 1) + 1 = q
        BY <1>1, <2>2, <4>1
      <4>. QED  BY <3>3, <3>6, <4>2
    <3>7. Contains(z, GT) <=> \E q \in (n + 2)..Len(r) : r[q] = GT
      BY <3>4, <3>5, <3>6
    <3>. QED  BY <2>7, <2>8, <3>0, <3>2, <3>7, Zenon DEF HasRoot
  <2>. QED  BY <2>9, <2>10
<1>. QED  BY <1>2, <1>3

(* A single byte has no root. *)
LEMMA TooShortForRoot ==
  ASSUME NEW r \in Seq(Nat), ~(Len(r) >= 2), NEW name
  PROVE  ~RootIs(r, name)
<1>1. Len(r) \in Nat
  OBVIOUS
<1>2. ASSUME NEW u, TrimSpace(r) = u, u \in Seq(Nat), ~(Len(u) >= 2) PROVE ~RootIs(r, name)
  <2>1. SkipDeclaration(u) = u
    BY <1>2, SkipIs
  <2>2. ~IsPrefix(<<LT, name>>, u)
    BY <1>2, TwoAtStart
  <2>. QED  BY <1>2, <2>1, <2>2, Zenon DEF RootIs
<1>3. CASE \A i \in DOMAIN r : r[i] \in Blank
  <2>1. TrimSpace(r) = <<>>
    BY <1>3, TrimNone
  <2>2. <<>> \in Seq(Nat) /\ ~(Len(<<>>) >= 2)
    OBVIOUS
  <2>. QED  BY <1>2, <2>1, <2>2
<1>4. CASE \E i \in DOMAIN r : r[i] \notin Blank
  <2>1. Len(r) = 1 /\ 1 \in 1..Len(r) /\ r[1] \notin Blank
    <3>1. PICK i \in DOMAIN r : r[i] \notin Blank
      BY <1>4
    <3>2. i \in 1..Len(r)
      BY <3>1
    <3> DEFINE L == Len(r)
    <3>3. L \in Nat /\ ~(L >= 2) /\ i \in 1..L
      BY <1>1, <3>2
    <3> HIDE DEF L
    <3>4. L = 1 /\ i = 1
      BY <3>3
    <3>. QED  BY <3>1, <3>2, <3>4 DEF L
  <2> DEFINE one == Len(r)
  <2>2. /\ one \in 1..Len(r) /\ one \in one..Len(r) /\ r[one] \notin Blank
        /\ (\A i \in 1..(one - 1) : r[i] \in Blank) /\ (\A i \in (one + 1)..Len(r) : r[i] \in Blank)
    BY <2>1
  <2>3. TrimSpace(r) = r
    <3>1. SubSeq(r, one, one) = r
      BY <2>1, PrefixFacts
    <3> HIDE DEF one
    <3>2. TrimSpace(r) = SubSeq(r, one, one)
      BY <2>2, TrimIs
    <3>. QED  BY <3>1, <3>2
  <2>. QED  BY <1>2, <2>3
<1>. QED  BY <1>3, <1>4

(* What arrived is bytes. *)
LEMMA ArrivedType ==
  ASSUME NEW t, IsText(t), NEW e \in Encodings, NEW y, NEW r, ArrivedAs(e, t, y, r),
         NEW n \in 0..Len(Encode(e, t)), y = SubSeq(Encode(e, t), 1, n)
  PROVE  r \in Seq(Nat)
<1>1. t \in Seq(Scalar) /\ Len(t) \in Nat /\ \A m \in 0..Len(t) : SubSeq(t, 1, m) \in Seq(Scalar)
  BY TextParts
<1>2. Replacement \in Scalar
  BY SMT DEF Replacement, Scalar
<1>3. ASSUME NEW s \in Seq(Scalar) PROVE UTF8(s) \in Seq(Nat)
  <2>1. UTF8(s) \in Seq(Octet)
    BY <1>2, UTF8Append
  <2>2. Octet \in SUBSET Nat
    BY DEF Octet
  <2>. QED  BY <2>1, <2>2, SeqOfSuperset
<1>4. y \in Seq(Nat)
  <2>1. Encode(e, t) \in Seq(Nat)
    BY <1>1, EncodeType
  <2>. QED  BY <2>1, PrefixFacts
<1>5. ASSUME NEW m \in 1..Len(t), r = UTF8(Append(SubSeq(t, 1, m - 1), Replacement))
      PROVE  r \in Seq(Nat)
  <2>1. m - 1 \in 0..Len(t)
    BY <1>1
  <2> DEFINE s == SubSeq(t, 1, m - 1)
  <2>2. s \in Seq(Scalar)
    BY <1>1, <2>1
  <2> HIDE DEF s
  <2>3. Append(s, Replacement) \in Seq(Scalar)
    BY <1>2, <2>2
  <2>. QED  BY <1>3, <1>5, <2>3 DEF s
<1>6. ASSUME NEW m \in 0..Len(t), r = UTF8(SubSeq(t, 1, m)) PROVE r \in Seq(Nat)
  BY <1>1, <1>3, <1>6
<1>. QED  BY <1>4, <1>5, <1>6, Zenon DEF ArrivedAs

(* The root element of a document from n to m, as IsDocument has it. *)
Placed(d, n, m) ==
  /\ Rooted(d.text, n) /\ m \in 1..Len(d.text) /\ n + 2 <= m /\ IsRoot(d, n, m)
  /\ \A c \in 1..Len(d.text) : d.text[c] = GT => c <= m
  /\ RootEnd(d.text) = m

(* Every document has one, and its end is the last tag's. *)
LEMMA RootOfDocument ==
  ASSUME NEW d \in Documents
  PROVE  \E n, m \in Nat : Placed(d, n, m)
<1> DEFINE t == d.text
<1>1. IsDocument(d)
  BY DeliveryAssumption
<1>2. IsText(t)
  BY <1>1 DEF IsDocument
<1>3. Len(t) \in Nat /\ DOMAIN t = 1..Len(t)
  <2>1. t \in Seq(Nat)
    BY SMT, <1>2 DEF IsText
  <2>. QED  BY <2>1
<1>4. PICK n \in DOMAIN t, m \in DOMAIN t :
        /\ n + 2 <= m /\ \A i \in 1..(n + 2) : t[i] < 128
        /\ IsProlog(t, n - 1) /\ IsRoot(d, n, m) /\ AllBlank(t, m + 1, Len(t))
  BY <1>1, Zenon DEF IsDocument
<1>5. n \in Nat /\ m \in Nat /\ n \in 1..Len(t) /\ m \in 1..Len(t) /\ n + 2 <= Len(t)
  BY <1>3, <1>4
<1>6. t[n] = LT /\ t[n + 1] # Question /\ t[m] = GT
  BY <1>4 DEF IsRoot
<1>7. Rooted(t, n)
  BY <1>2, <1>4, <1>5, <1>6 DEF Rooted
<1>8. ASSUME NEW c \in 1..Len(t), t[c] = GT PROVE c <= m
  <2>1. GT \notin Blank
    BY DEF GT, Blank
  <2>2. c \notin (m + 1)..Len(t)
    BY <1>4, <1>8, <2>1 DEF AllBlank
  <2>. QED  BY <1>3, <1>5, <2>2
<1>9. RootEnd(t) = m
  <2> DEFINE M == {i \in DOMAIN t : t[i] = GT}
  <2>1. m \in M /\ m \in Nat /\ \A c \in M : c \in Nat /\ c <= m
    BY <1>3, <1>5, <1>6, <1>8
  <2> HIDE DEF M
  <2>2. Max(M) = m
    BY <2>1, MaxIs
  <2>. QED  BY <2>2, Zenon DEF RootEnd, M
<1>10. Placed(d, n, m)
  BY <1>4, <1>5, <1>7, <1>8, <1>9, Zenon DEF Placed
<1>. QED  BY <1>5, <1>10

(* Each name is that of one root element, and none is "?". *)
LEMMA RootNames ==
  /\ \A d, e \in Named \cup {"EventBatch", "CEEEvent"} : Root(d) = Root(e) => d = e
  /\ \A d \in Named : Root(d) # Question
  /\ "Other" \notin Named \cup {"EventBatch", "CEEEvent"}
<1>1. /\ Root("RegisterRequest") = 82 /\ Root("HeartBeatRequest") = 72
      /\ Root("CheckFileRequest") = 70 /\ Root("CheckEventRequest") = 69
      /\ Root("EventBatch") = 66 /\ Root("CEEEvent") = 67
  BY Zenon DEF Root
<1>. QED  BY <1>1, SMT DEF Named, Question

(* The root that is found is the one the document has. *)
LEMMA RootIsDocuments ==
  ASSUME NEW d \in Documents, NEW n \in Nat, NEW m \in Nat, Placed(d, n, m),
         NEW r, StartsAs(d.text, n, r), NEW name \in Named, RootIs(r, Root(name))
  PROVE  d.root = name /\ HasRoot(r, n, Root(name))
<1>1. Rooted(d.text, n) /\ IsRoot(d, n, m)
  BY DEF Placed
<1>2. Root(name) # Question
  BY RootNames
<1>3. HasRoot(r, n, Root(name))
  BY <1>1, <1>2, RootAt
<1>4. n + 1 \in 1..(n + 2) /\ n + 2 \in 1..(n + 2) /\ n + 1 <= Len(r) /\ n + 2 <= Len(r)
  <2>1. n + 2 <= Len(r) /\ Len(r) \in Nat
    BY <1>3 DEF HasRoot, StartsAs
  <2>. QED  BY <2>1
<1>5. d.text[n + 1] = Root(name) /\ d.text[n + 2] \in NameEnd
  BY <1>3, <1>4 DEF HasRoot, StartsAs
<1>6. d.root # "Other"
  BY <1>1, <1>5, Zenon DEF IsRoot
<1>7. d.text[n + 1] = Root(d.root)
  BY <1>1, <1>6, Zenon DEF IsRoot
<1>8. d.root \in Named \cup {"EventBatch", "CEEEvent"}
  <2>1. d.root \in Named \cup {"EventBatch", "CEEEvent", "Other"}
    BY DeliveryAssumption DEF IsDocument
  <2>. QED  BY <1>6, <2>1
<1>. QED  BY <1>3, <1>5, <1>7, <1>8, RootNames

(* Part of a text in an encoding, and what is read of it. *)
Arrival(t, e, y, r) ==
  /\ IsText(t) /\ e \in Encodings /\ ArrivedAs(e, t, y, r)
  /\ \E k \in 0..Len(Encode(e, t)) : y = SubSeq(Encode(e, t), 1, k)

(* No tag that ends at byte q ends before character m. *)
NoEarlier(t, q, m) == \A c \in 1..Len(t) : q = Len(Bytes(t)[c]) /\ t[c] = GT => c >= m

(* Once the end of the root element is read it had arrived. *)
LEMMA EndArrived ==
  ASSUME NEW d, NEW n \in Nat, NEW m \in Nat, Placed(d, n, m),
         NEW e, NEW y, NEW r, Arrival(d.text, e, y, r), Len(r) >= 2,
         NEW q \in 1..Len(r), r[q] = GT, NoEarlier(d.text, q, m)
  PROVE  Len(Encode(e, SubSeq(d.text, 1, m))) <= Len(y)
<1> DEFINE t == d.text
<1>1. IsText(t) /\ e \in Encodings /\ ArrivedAs(e, t, y, r)
  BY DEF Arrival
<1>2. PICK k \in 0..Len(Encode(e, t)) : y = SubSeq(Encode(e, t), 1, k)
  BY Zenon DEF Arrival
<1>3. PICK c \in 1..Len(t) : /\ t[c] = GT /\ q = Len(Bytes(t)[c])
                             /\ Len(Encode(e, SubSeq(t, 1, c))) <= Len(y)
  <2> HIDE DEF t
  <2>1. TagEnd(e, t, y, q)
    BY <1>1, <1>2, GTArrived
  <2>. QED  BY <2>1, Zenon DEF TagEnd
<1>4. c >= m
  BY <1>3 DEF NoEarlier
<1>5. c <= m /\ c \in Nat
  <2>1. Len(t) \in Nat
    BY <1>1, TextParts
  <2>. QED  BY <1>3, <2>1 DEF Placed
<1>6. c = m
  BY <1>4, <1>5
<1>. QED  BY <1>3, <1>6, Zenon

(* A handshake that was recognised had arrived to the end of its element. *)
LEMMA HandshakeArrived ==
  ASSUME NEW d \in Documents, NEW n \in Nat, NEW m \in Nat, Placed(d, n, m),
         NEW e, NEW y, NEW r, Arrival(d.text, e, y, r), StartsAs(d.text, n, r), Len(r) >= 2,
         NEW name \in {"RegisterRequest", "HeartBeatRequest"}, RootIs(r, Root(name))
  PROVE  Len(Encode(e, SubSeq(d.text, 1, m))) <= Len(y)
<1> DEFINE t == d.text
<1>1. name \in Named
  BY DEF Named
<1>2. d.root = name /\ HasRoot(r, n, Root(name))
  BY <1>1, RootIsDocuments
<1>3. PICK q \in (n + 2)..Len(r) : r[q] = GT
  BY <1>2 DEF HasRoot
<1>4. /\ IsText(t) /\ n + 2 <= Len(t) /\ \A i \in 1..(n + 2) : t[i] < 128
      /\ IsRoot(d, n, m)
  BY DEF Placed, Rooted
<1>5. Len(t) \in Nat /\ Len(r) \in Nat /\ n + 2 \in 0..Len(t)
  <2>1. Len(t) \in Nat
    BY <1>4, TextParts
  <2>2. Len(r) \in Nat
    BY DEF StartsAs
  <2>. QED  BY <1>4, <2>1, <2>2
<1>6. \A i \in (n + 2)..(m - 1) : t[i] # GT
  BY <1>2, <1>4, Zenon DEF IsRoot
<1>7. \A i \in 0..(n + 2) : Len(Bytes(t)[i]) = i
  <2> HIDE DEF t
  <2>. QED  BY <1>4, <1>5, AsciiStart
<1>8. ASSUME NEW c \in 1..Len(t), q = Len(Bytes(t)[c]) /\ t[c] = GT PROVE c >= m
  <2>1. c >= n + 2
    <3> SUFFICES ASSUME c < n + 2 PROVE FALSE
      BY <1>5
    <3>1. c \in 0..(n + 2)
      BY <1>5
    <3>2. q = c
      BY <1>7, <1>8, <3>1
    <3>3. q >= n + 2
      BY <1>3, <1>5
    <3>. QED  BY <1>5, <3>2, <3>3
  <2>2. c \notin (n + 2)..(m - 1)
    BY <1>6, <1>8
  <2>. QED  BY <1>5, <2>1, <2>2
<1>9. q \in 1..Len(r)
  BY <1>3, <1>5
<1>10. NoEarlier(t, q, m)
  BY <1>8 DEF NoEarlier
<1>. QED  BY <1>3, <1>9, <1>10, EndArrived

(* So had a document that xml.Unmarshal can read. *)
LEMMA DocumentArrived ==
  ASSUME NEW d, NEW n \in Nat, NEW m \in Nat, Placed(d, n, m),
         NEW e, NEW y, NEW r, Arrival(d.text, e, y, r), r \in Seq(Nat),
         IsPrefix(UTF8(SubSeq(d.text, 1, m)), r)
  PROVE  Len(Encode(e, SubSeq(d.text, 1, m))) <= Len(y)
<1> DEFINE t == d.text
           b == Bytes(t)
           q == Len(b[m])
<1>1. IsText(t) /\ m \in 1..Len(t) /\ n + 2 <= m /\ n >= 1 /\ t[m] = GT
  BY DEF Placed, Rooted, IsRoot
<1>2. Len(t) \in Nat /\ m \in 0..Len(t) /\ m \in 1..m /\ IsGrowth(b, Len(t)) /\ 0 \in 0..Len(t)
  <2>1. Len(t) \in Nat
    BY <1>1, TextParts
  <2>. QED  BY <1>1, <2>1, UTF8Grows
<1>3. t[m] < 128
  BY <1>1, SMT DEF GT
<1>4. b[m][q] = GT /\ q \in 1..Len(b[m])
  <2> HIDE DEF t
  <2>. QED  BY <1>1, <1>2, <1>3, CharIsByte
<1>5. \A c \in 0..Len(t) : b[c] \in Seq(Nat) /\ Len(b[c]) \in Nat
  BY <1>2 DEF IsGrowth
<1>6. q >= 2
  <2>1. Len(b[0]) + (m - 0) <= Len(b[m])
    <3> HIDE DEF b, t
    <3>1. 0 <= m
      BY <1>2
    <3>. QED  BY <1>2, <3>1, Grows
  <2>. QED  BY <1>1, <1>2, <1>5, <2>1
<1>7. b[m] = UTF8(SubSeq(t, 1, m))
  BY <1>2 DEF Bytes
<1>8. Len(b[m]) <= Len(r) /\ b[m] = SubSeq(r, 1, Len(b[m]))
  <2> DEFINE x == b[m]
  <2>1. x \in Seq(Nat) /\ IsPrefix(x, r)
    BY <1>2, <1>5, <1>7
  <2> HIDE DEF x
  <2>2. SubSeq(x, 1, Len(x)) = x
    BY <2>1, PrefixFacts
  <2>3. Len(x) <= Len(r) /\ x = SubSeq(r, 1, Len(x))
    BY <2>1, <2>2 DEF IsPrefix
  <2>. QED  BY <2>3 DEF x
<1>9. Len(r) >= 2 /\ q \in 1..Len(r) /\ r[q] = GT
  <2>1. Len(r) \in Nat /\ q \in Nat
    BY <1>2, <1>5
  <2>2. q \in 0..Len(r) /\ q \in 1..q /\ q \in 1..Len(r) /\ Len(r) >= 2
    BY <1>6, <1>8, <2>1
  <2>3. \A i \in 1..q : SubSeq(r, 1, q)[i] = r[i]
    <3> HIDE DEF q
    <3>. QED  BY <2>2, PrefixFacts
  <2>. QED  BY <1>4, <1>8, <2>2, <2>3
<1>10. ASSUME NEW c \in 1..Len(t), q = Len(b[c]) /\ t[c] = GT PROVE c >= m
  <2> SUFFICES ASSUME c < m PROVE FALSE
    BY <1>2
  <2>1. c \in 0..Len(t) /\ c <= m
    BY <1>2
  <2>2. Len(b[c]) + (m - c) <= Len(b[m])
    <3> HIDE DEF b, t
    <3>. QED  BY <1>2, <2>1, Grows
  <2>. QED  BY <1>2, <1>5, <1>10, <2>1, <2>2
<1>11. NoEarlier(t, q, m)
  BY <1>10 DEF NoEarlier
<1> HIDE DEF q
<1>. QED  BY <1>9, <1>11, EndArrived

(* What was decoded is what arrived of the document. *)
LEMMA DecodedArrived ==
  ASSUME TransitInv, pc \in {"dispatch", "enqueue", "done"}, decoded.ok
  PROVE  Arrival(doc.text, enc, body, decoded.bytes) /\ decoded.bytes \in Seq(Nat)
<1> DEFINE t == doc.text
<1>1. IsText(t) /\ t # <<>> /\ t[1] < 128 /\ enc \in Encodings
  BY TextOfDocument DEF TransitInv
<1>2. PICK k \in 0..Len(Encode(enc, t)) : body = SubSeq(Encode(enc, t), 1, k)
  BY DEF TransitInv
<1>3. decoded = DecodeBody(body)
  BY DEF TransitInv
<1>4. BodyRead(enc, t, body)
  <2> HIDE DEF t
  <2>. QED  BY <1>1, <1>2, CutBody
<1>5. ArrivedAs(enc, t, body, decoded.bytes)
  BY <1>3, <1>4, Zenon DEF BodyRead
<1>6. decoded.bytes \in Seq(Nat)
  <2> HIDE DEF t
  <2>. QED  BY <1>1, <1>2, <1>5, ArrivedType
<1>7. Arrival(t, enc, body, decoded.bytes)
  BY <1>1, <1>2, <1>5, Zenon DEF Arrival
<1>. QED  BY <1>6, <1>7

(* Up to the name of its root what arrived is what was sent. *)
LEMMA StartArrived ==
  ASSUME NEW d, NEW n \in Nat, NEW m \in Nat, Placed(d, n, m),
         NEW e, NEW y, NEW r, Arrival(d.text, e, y, r), Len(r) >= 2
  PROVE  StartsAs(d.text, n, r)
<1> DEFINE t == d.text
<1>1. IsText(t) /\ e \in Encodings /\ ArrivedAs(e, t, y, r)
  BY DEF Arrival
<1>2. PICK k \in 0..Len(Encode(e, t)) : y = SubSeq(Encode(e, t), 1, k)
  BY Zenon DEF Arrival
<1>3. n + 2 <= Len(t) /\ \A i \in 1..(n + 2) : t[i] < 128
  BY DEF Placed, Rooted
<1>4. n + 2 \in 0..Len(t)
  <2>1. Len(t) \in Nat
    BY <1>1, TextParts
  <2>. QED  BY <1>3, <2>1
<1>5. r \in Seq(Nat) /\ \A i \in 1..(n + 2) : i <= Len(r) => r[i] = t[i]
  <2> DEFINE a == n + 2
  <2>1. a \in 0..Len(t) /\ \A i \in 1..a : t[i] < 128
    BY <1>3, <1>4
  <2> HIDE DEF t, a
  <2>2. SameTo(t, a, r)
    BY <1>1, <1>2, <2>1, AsciiArrived
  <2>. QED  BY <2>2, Zenon DEF SameTo, a
<1>. QED  BY <1>5 DEF StartsAs

(* Of a payload cut before the end of its root element no handshake is counted
   and no event is made: rootIs wants the tag closed, and the parsers the element
   (classify.go, rootIs; checkevent.go, onefs.go, parser.go). *)
THEOREM CutMakesNothing == Spec => []TruncatedMakesNothing
<1>1. EventsInv /\ TransitInv => TruncatedMakesNothing
  <2> SUFFICES ASSUME EventsInv, TransitInv, pc = "done", ~Complete
               PROVE  counted = "nothing" /\ records = <<>>
    BY DEF TruncatedMakesNothing
  <2>1. doc \in Documents
    BY DEF TransitInv
  <2>2. PICK n \in Nat, m \in Nat : Placed(doc, n, m)
    BY <2>1, RootOfDocument
  <2>3. RootEnd(doc.text) = m
    BY <2>2 DEF Placed
  <2>4. Arrival(doc.text, enc, body, decoded.bytes) => body \in Seq(Nat)
    <3> DEFINE x == Encode(enc, doc.text)
    <3> SUFFICES ASSUME Arrival(doc.text, enc, body, decoded.bytes) PROVE body \in Seq(Nat)
      OBVIOUS
    <3>1. PICK k \in 0..Len(x) : body = SubSeq(x, 1, k)
      BY Zenon DEF Arrival
    <3>2. IsText(doc.text) /\ enc \in Encodings
      BY DEF Arrival
    <3>3. doc.text \in Seq(Scalar)
      BY <3>2, TextParts
    <3>4. x \in Seq(Nat)
      BY <3>2, <3>3, EncodeType
    <3> HIDE DEF x
    <3>. QED  BY <3>1, <3>4, PrefixFacts
  <2>5. ~(Len(Encode(enc, SubSeq(doc.text, 1, m))) <= Len(body))
    <3> DEFINE a == Len(Encode(enc, SubSeq(doc.text, 1, m)))
               z == Len(body)
    <3>1. ~(z >= a)
      BY <2>3 DEF Complete, Before
    <3> HIDE DEF a, z
    <3>2. a <= z <=> z >= a
      OBVIOUS
    <3>. QED  BY <3>1, <3>2 DEF a, z
  <2>6. ASSUME decoded.ok PROVE \A root : ~Unmarshal(root).ok
    <3> SUFFICES ASSUME NEW root, Unmarshal(root).ok PROVE FALSE
      OBVIOUS
    <3>1. IsPrefix(UTF8(SubSeq(doc.text, 1, m)), decoded.bytes)
      BY <2>3, Zenon DEF Unmarshal
    <3>2. Arrival(doc.text, enc, body, decoded.bytes) /\ decoded.bytes \in Seq(Nat)
      BY <2>6, DecodedArrived
    <3>. QED  BY <2>2, <2>5, <3>1, <3>2, DocumentArrived
  <2>7. ~parsed.ok
    <3>1. parsed.ok => decoded.ok /\ \E root : Unmarshal(root).ok
      BY DEF TransitInv
    <3>. QED  BY <2>6, <3>1, Zenon
  <2>8. records = <<>>
    BY <2>7, Zenon DEF EventsInv
  <2>9. ASSUME decoded.ok, NEW name \in {"RegisterRequest", "HeartBeatRequest"}
        PROVE  ~RootIs(decoded.bytes, Root(name))
    <3>1. Arrival(doc.text, enc, body, decoded.bytes) /\ decoded.bytes \in Seq(Nat)
      BY <2>9, DecodedArrived
    <3>2. CASE ~(Len(decoded.bytes) >= 2)
      BY <3>1, <3>2, TooShortForRoot
    <3>3. CASE Len(decoded.bytes) >= 2
      <4>1. StartsAs(doc.text, n, decoded.bytes)
        BY <2>2, <3>1, <3>3, StartArrived
      <4>. QED  BY <2>1, <2>2, <2>5, <3>1, <3>3, <4>1, HandshakeArrived
    <3>. QED  BY <3>2, <3>3
  <2>10. counted = "nothing"
    <3>1. CASE ~decoded.ok
      BY <3>1 DEF TransitInv
    <3>2. CASE decoded.ok
      <4>1. Outcome /\ dialect = ClassifyDecoded(decoded.bytes)
        BY <3>2 DEF TransitInv
      <4>2. dialect \in Named \cup {"Unknown"}
            /\ (dialect \in Named => RootIs(decoded.bytes, Root(dialect)))
        BY <4>1, DialectOf
      <4>3. dialect \notin {"RegisterRequest", "HeartBeatRequest"}
        <5>1. {"RegisterRequest", "HeartBeatRequest"} \subseteq Named
          BY DEF Named
        <5>. QED  BY <2>9, <3>2, <4>2, <5>1, Zenon
      <4>4. CheckFileAction # OneFSHeartbeatAction
        <5>1. ~Unmarshal("CheckFileRequest").ok
          BY <2>6, <3>2, Zenon
        <5>2. Unmarshal("CheckFileRequest").action = ""
          BY <5>1 DEF Unmarshal
        <5>. QED  BY <5>2 DEF CheckFileAction, OneFSHeartbeatAction
      <4>5. dialect \in {"CheckFileRequest", "CheckEventRequest", "Unknown"}
        BY <4>2, <4>3 DEF Named
      <4>. QED  BY <4>1, <4>4, <4>5 DEF Outcome
    <3>. QED  BY <3>1, <3>2
  <2>. QED  BY <2>8, <2>10
<1>. QED  BY <1>1, EventsInductive, TransitInductive, PTL

----------------------------------------------------------------------------
(* What is answered to a whole payload                                     *)

(* The reply is in UTF-16 if and only if the payload of these publishers was. *)
LEMMA ReplyEncoding ==
  ASSUME NEW t, IsText(t), t # <<>>, t[1] < 128
  PROVE  /\ ~IsUTF16(Encode("utf8", t))
         /\ IsUTF16(Encode("utf16le", t)) /\ IsUTF16(Encode("utf16leMark", t))
<1> DEFINE y == EncodeUTF16LE(t)
           u == UTF8(t)
<1>1. t \in Seq(Scalar) /\ Len(t) \in Nat
  BY TextParts
<1>2. ~IsUTF16(u)
  <2>1. 1 \in Scalar
    BY SMT DEF Scalar
  <2>2. u \in Seq(Octet)
    BY <1>1, <2>1, UTF8Append
  <2> HIDE DEF u
  <2>3. Len(u) >= 2 => u[1] > 0 /\ u[1] < 248 /\ u[2] > 0 /\ u[1] \in Nat /\ u[2] \in Nat
    BY <2>2 DEF Octet
  <2>4. ~StartsWith(u, 255, 254) /\ ~StartsWith(u, 254, 255)
    BY <2>3 DEF StartsWith
  <2>5. ~ZeroIsSecond(u) /\ ~ZeroIsFirst(u)
    BY <2>3 DEF ZeroIsSecond, ZeroIsFirst
  <2>. QED  BY <2>4, <2>5, Zenon DEF IsUTF16
<1>3. Units(t) \in Seq(CodeUnit) /\ Carries(y, Units(t), TRUE)
  BY <1>1, LittleEndian, EncodersCarry
<1>4. y \in Seq(Nat)
  BY <1>3, Zenon DEF Carries
<1>5. IsUTF16(y)
  <2>1. t[1] < 256
    <3>1. 1 \in 1..Len(t) /\ t \in Seq(Nat)
      BY SMT, <1>1 DEF IsText
    <3>2. t[1] \in Nat
      BY <3>1
    <3>. QED  BY <3>2
  <2>2. Len(y) >= 2 /\ y[1] = t[1] /\ y[2] = 0 /\ t[1] \in Nat /\ 0 < t[1]
    BY <2>1, FirstBytes
  <2>3. ZeroIsSecond(y)
    BY <2>2 DEF ZeroIsSecond
  <2>. QED  BY <2>3, Zenon DEF IsUTF16
<1> HIDE DEF y
<1> DEFINE z == <<255, 254>> \o y
<1>6. IsUTF16(z)
  <2>1. Len(z) = Len(y) + 2 /\ z[1] = 255 /\ z[2] = 254
    BY <1>4, TwoBefore
  <2>2. Len(y) \in Nat
    BY <1>4
  <2> HIDE DEF z
  <2>3. StartsWith(z, 255, 254)
    BY <2>1, <2>2 DEF StartsWith
  <2>. QED  BY <2>3, Zenon DEF IsUTF16
<1>7. Encode("utf8", t) = u /\ Encode("utf16le", t) = y
  BY EncodeIs, Zenon DEF y
<1>8. Encode("utf16leMark", t) = z
  BY EncodeIs, Zenon DEF y
<1> HIDE DEF u, z
<1>. QED  BY <1>2, <1>5, <1>6, <1>7, <1>8, Zenon

(* In the whole of a document its root is found, and no other. *)
LEMMA RootOfWhole ==
  ASSUME NEW d \in Documents, NEW name \in Named
  PROVE  RootIs(UTF8(d.text), Root(name)) <=> d.root = name
<1> DEFINE t == d.text
           b == Bytes(t)
           r == UTF8(t)
<1>1. PICK n \in Nat, m \in Nat : Placed(d, n, m)
  BY RootOfDocument
<1>2. /\ IsText(t) /\ m \in 1..Len(t) /\ n + 2 <= m /\ n >= 1 /\ t[m] = GT
      /\ Rooted(t, n) /\ IsRoot(d, n, m) /\ \A i \in 1..(n + 2) : t[i] < 128
  <2>1. Rooted(t, n) /\ m \in 1..Len(t) /\ n + 2 <= m /\ IsRoot(d, n, m)
    BY <1>1, Zenon DEF Placed
  <2>2. IsText(t) /\ n \in 1..Len(t) /\ \A i \in 1..(n + 2) : t[i] < 128
    BY <2>1, Zenon DEF Rooted
  <2>3. t[m] = GT
    BY <2>1, Zenon DEF IsRoot
  <2>4. n >= 1
    BY <2>2
  <2>. QED  BY <2>1, <2>2, <2>3, <2>4, Zenon
<1>3. /\ Len(t) \in Nat /\ IsGrowth(b, Len(t)) /\ 0 \in 0..Len(t) /\ Len(t) \in 0..Len(t)
      /\ m \in 0..Len(t) /\ n + 2 \in 0..Len(t) /\ SubSeq(t, 1, Len(t)) = t
  <2>1. Len(t) \in Nat /\ SubSeq(t, 1, Len(t)) = t
    BY <1>2, TextParts
  <2>2. IsGrowth(b, Len(t))
    BY <1>2, UTF8Grows
  <2>. QED  BY <1>2, <2>1, <2>2
<1>4. \A k \in 0..Len(t) : b[k] = UTF8(SubSeq(t, 1, k)) /\ b[k] \in Seq(Nat) /\ Len(b[k]) \in Nat
  <2>1. \A k \in 0..Len(t) : b[k] = UTF8(SubSeq(t, 1, k))
    BY DEF Bytes
  <2> HIDE DEF b
  <2>2. \A k \in 0..Len(t) : b[k] \in Seq(Nat)
    BY <1>3 DEF IsGrowth
  <2>. QED  BY <2>1, <2>2
<1> HIDE DEF b
<1>5. b[Len(t)] = r
  BY <1>3, <1>4, Zenon
<1> HIDE DEF r
<1>6. Len(r) >= Len(t) /\ r \in Seq(Nat) /\ Len(r) \in Nat /\ Len(b[m]) >= m
  <2>1. 0 <= Len(t) /\ 0 <= m
    BY <1>3
  <2>2. Len(b[0]) + (Len(t) - 0) <= Len(b[Len(t)]) /\ Len(b[0]) + (m - 0) <= Len(b[m])
    BY <1>3, <2>1, Grows
  <2>3. Len(b[0]) \in Nat /\ Len(b[m]) \in Nat /\ r \in Seq(Nat) /\ Len(r) \in Nat
    BY <1>3, <1>4, <1>5
  <2>4. \A p, q, k \in Nat : p + (k - 0) <= q => q >= k
    OBVIOUS
  <2>. QED  BY <1>3, <1>5, <2>2, <2>3, <2>4
<1>7. SameTo(t, n + 2, r)
  <2>1. \A k \in 0..Len(t) : \A i \in 1..(n + 2) : i <= k => b[k][i] = t[i]
    <3> DEFINE a == n + 2
    <3>1. a \in 0..Len(t) /\ \A i \in 1..a : t[i] < 128
      BY <1>2, <1>3
    <3> HIDE DEF a, t
    <3>2. IsText(t)
      BY <1>2
    <3>3. \A k \in 0..Len(t) : \A i \in 1..a : i <= k => Bytes(t)[k][i] = t[i]
      BY <3>1, <3>2, AsciiStart
    <3>. QED  BY <3>3 DEF a, b
  <2>2. \A i \in 1..(n + 2) : i <= Len(t)
    BY <1>3
  <2>. QED  BY <1>3, <1>5, <1>6, <2>1, <2>2 DEF SameTo
<1>8. StartsAs(t, n, r)
  BY <1>7 DEF SameTo, StartsAs
<1>9. ASSUME RootIs(r, Root(name)) PROVE d.root = name
  BY <1>1, <1>8, <1>9, RootIsDocuments
<1>10. ASSUME d.root = name PROVE RootIs(r, Root(name))
  <2>1. d.root # "Other"
    BY <1>10 DEF Named
  <2>2. t[n + 1] = Root(name) /\ t[n + 2] \in NameEnd
    BY <1>2, <1>10, <2>1, Zenon DEF IsRoot
  <2>3. n + 1 \in 1..(n + 2) /\ n + 2 \in 1..(n + 2) /\ n + 1 <= Len(r) /\ n + 2 <= Len(r)
    BY <1>3, <1>6
  <2>4. r[n + 1] = Root(name) /\ r[n + 2] \in NameEnd
    BY <1>7, <2>2, <2>3 DEF SameTo
  <2>5. r[Len(b[m])] = GT /\ Len(b[m]) \in 1..Len(r)
    <3>1. t[m] < 128 /\ m \in 1..Len(t)
      BY <1>2, SMT DEF GT
    <3>2. Len(b[m]) \in 1..Len(b[Len(t)]) /\ b[Len(t)][Len(b[m])] = t[m]
      <4> HIDE DEF t
      <4>. QED  BY <1>2, <1>3, <3>1, CharIsByte DEF b
    <3>. QED  BY <1>2, <1>5, <3>2
  <2>6. Len(b[m]) \in (n + 2)..Len(r)
    BY <1>2, <1>3, <1>6, <2>5
  <2>7. HasRoot(r, n, Root(name))
    BY <2>3, <2>4, <2>5, <2>6 DEF HasRoot
  <2>8. Root(name) # Question
    BY RootNames
  <2>. QED  BY <1>2, <1>8, <2>7, <2>8, RootAt
<1>. QED  BY <1>9, <1>10 DEF r

(* So it is classified by the name of its root. *)
LEMMA DialectOfWhole ==
  ASSUME NEW d \in Documents
  PROVE  /\ d.root \in Named => ClassifyDecoded(UTF8(d.text)) = d.root
         /\ d.root \notin Named => ClassifyDecoded(UTF8(d.text)) = "Unknown"
<1> DEFINE c == ClassifyDecoded(UTF8(d.text))
<1>1. c \in Named \cup {"Unknown"} /\ (c \in Named => RootIs(UTF8(d.text), Root(c)))
  BY DialectOf
<1>2. c \in Named => d.root = c
  BY <1>1, RootOfWhole
<1>3. ASSUME d.root \in Named PROVE c \in Named
  <2>1. RootIs(UTF8(d.text), Root(d.root))
    BY <1>3, RootOfWhole
  <2>2. c = CHOOSE x \in Named : RootIs(UTF8(d.text), Root(x))
    BY <1>3, <2>1, Zenon DEF ClassifyDecoded
  <2>3. (CHOOSE x \in Named : RootIs(UTF8(d.text), Root(x))) \in Named
    BY <1>3, <2>1, Zenon
  <2>. QED  BY <2>2, <2>3, Zenon
<1>. QED  BY <1>1, <1>2, <1>3, Zenon

(* A document that arrived whole can be read. *)
LEMMA WholeIsRead ==
  ASSUME doc \in Documents, decoded.bytes = UTF8(doc.text), doc.declaration # "refused"
  PROVE  Unmarshal(doc.root).ok /\ Unmarshal(doc.root).action = doc.action
<1> DEFINE t == doc.text
           b == Bytes(t)
<1>1. PICK n \in Nat, m \in Nat : Placed(doc, n, m)
  BY RootOfDocument
<1>2. RootEnd(t) = m /\ m \in 1..Len(t) /\ IsText(t)
  BY <1>1 DEF Placed, Rooted
<1>3. Len(t) \in Nat /\ IsGrowth(b, Len(t)) /\ Len(t) \in 0..Len(t) /\ m \in 0..Len(t) /\ m <= Len(t)
      /\ SubSeq(t, 1, Len(t)) = t
  <2>1. Len(t) \in Nat /\ SubSeq(t, 1, Len(t)) = t
    BY <1>2, TextParts
  <2>2. IsGrowth(b, Len(t))
    BY <1>2, UTF8Grows
  <2>. QED  BY <1>2, <2>1, <2>2
<1>4. \A k \in 0..Len(t) : b[k] = UTF8(SubSeq(t, 1, k)) /\ b[k] \in Seq(Nat) /\ Len(b[k]) \in Nat
  <2>1. \A k \in 0..Len(t) : b[k] = UTF8(SubSeq(t, 1, k))
    BY DEF Bytes
  <2> HIDE DEF b
  <2>2. \A k \in 0..Len(t) : b[k] \in Seq(Nat)
    BY <1>3 DEF IsGrowth
  <2>. QED  BY <2>1, <2>2
<1> HIDE DEF b
<1>5. /\ Len(b[m]) + (Len(t) - m) <= Len(b[Len(t)])
      /\ \A i \in 1..Len(b[m]) : b[Len(t)][i] = b[m][i]
  <2> DEFINE L == Len(t)
  <2>1. L \in Nat /\ IsGrowth(b, L) /\ L \in 0..L /\ m \in 0..L /\ m <= L
    BY <1>3
  <2> HIDE DEF L
  <2>2. Len(b[m]) + (L - m) <= Len(b[L]) /\ \A i \in 1..Len(b[m]) : b[L][i] = b[m][i]
    BY <2>1, Grows
  <2>. QED  BY <2>2 DEF L
<1> DEFINE x == b[m]
           r == b[Len(t)]
<1>6. x \in Seq(Nat) /\ r \in Seq(Nat) /\ Len(x) \in 0..Len(r) /\ \A i \in 1..Len(x) : r[i] = x[i]
  <2>1. x \in Seq(Nat) /\ r \in Seq(Nat) /\ Len(x) \in Nat /\ Len(r) \in Nat
    BY <1>3, <1>4
  <2>2. Len(t) - m \in Nat
    BY <1>3
  <2>3. \A p, q, k \in Nat : p + k <= q => p \in 0..q
    OBVIOUS
  <2>4. Len(x) \in 0..Len(r)
    BY <1>5, <2>1, <2>2, <2>3
  <2>. QED  BY <1>5, <2>1, <2>4
<1>7. x = UTF8(SubSeq(t, 1, m)) /\ r = UTF8(t)
  BY <1>3, <1>4
<1> HIDE DEF x, r
<1>8. SubSeq(r, 1, Len(x)) \in Seq(Nat) /\ Len(SubSeq(r, 1, Len(x))) = Len(x)
      /\ \A i \in 1..Len(x) : SubSeq(r, 1, Len(x))[i] = r[i]
  BY <1>6, PrefixFacts
<1>9. IsPrefix(x, r)
  <2> DEFINE z == SubSeq(r, 1, Len(x))
  <2>1. z \in Seq(Nat) /\ Len(z) = Len(x) /\ \A i \in 1..Len(x) : z[i] = x[i]
    BY <1>6, <1>8
  <2> HIDE DEF z
  <2>2. z = x
    <3>1. x \in Seq(Nat)
      BY <1>6
    <3>2. \A u, v \in Seq(Nat) : Len(u) = Len(v) /\ (\A i \in 1..Len(u) : u[i] = v[i]) => u = v
      OBVIOUS
    <3>. QED  BY <2>1, <3>1, <3>2, Zenon
  <2>3. SubSeq(x, 1, Len(x)) = x
    BY <1>6, PrefixFacts
  <2>4. Len(x) <= Len(r)
    BY <1>6
  <2>. QED  BY <2>2, <2>3, <2>4 DEF IsPrefix, z
<1>10. IsPrefix(UTF8(SubSeq(doc.text, 1, RootEnd(doc.text))), decoded.bytes)
  BY <1>2, <1>7, <1>9, Zenon
<1>. QED  BY <1>10 DEF Unmarshal

(* A whole payload is decoded to its text, and is in the handler's own dialect. *)
LEMMA WholeIsDecoded ==
  ASSUME TransitInv, pc = "done", Whole
  PROVE  /\ decoded.ok /\ decoded.bytes = UTF8(doc.text) /\ doc \in Documents /\ enc \in Encodings
         /\ dialect = (IF doc.root \in Named THEN doc.root ELSE "Unknown") /\ Outcome
<1> DEFINE t == doc.text
           x == Encode(enc, t)
<1>1. doc \in Documents /\ enc \in Encodings
  BY DEF TransitInv
<1>2. IsText(t) /\ t # <<>> /\ t[1] < 128
  BY <1>1, TextOfDocument
<1>3. Len(x) \in Nat /\ body = SubSeq(x, 1, Len(x))
  BY <1>1, SentPrefix DEF Whole
<1>4. BodyWhole(t, body)
  <2> DEFINE n == Len(x)
  <2>1. n \in 0..Len(x) /\ body = SubSeq(x, 1, n) /\ n = Len(x)
    BY <1>3
  <2> HIDE DEF n, t
  <2>. QED  BY <1>1, <1>2, <2>1, CutBody
<1>5. decoded = Decoded(UTF8(t))
  BY <1>4, Zenon DEF BodyWhole, TransitInv
<1>6. decoded.ok /\ decoded.bytes = UTF8(t)
  BY <1>5 DEF Decoded
<1>7. Outcome /\ dialect = ClassifyDecoded(UTF8(t))
  BY <1>6 DEF TransitInv
<1>8. dialect = IF doc.root \in Named THEN doc.root ELSE "Unknown"
  BY <1>1, <1>7, DialectOfWhole, Zenon
<1>. QED  BY <1>1, <1>6, <1>7, <1>8

(* What the reply to a document should be, by its root. *)
LEMMA ExpectedIs ==
  /\ doc.root = "RegisterRequest" =>
       Expected.name = "registerReply" /\ Expected.counted = "registration"
  /\ doc.root = "HeartBeatRequest" =>
       Expected.name = "heartbeatReply" /\ Expected.counted = "heartbeat"
  /\ doc.root = "CheckEventRequest" =>
       Expected.name = "checkEventResponse" /\ Expected.counted = "nothing"
  /\ doc.root = "CheckFileRequest" =>
       /\ Expected.name = "checkFileResponse"
       /\ Expected.counted = IF OneFSHeartbeat THEN "heartbeat" ELSE "nothing"
  /\ doc.root \notin Named => Expected.name = "none" /\ Expected.counted = "nothing"
<1> DEFINE name ==
             CASE doc.root = "RegisterRequest"   -> "registerReply"
               [] doc.root = "HeartBeatRequest"  -> "heartbeatReply"
               [] doc.root = "CheckEventRequest" -> "checkEventResponse"
               [] doc.root = "CheckFileRequest"  -> "checkFileResponse"
               [] doc.root \notin Named -> "none"
<1>1. /\ "RegisterRequest" \in Named /\ "HeartBeatRequest" \in Named
      /\ "CheckEventRequest" \in Named /\ "CheckFileRequest" \in Named
  BY DEF Named
<1>2. /\ doc.root = "RegisterRequest" => name = "registerReply"
      /\ doc.root = "HeartBeatRequest" => name = "heartbeatReply"
      /\ doc.root = "CheckEventRequest" => name = "checkEventResponse"
      /\ doc.root = "CheckFileRequest" => name = "checkFileResponse"
      /\ doc.root \notin Named => name = "none"
  BY <1>1, Zenon
<1> DEFINE count ==
             IF doc.root = "RegisterRequest" THEN "registration"
             ELSE IF doc.root = "HeartBeatRequest" \/ OneFSHeartbeat
               THEN "heartbeat" ELSE "nothing"
<1>3. Expected = [name |-> name, counted |-> count]
  BY Zenon DEF Expected
<1> HIDE DEF name
<1>4. Expected.name = name /\ Expected.counted = count
  BY <1>3
<1>5. OneFSHeartbeat => doc.root = "CheckFileRequest"
  BY DEF OneFSHeartbeat
<1>. QED  BY <1>1, <1>2, <1>4, <1>5

(* A whole payload gets the reply of its own dialect, in the encoding that its
   publisher reads, and is counted as the handshake it is: classification looks at
   the root element and at nothing else of it (classify.go, ServeHTTP, respond). *)
THEOREM WholeIsAnswered == Spec => []AnsweredAsAsked
<1>1. TransitInv => AnsweredAsAsked
  <2> SUFFICES ASSUME TransitInv, pc = "done", Whole
               PROVE  /\ reply.name = Expected.name /\ counted = Expected.counted
                      /\ reply.name # "none" =>
                           /\ enc = "utf8" => reply.bytes = Encode("utf8", ReplyText(reply.name))
                           /\ enc \in {"utf16le", "utf16leMark"} =>
                                reply.bytes = Encode("utf16le", ReplyText(reply.name))
    BY DEF AnsweredAsAsked
  <2>1. /\ decoded.ok /\ decoded.bytes = UTF8(doc.text) /\ doc \in Documents /\ enc \in Encodings
        /\ dialect = (IF doc.root \in Named THEN doc.root ELSE "Unknown") /\ Outcome
    BY WholeIsDecoded
  <2>2. /\ ~IsUTF16(Encode("utf8", doc.text))
        /\ IsUTF16(Encode("utf16le", doc.text)) /\ IsUTF16(Encode("utf16leMark", doc.text))
    BY <2>1, TextOfDocument, ReplyEncoding
  <2>3. ASSUME NEW name, reply = Replied(name)
        PROVE  /\ reply.name = name
               /\ enc = "utf8" => reply.bytes = Encode("utf8", ReplyText(name))
               /\ enc \in {"utf16le", "utf16leMark"} =>
                    reply.bytes = Encode("utf16le", ReplyText(name))
    <3>1. body = Encode(enc, doc.text)
      BY DEF Whole
    <3>2. /\ reply.name = name
          /\ reply.bytes = IF IsUTF16(body) THEN EncodeUTF16LE(ReplyText(name))
                                            ELSE UTF8(ReplyText(name))
      BY <2>3 DEF Replied
    <3>3. CASE enc = "utf8"
      <4>1. reply.bytes = UTF8(ReplyText(name))
        BY <2>2, <3>1, <3>2, <3>3, Zenon
      <4>. QED  BY <3>2, <3>3, <4>1, EncodeIs
    <3>4. CASE enc \in {"utf16le", "utf16leMark"}
      <4>1. IsUTF16(body)
        BY <2>2, <3>1, <3>4, Zenon
      <4>2. reply.bytes = EncodeUTF16LE(ReplyText(name))
        BY <3>2, <4>1, Zenon
      <4>. QED  BY <3>2, <3>4, <4>2, EncodeIs
    <3>. QED  BY <3>2, <3>3, <3>4
  <2>4. doc.root = "CheckFileRequest" =>
          (CheckFileAction = OneFSHeartbeatAction <=> OneFSHeartbeat)
    <3>1. CASE doc.declaration # "refused"
      BY <2>1, <3>1, WholeIsRead, Zenon DEF CheckFileAction, OneFSHeartbeat
    <3>2. CASE doc.declaration = "refused"
      <4>1. Unmarshal("CheckFileRequest").action = ""
        BY <3>2 DEF Unmarshal
      <4>2. CheckFileAction # OneFSHeartbeatAction
        BY <4>1 DEF CheckFileAction, OneFSHeartbeatAction
      <4>3. ~OneFSHeartbeat
        BY <3>2, Zenon DEF OneFSHeartbeat
      <4>. QED  BY <4>2, <4>3
    <3>. QED  BY <3>1, <3>2
  <2>5. CASE doc.root \notin Named
    BY <2>1, <2>5, ExpectedIs DEF Outcome
  <2>6. CASE doc.root = "RegisterRequest"
    <3>1. dialect = "RegisterRequest"
      BY <2>1, <2>6 DEF Named
    <3>2. reply = Replied("registerReply") /\ counted = "registration"
      BY <2>1, <3>1 DEF Outcome
    <3>. QED  BY <2>3, <2>6, <3>2, ExpectedIs
  <2>7. CASE doc.root = "HeartBeatRequest"
    <3>1. dialect = "HeartBeatRequest"
      BY <2>1, <2>7 DEF Named
    <3>2. reply = Replied("heartbeatReply") /\ counted = "heartbeat"
      BY <2>1, <3>1 DEF Outcome
    <3>. QED  BY <2>3, <2>7, <3>2, ExpectedIs
  <2>8. CASE doc.root = "CheckEventRequest"
    <3>1. dialect = "CheckEventRequest"
      BY <2>1, <2>8 DEF Named
    <3>2. reply = Replied("checkEventResponse") /\ counted = "nothing"
      BY <2>1, <3>1 DEF Outcome
    <3>. QED  BY <2>3, <2>8, <3>2, ExpectedIs
  <2>9. CASE doc.root = "CheckFileRequest"
    <3>1. dialect = "CheckFileRequest"
      BY <2>1, <2>9 DEF Named
    <3>2. /\ reply = Replied("checkFileResponse")
          /\ counted = IF OneFSHeartbeat THEN "heartbeat" ELSE "nothing"
      BY <2>1, <2>4, <2>9, <3>1 DEF Outcome
    <3>. QED  BY <2>3, <2>9, <3>2, ExpectedIs
  <2>. QED  BY <2>5, <2>6, <2>7, <2>8, <2>9 DEF Named
<1>. QED  BY <1>1, TransitInductive, PTL
=============================================================================
