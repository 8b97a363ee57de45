--------------------------- MODULE TransferProofs ---------------------------
(***************************************************************************)
(* Theorems about Transfer, for any scripts.                               *)
(***************************************************************************)
EXTENDS Transfer, SequenceTheorems, WellFoundedInduction, TLAPS

(***************************************************************************)
(* Induction: what fails for some number fails for a least one.            *)
(***************************************************************************)
LEMMA Least ==
  ASSUME NEW T, T \subseteq Nat, T # {}
  PROVE  \E x \in T : \A y \in T : x <= y
  <1>1. IsWellFoundedOn(OpToRel(<, Nat), Nat)
    BY NatLessThanWellFounded, Zenon
  <1>2. \E x \in T : \A y \in T : ~(<<y, x>> \in OpToRel(<, Nat))
    <2> HIDE DEF OpToRel
    <2> QED BY <1>1, WFMin, Zenon
  <1>3. PICK x \in T : \A y \in T : ~(<<y, x>> \in OpToRel(<, Nat))
    BY <1>2, Zenon
  <1>4. ASSUME NEW y \in T PROVE x <= y
    <2>1. ~(y < x)
      BY <1>3 DEF OpToRel
    <2> QED BY <2>1
  <1> QED BY <1>4

\* A set of numbers that has 0 and, with each one below N, the next one.
LEMMA Upwards ==
  ASSUME NEW N \in Nat, NEW T, 0 \in T, \A n \in 0 .. N - 1 : n \in T => n + 1 \in T
  PROVE  \A n \in 0 .. N : n \in T
  <1> DEFINE B == {n \in 0 .. N : n \notin T}
  <1> SUFFICES ASSUME B # {} PROVE FALSE
    OBVIOUS
  <1>1. PICK x \in B : \A y \in B : x <= y
    <2>1. B \subseteq Nat
      OBVIOUS
    <2> HIDE DEF B
    <2> QED BY <2>1, Least
  <1>2. x # 0 /\ x - 1 \in 0 .. N - 1 /\ x - 1 \notin B
    BY <1>1
  <1> QED BY <1>2

(***************************************************************************)
(* FlattenSeq, step by step.                                               *)
(***************************************************************************)
\* A function that computes FlattenSeq(s), for its first n elements.
Flattens(g, s, n) == g = [i \in 1 .. n |-> IF i = 1 THEN s[i] ELSE g[i - 1] \o s[i]]

LEMMA FlattensExists ==
  ASSUME NEW s, NEW N \in Nat
  PROVE  \E g : Flattens(g, s, N)
  <1> DEFINE T == {n \in Nat : \E g : Flattens(g, s, n)}
  <1>1. 0 \in T
    <2>1. Flattens(<<>>, s, 0)
      BY DEF Flattens
    <2> QED BY <2>1
  <1>2. ASSUME NEW n \in 0 .. N - 1, n \in T PROVE n + 1 \in T
    <2>1. PICK g : Flattens(g, s, n)
      BY <1>2
    <2> DEFINE h == [i \in 1 .. n + 1 |-> IF i = 1 THEN s[i] ELSE g[i - 1] \o s[i]]
    <2>2. ASSUME NEW i \in 1 .. n PROVE h[i] = g[i]
      <3>1. n \in Nat /\ i \in 1 .. n + 1
        OBVIOUS
      <3>2. h[i] = IF i = 1 THEN s[i] ELSE g[i - 1] \o s[i]
        BY <3>1, Zenon
      <3>3. g[i] = IF i = 1 THEN s[i] ELSE g[i - 1] \o s[i]
        BY <2>1, Zenon DEF Flattens
      <3> QED BY <3>2, <3>3
    <2>3. Flattens(h, s, n + 1)
      <3> HIDE DEF h
      <3>1. ASSUME NEW i \in 1 .. n + 1, i # 1 PROVE h[i - 1] = g[i - 1]
        BY <3>1, <2>2
      <3>2. h = [i \in 1 .. n + 1 |-> IF i = 1 THEN s[i] ELSE h[i - 1] \o s[i]]
        BY <3>1, Zenon DEF h
      <3> QED BY <3>2 DEF Flattens
    <2> QED BY <2>3
  <1>3. N \in T
    <2> HIDE DEF T
    <2> QED BY <1>1, <1>2, Upwards
  <1> QED BY <1>3

LEMMA FlattenIs ==
  ASSUME NEW s, NEW N \in Nat, N # 0, Len(s) = N
  PROVE  \E g : Flattens(g, s, N) /\ FlattenSeq(s) = g[N]
  <1> DEFINE flatten == CHOOSE g : g = [i \in 1 .. N |-> IF i = 1 THEN s[i] ELSE g[i - 1] \o s[i]]
  <1>1. Flattens(flatten, s, N)
    BY FlattensExists DEF Flattens
  <1>2. FlattenSeq(s) = flatten[N]
    BY DEF FlattenSeq
  <1> QED BY <1>1, <1>2

\* Two that agree on the sequence agree.
LEMMA FlattensAgree ==
  ASSUME NEW s, NEW t, NEW g, NEW h, NEW n \in Nat, NEW m \in Nat, n <= m,
         Flattens(g, s, n), Flattens(h, t, m), \A i \in 1 .. n : s[i] = t[i]
  PROVE  \A i \in 1 .. n : g[i] = h[i]
  <1> DEFINE T == {i \in Nat : i = 0 \/ g[i] = h[i]}
  <1>1. 0 \in T
    OBVIOUS
  <1>2. ASSUME NEW i \in 0 .. n - 1, i \in T PROVE i + 1 \in T
    <2> DEFINE j == i + 1
    <2>1. j \in 1 .. n /\ j \in 1 .. m /\ i = j - 1 /\ (j = 1 \/ i # 0)
      OBVIOUS
    <2> HIDE DEF j
    <2>2. g[j] = IF j = 1 THEN s[j] ELSE g[j - 1] \o s[j]
      BY <2>1, Zenon DEF Flattens
    <2>3. h[j] = IF j = 1 THEN t[j] ELSE h[j - 1] \o t[j]
      BY <2>1, Zenon DEF Flattens
    <2>4. s[j] = t[j] /\ (j # 1 => g[j - 1] = h[j - 1])
      BY <1>2, <2>1
    <2>5. g[j] = h[j]
      BY <2>2, <2>3, <2>4
    <2> QED BY <2>5 DEF j
  <1>3. \A i \in 0 .. n : i \in T
    <2> HIDE DEF T
    <2> QED BY <1>1, <1>2, Upwards
  <1> QED BY <1>3

LEMMA FlattensType ==
  ASSUME NEW X, NEW s, NEW n \in Nat, NEW g, Flattens(g, s, n), \A i \in 1 .. n : s[i] \in Seq(X)
  PROVE  \A i \in 1 .. n : g[i] \in Seq(X)
  <1> DEFINE T == {i \in Nat : i = 0 \/ g[i] \in Seq(X)}
  <1>1. 0 \in T
    OBVIOUS
  <1>2. ASSUME NEW i \in 0 .. n - 1, i \in T PROVE i + 1 \in T
    <2> DEFINE j == i + 1
    <2>1. j \in 1 .. n /\ i = j - 1 /\ (j = 1 \/ i # 0)
      OBVIOUS
    <2> HIDE DEF j
    <2>2. g[j] = IF j = 1 THEN s[j] ELSE g[j - 1] \o s[j]
      BY <2>1, Zenon DEF Flattens
    <2>3. s[j] \in Seq(X) /\ (j # 1 => g[j - 1] \in Seq(X))
      BY <1>2, <2>1
    <2>4. g[j] \in Seq(X)
      BY <2>2, <2>3, ConcatProperties
    <2> QED BY <2>4 DEF j
  <1>3. \A i \in 0 .. n : i \in T
    <2> HIDE DEF T
    <2> QED BY <1>1, <1>2, Upwards
  <1> QED BY <1>3

LEMMA FlattenEmpty == FlattenSeq(<<>>) = <<>>
  BY DEF FlattenSeq

LEMMA FlattenType ==
  ASSUME NEW X, NEW s \in Seq(Seq(X))
  PROVE  FlattenSeq(s) \in Seq(X)
  <1>1. CASE s = <<>>
    BY <1>1, FlattenEmpty, EmptySeq
  <1>2. CASE s # <<>>
    <2>1. Len(s) \in Nat /\ Len(s) # 0 /\ \A i \in 1 .. Len(s) : s[i] \in Seq(X)
      BY <1>2, EmptySeq, ElementOfSeq
    <2>2. PICK g : Flattens(g, s, Len(s)) /\ FlattenSeq(s) = g[Len(s)]
      BY <2>1, FlattenIs
    <2>3. \A i \in 1 .. Len(s) : g[i] \in Seq(X)
      BY <2>1, <2>2, FlattensType
    <2> QED BY <2>1, <2>2, <2>3
  <1> QED BY <1>1, <1>2

LEMMA FlattenAppend ==
  ASSUME NEW X, NEW s \in Seq(Seq(X)), NEW x \in Seq(X)
  PROVE  FlattenSeq(Append(s, x)) = FlattenSeq(s) \o x
  <1> DEFINE t == Append(s, x)
             n == Len(s)
  <1>1. /\ n \in Nat /\ Len(t) = n + 1 /\ t[n + 1] = x
        /\ \A i \in 1 .. n : s[i] = t[i]
    BY AppendProperties
  <1> HIDE DEF t, n
  <1>2. PICK h : Flattens(h, t, n + 1) /\ FlattenSeq(t) = h[n + 1]
    BY <1>1, FlattenIs
  <1>3. h[n + 1] = IF n = 0 THEN x ELSE h[n] \o x
    <2> DEFINE j == n + 1
    <2>0. n \in Nat
      BY <1>1, Zenon
    <2>1. j \in 1 .. n + 1 /\ j - 1 = n /\ (j = 1 <=> n = 0)
      BY <2>0
    <2> HIDE DEF j
    <2>2. h[j] = IF j = 1 THEN t[j] ELSE h[j - 1] \o t[j]
      BY <1>2, <2>1, Zenon DEF Flattens
    <2>3. h[j] = IF n = 0 THEN t[j] ELSE h[n] \o t[j]
      BY <2>1, <2>2
    <2> QED BY <2>3, <1>1 DEF j
  <1>4. CASE s = <<>>
    <2>1. n = 0 /\ FlattenSeq(s) = <<>>
      BY <1>4, FlattenEmpty DEF n
    <2> QED BY <2>1, <1>2, <1>3, ConcatEmptySeq DEF t
  <1>5. CASE s # <<>>
    <2>1. n # 0
      BY <1>5, EmptySeq DEF n
    <2>2. PICK g : Flattens(g, s, n) /\ FlattenSeq(s) = g[n]
      BY <1>1, <2>1, FlattenIs DEF n
    <2>3. \A i \in 1 .. n : g[i] = h[i]
      <3>1. n + 1 \in Nat /\ n <= n + 1
        BY <1>1
      <3> QED BY <1>1, <1>2, <2>2, <3>1, FlattensAgree
    <2>4. g[n] = h[n]
      BY <1>1, <2>1, <2>3
    <2> QED BY <1>2, <1>3, <2>1, <2>2, <2>4 DEF t
  <1> QED BY <1>4, <1>5

\* Sequences of at most one element each.
AtMostOne(x) == x = <<>> \/ x = <<x[1]>>

LEMMA FlattenShort ==
  ASSUME NEW n \in Nat, NEW S, NEW s \in [1 .. n + 1 -> S], \A i \in 1 .. n + 1 : AtMostOne(s[i])
  PROVE  /\ FlattenSeq(s) = FlattenSeq([i \in 1 .. n |-> s[i]]) \o s[n + 1]
         /\ \E X : FlattenSeq([i \in 1 .. n |-> s[i]]) \in Seq(X) /\ s[n + 1] \in Seq(X)
  <1> DEFINE X == {s[i][1] : i \in 1 .. n + 1}
             r == [i \in 1 .. n |-> s[i]]
  <1>1. \A i \in 1 .. n + 1 : s[i] \in Seq(X)
    <2> SUFFICES ASSUME NEW i \in 1 .. n + 1 PROVE s[i] \in Seq(X)
      OBVIOUS
    <2>1. s[i][1] \in X
      OBVIOUS
    <2> HIDE DEF X
    <2>2. <<s[i][1]>> \in Seq(X) /\ <<>> \in Seq(X)
      BY <2>1
    <2> QED BY <2>2 DEF AtMostOne
  <1>2. r \in Seq(Seq(X)) /\ Len(r) = n
    <2> HIDE DEF X
    <2> QED BY <1>1
  <1>3. s[n + 1] \in Seq(X)
    BY <1>1
  <1>4. s = Append(r, s[n + 1])
    <2> HIDE DEF X
    <2> DEFINE a == Append(r, s[n + 1])
    <2>1. a \in Seq(Seq(X)) /\ Len(a) = n + 1 /\ DOMAIN a = 1 .. n + 1
          /\ (\A i \in 1 .. n : a[i] = r[i]) /\ a[n + 1] = s[n + 1]
      BY <1>2, <1>3, AppendProperties
    <2>2. \A i \in 1 .. n + 1 : a[i] = s[i]
      BY <2>1
    <2> QED BY <2>1, <2>2
  <1> HIDE DEF X
  <1> QED BY <1>2, <1>3, <1>4, FlattenAppend, FlattenType

(***************************************************************************)
(* Numbers and strings.                                                    *)
(***************************************************************************)
LEMMA SeqOfFcn ==
  ASSUME NEW S, NEW n \in Nat, NEW f \in [1 .. n -> S]
  PROVE  f \in Seq(S) /\ Len(f) = n
  <1>1. f \in Seq(S)
    BY SeqDef
  <1> QED BY <1>1, LenProperties

LEMMA OctetNat == \A x \in Octet : x \in Nat /\ x <= 255
  BY DEF Octet

LEMMA Mod256 == \A n \in Nat : n % 256 \in Octet /\ n % 256 \in Nat /\ n % 256 <= n
  BY SMT DEF Octet

LEMMA Octets4 ==
  ASSUME NEW n \in Nat
  PROVE  /\ Octets(n, 4) \in Seq(Octet) /\ Len(Octets(n, 4)) = 4
         /\ n <= MaxInt => Number(Octets(n, 4)) = n /\ Octets(n, 4)[1] <= 127
  <1> DEFINE o == Octets(n, 4)
  <1>1. /\ o = [i \in 1 .. 4 |-> (n \div Weight[4 - i + 1]) % 256]
        /\ Weight[1] = 1 /\ Weight[2] = 256 /\ Weight[3] = 65536 /\ Weight[4] = 16777216
    BY SMT DEF Octets, Weight
  <1>2. /\ o[1] = (n \div 16777216) % 256 /\ o[2] = (n \div 65536) % 256
        /\ o[3] = (n \div 256) % 256 /\ o[4] = n % 256
    BY <1>1, SMT
  <1>3. \A i \in 1 .. 4 : o[i] \in Octet
    <2>1. o[1] \in Octet /\ o[2] \in Octet /\ o[3] \in Octet /\ o[4] \in Octet
      BY <1>2, SMT DEF Octet
    <2> QED BY <2>1
  <1>4. o \in Seq(Octet) /\ Len(o) = 4
    <2>1. o \in [1 .. 4 -> Octet]
      BY <1>1, <1>3
    <2> HIDE DEF o
    <2> QED BY <2>1, SeqOfFcn
  <1>5. ASSUME n <= MaxInt PROVE Number(o) = n /\ o[1] <= 127
    <2>1. o[1] <= 127 /\ o[1] \in Int
      BY <1>2, <1>5, SMT DEF MaxInt
    <2>2. Number(o) = o[4] + 256 * o[3] + 65536 * o[2] + 16777216 * o[1]
      <3> HIDE DEF o
      <3>1. /\ Weight[1] * o[4] = o[4] /\ Weight[2] * o[3] = 256 * o[3]
            /\ Weight[3] * o[2] = 65536 * o[2] /\ Weight[4] * o[1] = 16777216 * o[1]
        BY <1>1, <1>3, SMT DEF Octet
      <3> QED BY <1>3, <1>4, <2>1, <3>1, SMT DEF Number, Octet
    <2>3. n = (n % 256) + 256 * ((n \div 256) % 256) + 65536 * ((n \div 65536) % 256)
              + 16777216 * ((n \div 16777216) % 256)
      BY <1>5, SMT DEF MaxInt
    <2> HIDE DEF o
    <2>4. o[1] \in Int /\ o[2] \in Int /\ o[3] \in Int /\ o[4] \in Int
      BY <1>3 DEF Octet
    <2> QED BY <1>2, <2>1, <2>2, <2>3, <2>4, SMT
  <1> QED BY <1>4, <1>5

IsShort(n) == n \in Nat /\ n <= 65535

LEMMA Octets2 ==
  ASSUME NEW n, IsShort(n)
  PROVE  Octets(n, 2) \in Seq(Octet) /\ Len(Octets(n, 2)) = 2 /\ Number(Octets(n, 2)) = n
  <1> DEFINE o == Octets(n, 2)
  <1>0. n \in Nat /\ n <= 65535
    BY DEF IsShort
  <1>1. /\ o = [i \in 1 .. 2 |-> (n \div Weight[2 - i + 1]) % 256]
        /\ Weight[1] = 1 /\ Weight[2] = 256 /\ Weight[3] = 65536 /\ Weight[4] = 16777216
    BY SMT DEF Octets, Weight
  <1>2. o[1] = (n \div 256) % 256 /\ o[2] = n % 256
    BY <1>0, <1>1, SMT
  <1>3. \A i \in 1 .. 2 : o[i] \in Octet
    <2>1. o[1] \in Octet /\ o[2] \in Octet
      BY <1>0, <1>2, SMT DEF Octet
    <2> QED BY <2>1
  <1>4. o \in Seq(Octet) /\ Len(o) = 2
    <2>1. o \in [1 .. 2 -> Octet]
      BY <1>1, <1>3
    <2> HIDE DEF o
    <2> DEFINE two == 2
    <2>2. two \in Nat /\ o \in [1 .. two -> Octet]
      BY <2>1
    <2> HIDE DEF two
    <2>3. o \in Seq(Octet) /\ Len(o) = two
      BY <2>2, SeqOfFcn
    <2> QED BY <2>3 DEF two
  <1>5. Number(o) = n
    <2>1. Number(o) = o[2] + 256 * o[1]
      <3> HIDE DEF o
      <3>1. Weight[1] * o[2] = o[2] /\ Weight[2] * o[1] = 256 * o[1]
        BY <1>1, <1>3, SMT DEF Octet
      <3>2. o[2] + 256 * o[1] + 0 + 0 = o[2] + 256 * o[1]
        <4>1. o[1] \in Int /\ o[2] \in Int
          BY <1>0, <1>2, SMT DEF o
        <4> QED BY <4>1, SMT
      <3>3. Len(o) = 2 /\ ~(Len(o) - 4 >= 0) /\ ~(\E i \in 1 .. Len(o) - 4 : o[i] # 0)
        BY <1>4, SMT
      <3>4. /\ 1 <= Len(o) /\ 2 <= Len(o) /\ ~(3 <= Len(o)) /\ ~(4 <= Len(o))
            /\ Len(o) + 1 - 1 = 2 /\ Len(o) + 1 - 2 = 1
        BY <1>4, SMT
      <3> QED BY <3>1, <3>2, <3>3, <3>4, SMT DEF Number
    <2>2. n = (n % 256) + 256 * ((n \div 256) % 256)
      BY <1>0, SMT
    <2> QED BY <1>2, <2>1, <2>2
  <1> QED BY <1>4, <1>5

(***************************************************************************)
(* Reading what is there, and what is not all there.                       *)
(***************************************************************************)
LEMMA TakeDrop ==
  ASSUME NEW X, NEW a \in Seq(X), NEW b \in Seq(X)
  PROVE  SubSeq(a \o b, 1, Len(a)) = a /\ SubSeq(a \o b, Len(a) + 1, Len(a \o b)) = b
  <1> DEFINE s == a \o b
             t == SubSeq(s, 1, Len(a))
             u == SubSeq(s, Len(a) + 1, Len(s))
  <1>1. /\ Len(a) \in Nat /\ Len(b) \in Nat /\ s \in Seq(X) /\ Len(s) = Len(a) + Len(b)
        /\ \A i \in 1 .. Len(a) + Len(b) : s[i] = IF i <= Len(a) THEN a[i] ELSE b[i - Len(a)]
    BY ConcatProperties, LenProperties
  <1>2. \A i \in 1 .. Len(s) : s[i] \in X
    BY <1>1, ElementOfSeq
  <1> HIDE DEF s
  <1>3. t \in Seq(X) /\ Len(t) = Len(a) /\ \A i \in 1 .. Len(a) : t[i] = s[i]
    BY <1>1, <1>2, SubSeqProperties
  <1>4. u \in Seq(X) /\ Len(u) = Len(b) /\ \A i \in 1 .. Len(b) : u[i] = s[Len(a) + i]
    BY <1>1, <1>2, SubSeqProperties
  <1> HIDE DEF t, u
  <1>5. t = a
    BY <1>1, <1>3, SeqEqual
  <1>6. u = b
    <2>1. ASSUME NEW i \in 1 .. Len(b) PROVE u[i] = b[i]
      <3> DEFINE k == Len(a) + i
      <3>1. k \in 1 .. Len(a) + Len(b) /\ ~(k <= Len(a)) /\ k - Len(a) = i
        BY <1>1, SMT
      <3>2. u[i] = s[k] /\ s[k] = b[k - Len(a)]
        <4> HIDE DEF k
        <4>1. s[k] = b[k - Len(a)]
          BY <1>1, <3>1
        <4> QED BY <1>4, <4>1 DEF k
      <3> QED BY <3>1, <3>2
    <2> QED BY <1>1, <1>4, <2>1, SeqEqual
  <1> QED BY <1>5, <1>6 DEF s, t, u

LEMMA PrefixIs ==
  ASSUME NEW X, NEW s \in Seq(X), NEW n \in Nat, n <= Len(s)
  PROVE  SubSeq(s, 1, n) \in Seq(X) /\ Len(SubSeq(s, 1, n)) = n
  <1>1. Len(s) \in Nat
    BY LenProperties
  <1>2. ASSUME NEW i \in 1 .. n PROVE s[i] \in X
    <2>1. i \in 1 .. Len(s)
      BY <1>1, SMT
    <2> QED BY <2>1, ElementOfSeq
  <1> QED BY <1>2, SubSeqProperties

LEMMA CutBefore ==
  ASSUME NEW X, NEW a \in Seq(X), NEW b \in Seq(X), NEW n \in Nat, n <= Len(a)
  PROVE  SubSeq(a \o b, 1, n) = SubSeq(a, 1, n)
  <1>1. /\ Len(a) \in Nat /\ Len(b) \in Nat /\ a \o b \in Seq(X) /\ Len(a \o b) = Len(a) + Len(b)
        /\ \A i \in 1 .. Len(a) + Len(b) : (a \o b)[i] = IF i <= Len(a) THEN a[i] ELSE b[i - Len(a)]
    BY ConcatProperties, LenProperties
  <1> DEFINE c == a \o b
  <1> HIDE DEF c
  <1>2. n <= Len(c) /\ c \in Seq(X)
    BY <1>1, SMT DEF c
  <1> DEFINE s == SubSeq(c, 1, n)
             t == SubSeq(a, 1, n)
  <1>3. s \in Seq(X) /\ Len(s) = n /\ t \in Seq(X) /\ Len(t) = n
    BY <1>2, PrefixIs
  <1>4. ASSUME NEW i \in 1 .. n PROVE s[i] = t[i]
    <2>1. s[i] = c[i] /\ t[i] = a[i]
      BY <1>1, <1>2
    <2>2. i \in 1 .. Len(a) + Len(b) /\ i <= Len(a)
      BY <1>1, SMT
    <2>3. c[i] = a[i]
      BY <1>1, <2>2, Zenon DEF c
    <2> QED BY <2>1, <2>3, Zenon
  <1> HIDE DEF s, t
  <1>5. s = t
    BY <1>3, <1>4, SeqEqual
  <1> QED BY <1>5 DEF s, t, c

LEMMA CutBehind ==
  ASSUME NEW X, NEW a \in Seq(X), NEW b \in Seq(X), NEW n \in Nat, n <= Len(b)
  PROVE  SubSeq(a \o b, 1, Len(a) + n) = a \o SubSeq(b, 1, n) /\ SubSeq(b, 1, n) \in Seq(X)
  <1> DEFINE d == SubSeq(b, 1, n)
             u == SubSeq(b, n + 1, Len(b))
  <1>1. d \in Seq(X) /\ Len(d) = n
    BY PrefixIs
  <1>2. u \in Seq(X) /\ d \o u = b
    <2>1. Len(b) \in Nat /\ SubSeq(b, 1, Len(b)) = b
      BY LenProperties, SubSeqFull
    <2>2. 1 \in 1 .. Len(b) + 1 /\ n \in 1 - 1 .. Len(b) /\ Len(b) \in n .. Len(b)
      BY <2>1, SMT
    <2>3. d \o u = b
      <3>1. SubSeq(b, 1, n) \o SubSeq(b, n + 1, Len(b)) = SubSeq(b, 1, Len(b))
        BY <2>2, ConcatAdjacentSubSeq, Zenon
      <3> QED BY <2>1, <3>1, Zenon
    <2>4. ASSUME NEW i \in n + 1 .. Len(b) PROVE b[i] \in X
      <3>1. i \in 1 .. Len(b)
        BY <2>1, SMT
      <3> QED BY <3>1, ElementOfSeq
    <2>5. u \in Seq(X)
      BY <2>1, <2>4, SubSeqProperties
    <2> QED BY <2>3, <2>5, Zenon
  <1> HIDE DEF d, u
  <1>3. a \o d \in Seq(X) /\ Len(a \o d) = Len(a) + n
    BY <1>1, ConcatProperties, Zenon
  <1>4. a \o b = (a \o d) \o u
    <2>0. d \in Seq(X) /\ u \in Seq(X)
      BY <1>1, <1>2, Zenon
    <2>1. (a \o d) \o u = a \o (d \o u)
      BY <2>0, ConcatAssociative
    <2> QED BY <1>2, <2>1, Zenon
  <1>5. SubSeq((a \o d) \o u, 1, Len(a \o d)) = a \o d
    BY <1>2, <1>3, TakeDrop, Zenon
  <1> QED BY <1>1, <1>3, <1>4, <1>5, Zenon DEF d

\* Octets with \o, without what a sequence is.
IsOctets(s) == s \in Seq(Octet)

Join(a, b)  == a \o b

LEMMA OctetsJoin ==
  ASSUME NEW a, NEW b, IsOctets(a), IsOctets(b)
  PROVE  IsOctets(Join(a, b))
  BY ConcatProperties DEF IsOctets, Join

LEMMA OctetsAssoc ==
  ASSUME NEW a, NEW b, NEW d, IsOctets(a), IsOctets(b), IsOctets(d)
  PROVE  Join(Join(a, b), d) = Join(a, Join(b, d))
  BY ConcatAssociative DEF IsOctets, Join

LEMMA OctetsAssoc4 ==
  ASSUME NEW a, NEW b, NEW d, NEW e, IsOctets(a), IsOctets(b), IsOctets(d), IsOctets(e)
  PROVE  Join(Join(Join(a, b), d), e) = Join(a, Join(b, Join(d, e)))
  <1>1. IsOctets(Join(a, b)) /\ IsOctets(Join(d, e))
    BY OctetsJoin
  <1> QED BY <1>1, OctetsAssoc

LEMMA GotIs ==
  ASSUME NEW r, NEW v, NEW rest, r = Got(v, rest)
  PROVE  r.err = "nil" /\ r.v = v /\ r.rest = rest
  BY DEF Got

LEMMA ReadAll ==
  ASSUME NEW X, NEW a \in Seq(X), NEW b \in Seq(X)
  PROVE  readFull(a \o b, Len(a)) = Got(a, b)
  <1>1. Len(a \o b) >= Len(a)
    BY ConcatProperties, LenProperties
  <1> QED BY <1>1, TakeDrop DEF readFull

LEMMA ReadShort ==
  ASSUME NEW X, NEW s \in Seq(X), NEW n \in Nat, Len(s) < n
  PROVE  readFull(s, n).err # "nil"
  <1>1. ~(Len(s) >= n)
    BY LenProperties
  <1> QED BY <1>1 DEF readFull, Failed

\* What readShortstr and readLongstr find is what writeShortstr and writeLongstr wrote,
\* cut to eight bits of length by the first, and they leave the rest of the stream alone.
THEOREM StringsReadBack ==
  ASSUME NEW s \in Seq(Octet), NEW rest \in Seq(Octet)
  PROVE  /\ readShortstr(writeShortstr(s).out \o rest) = Got(SubSeq(s, 1, Len(s) % 256), rest)
         /\ Len(s) <= MaxInt => readLongstr(writeLongstr(s).out \o rest) = Got(s, rest)
  <1>1. Len(s) \in Nat
    BY LenProperties
  <1>2. readShortstr(writeShortstr(s).out \o rest) = Got(SubSeq(s, 1, Len(s) % 256), rest)
    <2> DEFINE n == Len(s) % 256
               t == SubSeq(s, 1, n)
               a == <<n>>
    <2>1. n \in Octet /\ n \in Nat /\ n <= Len(s)
      BY <1>1, Mod256, Zenon
    <2>2. t \in Seq(Octet) /\ Len(t) = n
      <3> HIDE DEF n
      <3>1. \A i \in 1 .. n : s[i] \in Octet
        BY <1>1, <2>1, ElementOfSeq
      <3> QED BY <2>1, <3>1, SubSeqProperties
    <2>3. a \in Seq(Octet) /\ Len(a) = 1 /\ a[1] = n
      <3> HIDE DEF n
      <3> QED BY <2>1
    <2>4. writeShortstr(s).out = a \o t
      BY DEF writeShortstr, Out
    <2> HIDE DEF n, t, a
    <2>5. (a \o t) \o rest = a \o (t \o rest) /\ t \o rest \in Seq(Octet)
      <3>1. t \o rest \in Seq(Octet)
        BY <2>2, ConcatProperties
      <3>2. (a \o t) \o rest = a \o (t \o rest)
        <4>1. a \in Seq(Octet) /\ t \in Seq(Octet)
          BY <2>2, <2>3, Zenon
        <4> QED BY <4>1, ConcatAssociative
      <3> QED BY <3>1, <3>2, Zenon
    <2>6. readFull(a \o (t \o rest), 1) = Got(a, t \o rest)
      BY <2>3, <2>5, ReadAll
    <2>7. readFull(t \o rest, a[1]) = Got(t, rest)
      BY <2>2, <2>3, ReadAll
    <2>8. readShortstr(a \o (t \o rest)) = readFull(t \o rest, a[1])
      <3> DEFINE r == readFull(a \o (t \o rest), 1)
      <3>1. r.err = "nil" /\ r.v = a /\ r.rest = t \o rest
        BY <2>6, GotIs, Zenon
      <3>2. readShortstr(a \o (t \o rest)) = IF r.err = "nil" THEN readFull(r.rest, r.v[1]) ELSE r
        BY DEF readShortstr, Then
      <3> HIDE DEF r
      <3> QED BY <3>1, <3>2, Zenon
    <2> QED BY <2>4, <2>5, <2>7, <2>8 DEF n, t
  <1>3. ASSUME Len(s) <= MaxInt PROVE readLongstr(writeLongstr(s).out \o rest) = Got(s, rest)
    <2> DEFINE a == Octets(Len(s), 4)
    <2>1. a \in Seq(Octet) /\ Len(a) = 4 /\ Number(a) = Len(s) /\ a[1] <= 127 /\ a[1] \in Nat
      <3>1. a \in Seq(Octet) /\ Len(a) = 4 /\ Number(a) = Len(s) /\ a[1] <= 127
        BY <1>1, <1>3, Octets4, Zenon
      <3>2. a[1] \in Octet
        <4> HIDE DEF a
        <4>1. 1 \in 1 .. Len(a)
          BY <3>1
        <4> QED BY <3>1, <4>1, ElementOfSeq
      <3> QED BY <3>1, <3>2, OctetNat, Zenon
    <2>2. writeLongstr(s).out = a \o s
      BY DEF writeLongstr, Out
    <2> HIDE DEF a
    <2>3. (a \o s) \o rest = a \o (s \o rest) /\ s \o rest \in Seq(Octet)
      <3>1. s \o rest \in Seq(Octet)
        BY ConcatProperties
      <3>2. (a \o s) \o rest = a \o (s \o rest)
        <4>1. a \in Seq(Octet)
          BY <2>1, Zenon
        <4> QED BY <4>1, ConcatAssociative
      <3> QED BY <3>1, <3>2, Zenon
    <2>4. readFull(a \o (s \o rest), 4) = Got(a, s \o rest)
      BY <2>1, <2>3, ReadAll
    <2>5. readFull(s \o rest, Number(a)) = Got(s, rest)
      BY <2>1, ReadAll
    <2>6. readLongstr(a \o (s \o rest)) = readFull(s \o rest, Number(a))
      <3>1. ~(a[1] > 127)
        BY <2>1
      <3> DEFINE r == readFull(a \o (s \o rest), 4)
      <3>2. r.err = "nil" /\ r.v = a /\ r.rest = s \o rest
        BY <2>4, GotIs, Zenon
      <3>3. readLongstr(a \o (s \o rest)) =
              IF r.err = "nil"
              THEN IF r.v[1] > 127 THEN Got(<<>>, r.rest) ELSE readFull(r.rest, Number(r.v))
              ELSE r
        BY DEF readLongstr, Then
      <3> HIDE DEF r
      <3> QED BY <3>1, <3>2, <3>3, Zenon
    <2> QED BY <2>2, <2>3, <2>5, <2>6
  <1> QED BY <1>2, <1>3

(***************************************************************************)
(* Frames.                                                                 *)
(***************************************************************************)
LEMMA Joined ==
  ASSUME NEW X, NEW a \in Seq(X), NEW b \in Seq(X), NEW n \in Nat, NEW m \in Nat,
         Len(a) = n, Len(b) = m, n >= 1
  PROVE  a \o b \in Seq(X) /\ Len(a \o b) = n + m /\ (a \o b)[1] = a[1]
  <1>1. /\ a \o b \in Seq(X) /\ Len(a \o b) = n + m
        /\ \A i \in 1 .. n + m : (a \o b)[i] = IF i <= n THEN a[i] ELSE b[i - n]
    BY ConcatProperties, Zenon
  <1>2. 1 \in 1 .. n + m /\ 1 <= n
    <2> HIDE <1>1
    <2> QED BY SMT
  <1> QED BY <1>1, <1>2, Zenon

LEMMA HeadParts ==
  ASSUME NEW X, NEW a \in Seq(X), NEW b \in Seq(X), NEW d \in Seq(X),
         Len(a) = 1, Len(b) = 2, Len(d) = 4
  PROVE  LET h == a \o b \o d
         IN  /\ h \in Seq(X) /\ Len(h) = 7 /\ h[1] = a[1]
             /\ SubSeq(h, 2, 3) = b /\ SubSeq(h, 4, 7) = d
  <1> DEFINE e == a \o b
             h == e \o d
  <1>1. e \in Seq(X) /\ Len(e) = 3 /\ e[1] = a[1]
    <2>1. e \in Seq(X) /\ Len(e) = 1 + 2 /\ e[1] = a[1]
      BY Joined, 1 \in Nat, 2 \in Nat, 1 >= 1, Zenon
    <2> QED BY <2>1
  <1>2. SubSeq(e, 2, 3) = b
    <2>1. SubSeq(e, Len(a) + 1, Len(e)) = b
      BY TakeDrop
    <2> QED BY <1>1, <2>1
  <1> HIDE DEF e
  <1>3. h \in Seq(X) /\ Len(h) = 7 /\ h[1] = e[1]
    <2>1. h \in Seq(X) /\ Len(h) = 3 + 4 /\ h[1] = e[1]
      BY <1>1, Joined, 3 \in Nat, 4 \in Nat, 3 >= 1, Zenon
    <2>2. 3 + 4 = 7
      OBVIOUS
    <2> QED BY <2>1, <2>2, Zenon
  <1>4. SubSeq(h, 4, 7) = d
    <2>1. SubSeq(h, Len(e) + 1, Len(h)) = d
      BY <1>1, TakeDrop
    <2> HIDE DEF h
    <2> QED BY <1>1, <1>3, <2>1
  <1>5. SubSeq(h, 2, 3) = SubSeq(e, 2, 3)
    <2>1. 2 \in 1 .. Len(e) /\ 3 \in 1 .. Len(e)
      BY <1>1
    <2> QED BY <1>1, <2>1, SubSeqOfConcat1
  <1> QED BY <1>1, <1>2, <1>3, <1>4, <1>5 DEF e

\* What ReadFrame does behind the seven octets at its head.
ReadBehind(q) ==
  LET e == readFull(q.rest, 1)
  IN  IF q.err # "nil" THEN q
      ELSE IF e.err # "nil" THEN e
      ELSE IF e.v[1] = frameEnd THEN Got(q.v, e.rest) ELSE Failed("ErrFrame", e.rest)

LEMMA ReadFrameIs ==
  ASSUME NEW h \in Seq(Octet), NEW b \in Seq(Octet), Len(h) = 7
  PROVE  ReadFrame(h \o b) =
           ReadBehind(parseFrame(h[1], Number(SubSeq(h, 2, 3)), Number(SubSeq(h, 4, 7)), b))
  <1> DEFINE s == h \o b
             r == readFull(s, 7)
             q == parseFrame(h[1], Number(SubSeq(h, 2, 3)), Number(SubSeq(h, 4, 7)), b)
             p == parseFrame(r.v[1], Number(SubSeq(r.v, 2, 3)), Number(SubSeq(r.v, 4, 7)), r.rest)
             e == readFull(p.rest, 1)
  <1>1. r = Got(h, b)
    BY ReadAll
  <1>2. r.err = "nil" /\ r.v = h /\ r.rest = b
    <2> HIDE DEF r
    <2> QED BY <1>1, GotIs
  <1>3. ReadFrame(s) =
          IF r.err = "nil"
          THEN IF p.err = "nil"
               THEN IF e.err = "nil"
                    THEN IF e.v[1] = frameEnd THEN Got(p.v, e.rest) ELSE Failed("ErrFrame", e.rest)
                    ELSE e
               ELSE p
          ELSE r
    BY Zenon DEF ReadFrame, Then
  <1> HIDE DEF r
  <1>4. p = q
    BY <1>2, Zenon
  <1> HIDE DEF s, q, p
  <1> QED BY <1>2, <1>3, <1>4, Zenon DEF ReadBehind, q, s

\* What the theorems ask of a frame: numbers that fit, and a codec for its payload.
Sound(f) ==
  /\ f.type \in {frameMethod, frameHeader, frameBody, frameHeartbeat}
  /\ IsShort(f.channel)
  /\ payload(f).err = "nil" /\ ReadsBack(f, Seq(Octet))
  /\ f.type \in {frameBody, frameHeartbeat} => Len(payload(f).out) <= MaxInt

HeadOf(f) == <<f.type>> \o Octets(f.channel, 2) \o Octets(Len(payload(f).out), 4)

LEMMA WrittenIs ==
  ASSUME NEW f, Sound(f)
  PROVE  /\ payload(f).out \in Seq(Octet) /\ HeadOf(f) \in Seq(Octet) /\ Len(HeadOf(f)) = 7
         /\ writeFrame(f).err = "nil"
         /\ writeFrame(f).out = HeadOf(f) \o payload(f).out \o <<frameEnd>>
         /\ \A b : parseFrame(HeadOf(f)[1], Number(SubSeq(HeadOf(f), 2, 3)), Number(SubSeq(HeadOf(f), 4, 7)), b)
                   = parseFrame(f.type, f.channel, Len(payload(f).out), b)
  <1> DEFINE p == payload(f).out
             o == Octets(f.channel, 2)
             n == Octets(Len(p), 4)
             h == <<f.type>> \o o \o n
  <1>1. p \in Seq(Octet)
    BY Zenon DEF Sound, ReadsBack
  <1>2. o \in Seq(Octet) /\ Len(o) = 2 /\ Number(o) = f.channel
    BY Octets2, Zenon DEF Sound
  <1>3. Len(p) \in Nat
    <2> HIDE DEF p
    <2> QED BY <1>1, LenProperties
  <1>4. n \in Seq(Octet) /\ Len(n) = 4 /\ (Len(p) <= MaxInt => Number(n) = Len(p))
    BY <1>3, Octets4, Zenon
  <1>5. f.type \in Octet
    BY DEF Sound, Octet, frameMethod, frameHeader, frameBody, frameHeartbeat
  <1>6. <<f.type>> \in Seq(Octet) /\ Len(<<f.type>>) = 1 /\ <<f.type>>[1] = f.type
    BY <1>5
  <1> HIDE DEF o, n
  <1>7. h \in Seq(Octet) /\ Len(h) = 7 /\ h[1] = f.type /\ SubSeq(h, 2, 3) = o /\ SubSeq(h, 4, 7) = n
    <2> DEFINE t == <<f.type>>
    <2> HIDE DEF t
    <2>1. t \in Seq(Octet) /\ Len(t) = 1 /\ t[1] = f.type
      BY <1>6, Zenon DEF t
    <2>2. /\ t \o o \o n \in Seq(Octet) /\ Len(t \o o \o n) = 7 /\ (t \o o \o n)[1] = t[1]
          /\ SubSeq(t \o o \o n, 2, 3) = o /\ SubSeq(t \o o \o n, 4, 7) = n
      <3>1. /\ t \in Seq(Octet) /\ o \in Seq(Octet) /\ n \in Seq(Octet)
            /\ Len(t) = 1 /\ Len(o) = 2 /\ Len(n) = 4
        BY <1>2, <1>4, <2>1, Zenon
      <3> QED BY <3>1, HeadParts
    <2> QED BY <2>1, <2>2, Zenon DEF t
  <1>8. HeadOf(f) = h
    BY Zenon DEF HeadOf, o, n
  <1>9. writeFrame(f).err = "nil" /\ writeFrame(f).out = h \o p \o <<frameEnd>>
    <2>1. writeFrame(f) = Out(h \o p \o <<frameEnd>>)
      BY Zenon DEF writeFrame, Sound, o, n
    <2> HIDE DEF h, p
    <2> QED BY <2>1 DEF Out
  <1> HIDE DEF h
  <1>10. ASSUME NEW b PROVE parseFrame(f.type, f.channel, Number(n), b) = parseFrame(f.type, f.channel, Len(p), b)
    <2>1. CASE f.type \in {frameBody, frameHeartbeat}
      BY <1>4, <2>1, Zenon DEF Sound
    <2>2. CASE f.type \in {frameMethod, frameHeader}
      <3> HIDE DEF p
      <3> QED BY <2>2 DEF parseFrame, frameMethod, frameHeader, frameBody, frameHeartbeat
    <2> QED BY <2>1, <2>2, Zenon DEF Sound
  <1>11. ASSUME NEW b
         PROVE  parseFrame(h[1], Number(SubSeq(h, 2, 3)), Number(SubSeq(h, 4, 7)), b)
                  = parseFrame(f.type, f.channel, Len(p), b)
    BY <1>2, <1>7, <1>10, Zenon
  <1> QED BY <1>1, <1>7, <1>8, <1>9, <1>11, Zenon

LEMMA EndIs == <<frameEnd>> \in Seq(Octet) /\ Len(<<frameEnd>>) = 1 /\ <<frameEnd>>[1] = frameEnd
  <1>1. frameEnd \in Octet
    BY DEF Octet, frameEnd
  <1> QED BY <1>1

\* ReadFrame makes of what writeFrame wrote the frame with what its codec keeps, and leaves
\* alone what follows it: no frame reaches into the next one.
THEOREM FrameReadsBack ==
  ASSUME NEW f, Sound(f), NEW rest \in Seq(Octet)
  PROVE  /\ writeFrame(f).out \in Seq(Octet)
         /\ ReadFrame(writeFrame(f).out \o rest) = Got(KeptFrame(f), rest)
  <1> DEFINE h == HeadOf(f)
             p == payload(f).out
             e == <<frameEnd>>
             w == writeFrame(f).out
             q == parseFrame(f.type, f.channel, Len(p), p \o (e \o rest))
  <1>1. /\ p \in Seq(Octet) /\ h \in Seq(Octet) /\ Len(h) = 7 /\ w = (h \o p) \o e
        /\ \A b : parseFrame(h[1], Number(SubSeq(h, 2, 3)), Number(SubSeq(h, 4, 7)), b)
                    = parseFrame(f.type, f.channel, Len(p), b)
    BY WrittenIs, Zenon
  <1>2. e \in Seq(Octet) /\ Len(e) = 1 /\ e[1] = frameEnd
    BY EndIs, Zenon
  <1>3. q = Got(KeptFrame(f), e \o rest)
    <2>1. \A r \in Seq(Octet) : parseFrame(f.type, f.channel, Len(p), p \o r) = Got(KeptFrame(f), r)
      BY Zenon DEF Sound, ReadsBack
    <2>2. e \o rest \in Seq(Octet)
      <3> HIDE DEF e
      <3> QED BY <1>2, ConcatProperties
    <2> QED BY <2>1, <2>2, Zenon
  <1> HIDE DEF h, p, e, w
  <1>4. w \in Seq(Octet)
    <2>1. h \o p \in Seq(Octet)
      BY <1>1, ConcatProperties
    <2>2. (h \o p) \o e \in Seq(Octet)
      BY <1>2, <2>1, ConcatProperties
    <2> QED BY <1>1, <2>2, Zenon
  <1>5. w \o rest = h \o (p \o (e \o rest)) /\ p \o (e \o rest) \in Seq(Octet)
    <2>1. h \in Seq(Octet) /\ p \in Seq(Octet) /\ e \in Seq(Octet)
      BY <1>1, <1>2, Zenon
    <2>2. ((h \o p) \o e) \o rest = h \o (p \o (e \o rest))
      <3>1. IsOctets(h) /\ IsOctets(p) /\ IsOctets(e) /\ IsOctets(rest)
        BY <2>1, Zenon DEF IsOctets
      <3>2. Join(Join(Join(h, p), e), rest) = Join(h, Join(p, Join(e, rest)))
        BY <3>1, OctetsAssoc4
      <3> QED BY <3>2, Zenon DEF Join
    <2>3. e \o rest \in Seq(Octet)
      BY <2>1, ConcatProperties
    <2>4. p \o (e \o rest) \in Seq(Octet)
      BY <2>1, <2>3, ConcatProperties
    <2> QED BY <1>1, <2>2, <2>4, Zenon
  <1>6. ReadFrame(w \o rest) = ReadBehind(q)
    BY <1>1, <1>5, ReadFrameIs, Zenon DEF q
  <1> HIDE DEF q
  <1>7. q.err = "nil" /\ q.v = KeptFrame(f) /\ q.rest = e \o rest
    <2> DEFINE er == e \o rest
               kept == KeptFrame(f)
    <2>1. q = Got(kept, er)
      BY <1>3, Zenon
    <2> HIDE DEF er, kept
    <2>2. q.err = "nil" /\ q.v = kept /\ q.rest = er
      BY <2>1, GotIs
    <2> QED BY <2>2, Zenon DEF er, kept
  <1> DEFINE r == readFull(q.rest, 1)
  <1>8. r = Got(e, rest)
    <2>1. readFull(e \o rest, Len(e)) = Got(e, rest)
      BY <1>2, ReadAll, Zenon
    <2> QED BY <1>2, <1>7, <2>1, Zenon
  <1>9. ReadBehind(q) = IF q.err # "nil" THEN q
                        ELSE IF r.err # "nil" THEN r
                        ELSE IF r.v[1] = frameEnd THEN Got(q.v, r.rest) ELSE Failed("ErrFrame", r.rest)
    BY Zenon DEF ReadBehind
  <1> HIDE DEF r
  <1>10. r.err = "nil" /\ r.v = e /\ r.rest = rest
    BY <1>8, GotIs
  <1>11. ReadBehind(q) = Got(KeptFrame(f), rest)
    BY <1>2, <1>7, <1>9, <1>10, Zenon
  <1> QED BY <1>4, <1>6, <1>11, Zenon DEF w

\* Of a frame that the end of the stream cuts off ReadFrame makes an error.
THEOREM FrameCut ==
  ASSUME NEW f, Sound(f), NEW n \in 0 .. Len(writeFrame(f).out) - 1
  PROVE  ReadFrame(SubSeq(writeFrame(f).out, 1, n)).err # "nil"
  <1> DEFINE h == HeadOf(f)
             p == payload(f).out
             e == <<frameEnd>>
             w == writeFrame(f).out
             s == SubSeq(w, 1, n)
  <1>1. /\ p \in Seq(Octet) /\ h \in Seq(Octet) /\ Len(h) = 7 /\ w = (h \o p) \o e
        /\ \A b : parseFrame(h[1], Number(SubSeq(h, 2, 3)), Number(SubSeq(h, 4, 7)), b)
                    = parseFrame(f.type, f.channel, Len(p), b)
    BY WrittenIs, Zenon
  <1>2. e \in Seq(Octet) /\ Len(e) = 1
    BY EndIs, Zenon
  <1>3. /\ \A m \in 0 .. Len(p) - 1 : parseFrame(f.type, f.channel, Len(p), SubSeq(p, 1, m)).err # "nil"
        /\ \A r \in Seq(Octet) : parseFrame(f.type, f.channel, Len(p), p \o r) = Got(KeptFrame(f), r)
    BY Zenon DEF Sound, ReadsBack
  <1> HIDE DEF h, p, e
  <1>4. Len(p) \in Nat /\ p \o e \in Seq(Octet) /\ Len(p \o e) = Len(p) + 1 /\ w = h \o (p \o e)
    <2>0. h \in Seq(Octet) /\ p \in Seq(Octet) /\ e \in Seq(Octet)
      BY <1>1, <1>2, Zenon
    <2>1. Len(p) \in Nat /\ p \o e \in Seq(Octet) /\ Len(p \o e) = Len(p) + Len(e)
      BY <2>0, LenProperties, ConcatProperties
    <2>2. (h \o p) \o e = h \o (p \o e)
      BY <2>0, ConcatAssociative
    <2> QED BY <1>1, <1>2, <2>1, <2>2, Zenon
  <1>5. w \in Seq(Octet) /\ Len(w) = 8 + Len(p)
    <2>1. h \o (p \o e) \in Seq(Octet) /\ Len(h \o (p \o e)) = Len(h) + Len(p \o e)
      BY <1>1, <1>4, ConcatProperties, Zenon
    <2>2. w \in Seq(Octet) /\ Len(w) = 7 + (Len(p) + 1) /\ Len(p) \in Nat
      BY <1>1, <1>4, <2>1, Zenon
    <2>3. \A l \in Nat : 7 + (l + 1) = 8 + l
      OBVIOUS
    <2> QED BY <2>2, <2>3, Zenon
  <1> HIDE DEF w
  <1>n. n \in Nat /\ n <= Len(w) /\ n <= 7 + Len(p)
    BY <1>4, <1>5, SMT DEF w
  <1>6. s \in Seq(Octet) /\ Len(s) = n
    BY <1>5, <1>n, PrefixIs, Zenon
  <1>7. CASE n < 7
    <2>1. readFull(s, 7).err # "nil"
      BY <1>6, <1>7, ReadShort, 7 \in Nat, Zenon
    <2> HIDE DEF s
    <2>2. ReadFrame(s) = readFull(s, 7)
      BY <2>1, Zenon DEF ReadFrame, Then
    <2> QED BY <2>1, <2>2, Zenon DEF s, w
  <1>8. CASE n >= 7
    <2> DEFINE m == n - 7
               b == SubSeq(p \o e, 1, m)
               q == parseFrame(f.type, f.channel, Len(p), b)
    <2>1. m \in Nat /\ m <= Len(p) /\ n = Len(h) + m
      BY <1>1, <1>4, <1>8, <1>n, SMT
    <2> HIDE DEF m
    <2>2. s = h \o b /\ b \in Seq(Octet)
      <3> DEFINE pe == p \o e
      <3>1. pe \in Seq(Octet) /\ m <= Len(pe)
        BY <1>4, <2>1, SMT
      <3>2. h \in Seq(Octet) /\ m \in Nat /\ b = SubSeq(pe, 1, m) /\ s = SubSeq(h \o pe, 1, Len(h) + m)
        BY <1>1, <1>4, <2>1, Zenon
      <3> HIDE DEF pe, b, s
      <3>3. SubSeq(h \o pe, 1, Len(h) + m) = h \o SubSeq(pe, 1, m) /\ SubSeq(pe, 1, m) \in Seq(Octet)
        <4>1. h \in Seq(Octet) /\ pe \in Seq(Octet) /\ m \in Nat /\ m <= Len(pe)
          BY <3>1, <3>2, Zenon
        <4> HIDE <3>1, <3>2
        <4> QED BY <4>1, CutBehind
      <3> QED BY <3>2, <3>3, Zenon
    <2>3. ReadFrame(s) = ReadBehind(q)
      BY <1>1, <2>2, ReadFrameIs, Zenon
    <2>4. CASE m < Len(p)
      <3>1. m \in 0 .. Len(p) - 1
        BY <1>4, <2>1, <2>4, SMT
      <3>2. b = SubSeq(p, 1, m)
        BY <1>1, <1>2, <2>1, <2>4, CutBefore, Zenon
      <3>3. q.err # "nil"
        BY <1>3, <3>1, <3>2, Zenon
      <3> QED BY <2>3, <3>3, Zenon DEF ReadBehind, s, w
    <2>5. CASE m = Len(p)
      <3>1. b = p
        BY <1>1, <1>2, <2>5, TakeDrop, Zenon
      <3>2. p = p \o <<>> /\ <<>> \in Seq(Octet)
        BY <1>1, ConcatEmptySeq, EmptySeq, Zenon
      <3>3. q = Got(KeptFrame(f), <<>>)
        BY <1>3, <3>1, <3>2, Zenon
      <3>4. q.err = "nil" /\ q.rest = <<>>
        BY <3>3, GotIs, Zenon
      <3>5. readFull(<<>>, 1).err # "nil"
        BY DEF readFull, Failed
      <3> QED BY <2>3, <3>4, <3>5, Zenon DEF ReadBehind, s, w
    <2> QED BY <1>4, <2>1, <2>4, <2>5, SMT
  <1> QED BY <1>n, <1>7, <1>8, SMT

LEMMA NothingFails == ReadFrame(<<>>).err # "nil"
  <1>1. readFull(<<>>, 7).err # "nil"
    BY DEF readFull, Failed
  <1> QED BY <1>1, Zenon DEF ReadFrame, Then

\* Bodies and heartbeats need no codec.
LEMMA BodySound ==
  ASSUME NEW c, NEW body, IsShort(c), IsBody(body)
  PROVE  Sound(bodyFrame(c, body))
  <1> DEFINE f == bodyFrame(c, body)
             n == Len(body)
             Parse(s) == parseFrame(f.type, f.channel, n, s)
  <1>1. f.type = frameBody /\ f.channel = c /\ f.body = body
    BY DEF bodyFrame
  <1>2. body \in Seq(Octet) /\ n <= MaxInt
    BY DEF IsBody
  <1> HIDE DEF f
  <1>3. payload(f) = Out(body) /\ KeptFrame(f) = f
    BY <1>1 DEF payload, KeptFrame, frameBody, frameMethod, frameHeader, frameHeartbeat
  <1>4. payload(f).err = "nil" /\ payload(f).out = body
    <2> HIDE DEF IsBody
    <2> QED BY <1>3 DEF Out
  <1>5. \A s : Parse(s) = IF readFull(s, n).err = "nil"
                          THEN Got(bodyFrame(c, readFull(s, n).v), readFull(s, n).rest)
                          ELSE readFull(s, n)
    <2>1. \A s : Parse(s) = parseBodyFrame(c, n, s)
      <3> HIDE DEF n
      <3> QED BY <1>1 DEF parseFrame, frameBody, frameMethod, frameHeader, frameHeartbeat
    <2> QED BY <2>1, Zenon DEF parseBodyFrame, Then
  <1>6. ASSUME NEW rest \in Seq(Octet) PROVE Parse(body \o rest) = Got(f, rest)
    <2> DEFINE r == readFull(body \o rest, n)
    <2>1. r = Got(body, rest)
      BY <1>2, ReadAll, Zenon
    <2>2. Parse(body \o rest) = IF r.err = "nil" THEN Got(bodyFrame(c, r.v), r.rest) ELSE r
      BY <1>5, Zenon
    <2> HIDE DEF r
    <2>3. r.err = "nil" /\ r.v = body /\ r.rest = rest
      BY <2>1, GotIs
    <2> QED BY <2>2, <2>3, Zenon DEF f
  <1>7. ASSUME NEW m \in 0 .. n - 1 PROVE Parse(SubSeq(body, 1, m)).err # "nil"
    <2> DEFINE s == SubSeq(body, 1, m)
    <2>1. n \in Nat
      BY <1>2, LenProperties
    <2>2. m \in Nat /\ m <= n /\ m < n
      BY <2>1, SMT
    <2>3. s \in Seq(Octet) /\ Len(s) = m
      BY <1>2, <2>2, PrefixIs, Zenon
    <2>4. readFull(s, n).err # "nil"
      BY <2>1, <2>2, <2>3, ReadShort, Zenon
    <2> QED BY <1>5, <2>4, Zenon
  <1>8. ReadsBack(f, Seq(Octet))
    BY <1>2, <1>3, <1>4, <1>6, <1>7, Zenon DEF ReadsBack
  <1>9. f.type \in {frameMethod, frameHeader, frameBody, frameHeartbeat}
    BY <1>1, Zenon
  <1> QED BY <1>1, <1>2, <1>4, <1>8, <1>9, Zenon DEF Sound, f

LEMMA BeatSound == Sound(heartbeatFrame(0))
  <1> DEFINE f == heartbeatFrame(0)
  <1>1. f.type = frameHeartbeat /\ f.channel = 0
    BY DEF heartbeatFrame
  <1>2. f = heartbeatFrame(0)
    OBVIOUS
  <1> HIDE DEF f
  <1>3. payload(f) = Out(<<>>) /\ KeptFrame(f) = f
    BY <1>1 DEF payload, KeptFrame, frameBody, frameMethod, frameHeader, frameHeartbeat
  <1>4. payload(f).err = "nil" /\ payload(f).out = <<>>
    BY <1>3 DEF Out
  <1>5. Len(<<>>) = 0 /\ <<>> \in Seq(Octet) /\ \A r \in Seq(Octet) : <<>> \o r = r
    BY EmptySeq, ConcatEmptySeq, Zenon
  <1>6. ASSUME NEW s PROVE parseFrame(f.type, f.channel, 0, s) = Got(f, s)
    <2>1. parseFrame(f.type, f.channel, 0, s) = parseHeartbeatFrame(0, 0, s)
      BY <1>1 DEF parseFrame, frameBody, frameMethod, frameHeader, frameHeartbeat
    <2> QED BY <1>2, <2>1 DEF parseHeartbeatFrame
  <1>7. ReadsBack(f, Seq(Octet))
    <2>1. \A n \in 0 .. 0 - 1 : FALSE
      OBVIOUS
    <2> QED BY <1>3, <1>4, <1>5, <1>6, <2>1, Zenon DEF ReadsBack
  <1>8. f.type \in {frameMethod, frameHeader, frameBody, frameHeartbeat} /\ IsShort(f.channel)
    BY <1>1 DEF IsShort
  <1>9. Len(payload(f).out) <= MaxInt
    BY <1>4, <1>5, SMT DEF MaxInt
  <1> QED BY <1>4, <1>7, <1>8, <1>9, Zenon DEF Sound, f

LEMMA MethodIs ==
  ASSUME NEW c, NEW m, NEW a
  PROVE  LET f == methodFrame(c, m, a)
         IN  f.type = frameMethod /\ f.channel = c /\ f.name = m /\ f.args = a
  BY DEF methodFrame

LEMMA HeaderIs ==
  ASSUME NEW c, NEW k, NEW s, NEW p
  PROVE  LET f == headerFrame(c, k, s, p)
         IN  f.type = frameHeader /\ f.channel = c /\ f.class = k /\ f.size = s /\ f.props = p
  BY DEF headerFrame

LEMMA BodyIs ==
  ASSUME NEW c, NEW b
  PROVE  LET f == bodyFrame(c, b) IN f.type = frameBody /\ f.channel = c /\ f.body = b
  BY DEF bodyFrame

LEMMA FrameSound ==
  ASSUME NEW c, NEW f, IsShort(c), IsFrame(c, f), payload(f).err = "nil",
         f.type \in {frameMethod, frameHeader} => ReadsBack(f, Seq(Octet))
  PROVE  Sound(f)
  <1>1. CASE f.type = frameBody
    <2>1. f = bodyFrame(c, f.body) /\ IsBody(f.body)
      BY <1>1 DEF IsFrame, frameBody, frameMethod, frameHeader
    <2>2. Sound(bodyFrame(c, f.body))
      BY <2>1, BodySound, Zenon
    <2> QED BY <2>1, <2>2, Zenon
  <1>2. CASE f.type \in {frameMethod, frameHeader}
    <2>1. f.channel = c
      <3>1. CASE f.type = frameMethod
        <4>1. f = methodFrame(c, f.name, f.args)
          BY <3>1 DEF IsFrame, frameMethod, frameHeader, frameBody
        <4> QED BY <4>1, MethodIs
      <3>2. CASE f.type = frameHeader
        <4>1. f = headerFrame(c, f.class, f.size, f.props)
          BY <3>2 DEF IsFrame, frameMethod, frameHeader, frameBody
        <4> QED BY <4>1, HeaderIs
      <3> QED BY <1>2, <3>1, <3>2, Zenon
    <2>2. ~(f.type \in {frameBody, frameHeartbeat})
      BY <1>2 DEF frameBody, frameMethod, frameHeader, frameHeartbeat
    <2> QED BY <1>2, <2>1, <2>2, Zenon DEF Sound
  <1>3. f.type \in {frameMethod, frameHeader, frameBody}
    BY DEF IsFrame
  <1> QED BY <1>1, <1>2, <1>3, Zenon

(***************************************************************************)
(* The frames of a script.                                                 *)
(***************************************************************************)
PieceSize(body)  == IF FrameSize > 0 THEN FrameSize - 8 ELSE Len(body)
PieceCount(body) == IF body = <<>> THEN 0 ELSE (Len(body) + PieceSize(body) - 1) \div PieceSize(body)
PieceEnd(body, i) == IF i * PieceSize(body) > Len(body) THEN Len(body) ELSE i * PieceSize(body)

LEMMA PiecesIs ==
  ASSUME NEW body, IsBody(body)
  PROVE  /\ Len(body) \in Nat /\ PieceSize(body) \in Nat /\ PieceCount(body) \in Nat
         /\ body # <<>> => PieceSize(body) > 0
         /\ pieces(body) = [i \in 1 .. PieceCount(body) |->
                              SubSeq(body, (i - 1) * PieceSize(body) + 1, PieceEnd(body, i))]
  <1>1. body \in Seq(Octet) /\ Len(body) \in Nat /\ (body # <<>> => Len(body) > 0)
    BY LenProperties, EmptySeq DEF IsBody
  <1>2. PieceSize(body) \in Nat /\ (body # <<>> => PieceSize(body) > 0)
    <2> HIDE DEF IsBody
    <2> DEFINE n == Len(body)
    <2>1. n \in Nat /\ (body # <<>> => n > 0)
      BY <1>1
    <2> HIDE DEF n
    <2> QED BY <2>1, FrameSizeAssumption, SMT DEF PieceSize, n
  <1>3. PieceCount(body) \in Nat
    <2>1. CASE body = <<>>
      BY <2>1 DEF PieceCount
    <2>2. CASE body # <<>>
      <3> DEFINE n == Len(body)
                 k == PieceSize(body)
      <3>1. n \in Nat /\ k \in Nat /\ k > 0
        BY <1>1, <1>2, <2>2
      <3>2. PieceCount(body) = (n + k - 1) \div k
        BY <2>2, Zenon DEF PieceCount
      <3> HIDE DEF n, k
      <3>3. n + k - 1 \in Nat
        BY <3>1, SMT
      <3>4. \A a \in Nat : a \div k \in Nat
        BY <3>1, SMT
      <3> QED BY <3>2, <3>3, <3>4, Zenon
    <2> QED BY <2>1, <2>2, Zenon
  <1>4. pieces(body) = [i \in 1 .. PieceCount(body) |->
                          SubSeq(body, (i - 1) * PieceSize(body) + 1, PieceEnd(body, i))]
    BY Zenon DEF pieces, PieceCount, PieceSize, PieceEnd
  <1> QED BY <1>1, <1>2, <1>3, <1>4, Zenon

LEMMA PieceIsBody ==
  ASSUME NEW body, IsBody(body), NEW i \in DOMAIN pieces(body)
  PROVE  IsBody(pieces(body)[i])
  <1> DEFINE n == Len(body)
             k == PieceSize(body)
             a == (i - 1) * k + 1
             e == PieceEnd(body, i)
             p == SubSeq(body, a, e)
  <1>1. n \in Nat /\ k \in Nat /\ PieceCount(body) \in Nat
    BY PiecesIs, Zenon
  <1>2. i \in 1 .. PieceCount(body) /\ pieces(body)[i] = p
    BY PiecesIs, Zenon
  <1> HIDE DEF n, k
  <1>3. (i - 1) * k \in Nat /\ i * k \in Nat
    <2>1. i \in Nat /\ i - 1 \in Nat
      BY <1>1, <1>2, SMT
    <2>2. \A x \in Nat : x * k \in Nat
      BY <1>1, SMT
    <2> QED BY <2>1, <2>2, Zenon
  <1>4. a \in Nat /\ a >= 1 /\ e \in Nat /\ e <= n
    <2>1. a \in Nat /\ a >= 1
      <3> DEFINE x == (i - 1) * k
      <3> HIDE DEF x
      <3>1. x \in Nat
        BY <1>3, Zenon DEF x
      <3>2. x + 1 \in Nat /\ x + 1 >= 1
        BY <3>1, SMT
      <3> QED BY <3>2, Zenon DEF x
    <2>2. e = IF i * k > n THEN n ELSE i * k
      BY Zenon DEF PieceEnd, k, n
    <2> DEFINE y == i * k
    <2>3. y \in Nat /\ e = IF y > n THEN n ELSE y
      BY <1>3, <2>2, Zenon
    <2> HIDE DEF y, e
    <2>4. e \in Nat /\ e <= n
      BY <1>1, <2>3, SMT
    <2> QED BY <2>1, <2>4, Zenon
  <1> HIDE DEF a, e
  <1>5. body \in Seq(Octet) /\ n <= MaxInt
    BY Zenon DEF IsBody, n
  <1>6. ASSUME NEW j \in a .. e PROVE body[j] \in Octet
    <2>1. j \in 1 .. Len(body)
      BY <1>1, <1>4, SMT DEF n
    <2> QED BY <1>5, <2>1, ElementOfSeq
  <1>7. p \in Seq(Octet) /\ Len(p) = IF a <= e THEN e - a + 1 ELSE 0
    BY <1>4, <1>6, SubSeqProperties
  <1> HIDE DEF p
  <1>8. Len(p) <= n
    BY <1>1, <1>4, <1>7, SMT
  <1>9. Len(p) <= MaxInt
    <2>1. Len(p) \in Nat
      BY <1>7, LenProperties
    <2>2. MaxInt \in Int
      BY SMT DEF MaxInt
    <2> DEFINE l == Len(p)
    <2>3. l \in Nat /\ l <= n
      BY <1>8, <2>1
    <2> HIDE DEF l
    <2>4. l <= MaxInt
      BY <1>1, <1>5, <2>2, <2>3, SMT
    <2> QED BY <2>4 DEF l
  <1> QED BY <1>2, <1>7, <1>9, Zenon DEF IsBody

\* sendOpen makes frames of its channel.
LEMMA OpenFrames ==
  ASSUME NEW c, NEW msg, IsMessage(msg)
  PROVE  LET fs == sendOpen(c, msg)
         IN  /\ fs \in Seq(Range(fs)) /\ fs # <<>>
             /\ \A k \in DOMAIN fs : IsFrame(c, fs[k])
  <1> DEFINE fs == sendOpen(c, msg)
             m == methodFrame(c, msg.name, msg.args)
  <1>1. IsFrame(c, m)
    <2>1. m.type = frameMethod /\ m.name = msg.name /\ m.args = msg.args
      BY MethodIs
    <2>2. m = methodFrame(c, m.name, m.args)
      BY <2>1, Zenon
    <2> HIDE DEF m
    <2> QED BY <2>1, <2>2 DEF IsFrame, frameMethod, frameHeader, frameBody
  <1>2. ASSUME NEW S, fs \in Seq(S), \A f \in S : IsFrame(c, f)
        PROVE  fs \in Seq(Range(fs)) /\ \A k \in DOMAIN fs : IsFrame(c, fs[k])
    <2> HIDE DEF fs
    <2>1. fs \in Seq(Range(fs))
      BY <1>2, SeqOfRange
    <2>2. \A k \in DOMAIN fs : fs[k] \in S
      BY <1>2, LenProperties, ElementOfSeq
    <2> QED BY <1>2, <2>1, <2>2, Zenon
  <1>3. CASE ~Named(msg.name).content
    <2>1. fs = <<m>>
      BY <1>3, Zenon DEF sendOpen
    <2> HIDE DEF m, fs
    <2>2. <<m>> \in Seq({m}) /\ <<m>> # <<>>
      OBVIOUS
    <2>3. fs \in Seq({m}) /\ fs # <<>> /\ \A f \in {m} : IsFrame(c, f)
      BY <1>1, <2>1, <2>2, Zenon
    <2>4. fs \in Seq(Range(fs)) /\ \A k \in DOMAIN fs : IsFrame(c, fs[k])
      BY <1>2, <2>3 DEF fs
    <2> QED BY <2>3, <2>4, Zenon DEF fs
  <1>4. CASE Named(msg.name).content
    <2> DEFINE h == headerFrame(c, Named(msg.name).class, Len(msg.body), msg.props)
               ps == pieces(msg.body)
               bs == [i \in DOMAIN ps |-> bodyFrame(c, ps[i])]
               S == {m, h} \cup {bs[i] : i \in DOMAIN ps}
    <2>1. fs = <<m, h>> \o bs
      BY <1>4, Zenon DEF sendOpen
    <2>2. IsBody(msg.body)
      BY <1>4, Zenon DEF IsMessage
    <2>3. Len(msg.body) \in Nat
      BY <2>2, PiecesIs, Zenon
    <2>4. IsFrame(c, h)
      <3>1. h.type = frameHeader /\ h.class = Named(msg.name).class /\ h.size = Len(msg.body) /\ h.props = msg.props
        BY HeaderIs
      <3>2. h = headerFrame(c, h.class, h.size, h.props) /\ h.size \in Nat
        BY <2>3, <3>1, Zenon
      <3> HIDE DEF h
      <3> QED BY <3>1, <3>2 DEF IsFrame, frameMethod, frameHeader, frameBody
    <2>5. ASSUME NEW i \in DOMAIN ps PROVE IsFrame(c, bodyFrame(c, ps[i]))
      <3> DEFINE b == bodyFrame(c, ps[i])
      <3>1. b.type = frameBody /\ b.body = ps[i]
        BY BodyIs
      <3>2. b = bodyFrame(c, b.body) /\ IsBody(b.body)
        BY <2>2, <3>1, PieceIsBody, Zenon
      <3> HIDE DEF b
      <3>3. IsFrame(c, b)
        BY <3>1, <3>2 DEF IsFrame, frameMethod, frameHeader, frameBody
      <3> QED BY <3>3 DEF b
    <2>6. DOMAIN ps = 1 .. PieceCount(msg.body) /\ PieceCount(msg.body) \in Nat
      BY <2>2, PiecesIs, Zenon
    <2>7. bs \in Seq(S)
      <3> DEFINE n == PieceCount(msg.body)
      <3> HIDE DEF ps, m, h, n
      <3>1. bs \in [1 .. n -> S] /\ n \in Nat
        BY <2>6, Zenon DEF n
      <3> HIDE DEF S, bs
      <3> QED BY <3>1, SeqOfFcn
    <2>8. <<m, h>> \in Seq(S) /\ Len(<<m, h>>) = 2
      <3> HIDE DEF m, h, ps, bs
      <3>1. m \in S /\ h \in S
        OBVIOUS
      <3> HIDE DEF S
      <3> QED BY <3>1
    <2>9. \A f \in S : IsFrame(c, f)
      BY <1>1, <2>4, <2>5, Zenon
    <2> HIDE DEF S, bs, h, m, fs
    <2> DEFINE mh == <<m, h>>
    <2>10. fs \in Seq(S) /\ Len(fs) = 2 + Len(bs) /\ Len(bs) \in Nat
      <3>1. mh \in Seq(S) /\ bs \in Seq(S) /\ Len(mh) = 2
        BY <2>7, <2>8, Zenon
      <3> HIDE DEF mh
      <3>2. mh \o bs \in Seq(S) /\ Len(mh \o bs) = 2 + Len(bs) /\ Len(bs) \in Nat
        <4>1. mh \o bs \in Seq(S) /\ Len(mh \o bs) = Len(mh) + Len(bs)
          BY <3>1, ConcatProperties
        <4>2. Len(bs) \in Nat
          BY <3>1, LenProperties
        <4> QED BY <3>1, <4>1, <4>2, Zenon
      <3> QED BY <2>1, <3>2, Zenon DEF mh
    <2>11. fs # <<>>
      <3>1. Len(fs) # 0
        BY <2>10, SMT
      <3> QED BY <3>1, EmptySeq
    <2> QED BY <1>2, <2>9, <2>10, <2>11, Zenon DEF fs
  <1> QED BY <1>3, <1>4, Zenon

Frames(c) == UNION {UNION {Range(FramesOf(c, s.items[c][i])) : i \in DOMAIN s.items[c]} : s \in Scripts}
AllFrames == {heartbeatFrame(0)} \cup UNION {Frames(c) : c \in Lines}

LEMMA LineShort == \A c \in Lines : IsShort(c)
  BY ChannelsAssumption, SMT DEF Lines, IsShort

LEMMA ScriptIs ==
  ASSUME NEW s \in Scripts, NEW c \in Lines
  PROVE  /\ s.items[c] \in Seq(Range(s.items[c])) /\ DOMAIN s.items = Lines
         /\ \A i \in DOMAIN s.items[c] :
              LET item == s.items[c][i]
              IN  IF "type" \in DOMAIN item THEN IsFrame(c, item) ELSE IsMessage(item)
  BY ScriptsAssumption, Zenon DEF IsScript

LEMMA ItemFrames ==
  ASSUME NEW s \in Scripts, NEW c \in Lines, NEW i \in DOMAIN s.items[c]
  PROVE  LET fs == FramesOf(c, s.items[c][i])
         IN  /\ fs \in Seq(Frames(c)) /\ fs # <<>>
             /\ \A k \in DOMAIN fs : IsFrame(c, fs[k])
  <1> DEFINE item == s.items[c][i]
             fs == FramesOf(c, item)
  <1>1. IF "type" \in DOMAIN item THEN IsFrame(c, item) ELSE IsMessage(item)
    BY ScriptIs, Zenon
  <1>2. fs \in Seq(Range(fs)) /\ fs # <<>> /\ \A k \in DOMAIN fs : IsFrame(c, fs[k])
    <2>1. CASE "type" \in DOMAIN item
      <3>1. fs = <<item>> /\ IsFrame(c, item)
        BY <1>1, <2>1, Zenon DEF FramesOf
      <3> HIDE DEF item, fs
      <3>2. <<item>> \in Seq({item}) /\ DOMAIN <<item>> = {1} /\ <<item>>[1] = item /\ <<item>> # <<>>
        OBVIOUS
      <3>3. fs \in Seq(Range(fs))
        BY <3>1, <3>2, SeqOfRange, Zenon
      <3> QED BY <3>1, <3>2, <3>3, Zenon
    <2>2. CASE "type" \notin DOMAIN item
      <3>1. fs = sendOpen(c, item) /\ IsMessage(item)
        BY <1>1, <2>2, Zenon DEF FramesOf
      <3> HIDE DEF item, fs
      <3> QED BY <3>1, OpenFrames
    <2> QED BY <2>1, <2>2, Zenon
  <1>3. Range(fs) \subseteq Frames(c)
    <2>1. \E j \in DOMAIN s.items[c] : Range(fs) = Range(FramesOf(c, s.items[c][j]))
      BY Zenon
    <2> QED BY <2>1 DEF Frames
  <1> HIDE DEF fs
  <1>4. fs \in Seq(Frames(c))
    BY <1>2, <1>3, SeqMonotonic
  <1> QED BY <1>2, <1>4, Zenon DEF fs

LEMMA FramesAre ==
  ASSUME RoundTrip(Seq(Octet)), NEW c \in Lines, NEW f \in Frames(c)
  PROVE  IsFrame(c, f) /\ (payload(f).err = "nil" => Sound(f))
  <1>0. PICK s \in Scripts : \E i \in DOMAIN s.items[c] : f \in Range(FramesOf(c, s.items[c][i]))
    BY DEF Frames
  <1>1. PICK i \in DOMAIN s.items[c] : f \in Range(FramesOf(c, s.items[c][i]))
    BY <1>0, Zenon
  <1> DEFINE fs == FramesOf(c, s.items[c][i])
  <1>2. PICK k \in DOMAIN fs : f = fs[k]
    BY <1>1, Zenon DEF Range
  <1>3. IsFrame(c, f)
    BY <1>2, ItemFrames, Zenon
  <1>4. f.type \in {frameMethod, frameHeader} => ReadsBack(f, Seq(Octet))
    BY <1>2, Zenon DEF RoundTrip
  <1> QED BY <1>3, <1>4, LineShort, FrameSound, Zenon

(***************************************************************************)
(* Where the writer is: on every channel, how much of its script is done.  *)
(***************************************************************************)
Rest(s, k) == SubSeq(s, k + 1, Len(s))

LEMMA RestIs ==
  ASSUME NEW X, NEW s \in Seq(X), NEW k \in Nat, k <= Len(s)
  PROVE  /\ Rest(s, k) \in Seq(X) /\ Len(Rest(s, k)) = Len(s) - k
         /\ Rest(s, k) = <<>> <=> k = Len(s)
         /\ Rest(s, 0) = s
         /\ k < Len(s) => /\ k + 1 \in 1 .. Len(s) /\ Head(Rest(s, k)) = s[k + 1]
                          /\ Tail(Rest(s, k)) = Rest(s, k + 1)
  <1>1. Len(s) \in Nat
    BY LenProperties
  <1>2. ASSUME NEW i \in k + 1 .. Len(s) PROVE s[i] \in X
    <2>1. i \in 1 .. Len(s)
      BY <1>1, SMT
    <2> QED BY <2>1, ElementOfSeq
  <1>3. Rest(s, k) \in Seq(X) /\ Len(Rest(s, k)) = Len(s) - k
    <2>1. SubSeq(s, k + 1, Len(s)) \in Seq(X)
          /\ Len(SubSeq(s, k + 1, Len(s))) = IF k + 1 <= Len(s) THEN Len(s) - (k + 1) + 1 ELSE 0
      BY <1>1, <1>2, SubSeqProperties
    <2> DEFINE n == Len(s)
               l == Len(SubSeq(s, k + 1, Len(s)))
    <2>2. n \in Nat /\ k <= n /\ l = IF k + 1 <= n THEN n - (k + 1) + 1 ELSE 0
      BY <1>1, <2>1, Zenon
    <2> HIDE DEF n, l
    <2>3. l = n - k
      BY <2>2, SMT
    <2> QED BY <2>1, <2>3, Zenon DEF Rest, n, l
  <1>4. Rest(s, k) = <<>> <=> k = Len(s)
    <2>1. Rest(s, k) = <<>> => Len(s) - k = 0
      BY <1>3, EmptySeq, Zenon
    <2>2. k = Len(s) => Rest(s, k) = <<>>
      BY <1>1, SubSeqEmpty DEF Rest
    <2> QED BY <1>1, <2>1, <2>2, SMT
  <1>5. Rest(s, 0) = s
    BY SubSeqFull DEF Rest
  <1>6. ASSUME k < Len(s) PROVE /\ k + 1 \in 1 .. Len(s) /\ Head(Rest(s, k)) = s[k + 1]
                                /\ Tail(Rest(s, k)) = Rest(s, k + 1)
    <2>1. k + 1 \in 1 .. Len(s) /\ Len(s) \in k + 1 .. Len(s)
      BY <1>1, <1>6, SMT
    <2>2. /\ Head(SubSeq(s, k + 1, Len(s))) = s[k + 1]
          /\ Tail(SubSeq(s, k + 1, Len(s))) = SubSeq(s, (k + 1) + 1, Len(s))
      BY <2>1, HeadTailOfSubSeq
    <2> QED BY <2>1, <2>2, Zenon DEF Rest
  <1> QED BY <1>3, <1>4, <1>5, <1>6, Zenon

LEMMA AppendSeq ==
  ASSUME NEW s, NEW e, s \in Seq(Range(s))
  PROVE  LET t == Append(s, e)
         IN  /\ t \in Seq(Range(t)) /\ Len(t) = Len(s) + 1 /\ Len(s) \in Nat
             /\ t[Len(s) + 1] = e /\ \A i \in 1 .. Len(s) : t[i] = s[i]
  <1> DEFINE X == Range(s) \cup {e}
             t == Append(s, e)
  <1>1. Range(s) \subseteq X /\ e \in X
    OBVIOUS
  <1> HIDE DEF X
  <1>2. s \in Seq(X)
    BY <1>1, SeqMonotonic
  <1>3. /\ t \in Seq(X) /\ Len(t) = Len(s) + 1 /\ t[Len(s) + 1] = e
        /\ \A i \in 1 .. Len(s) : t[i] = s[i]
    BY <1>1, <1>2, AppendProperties
  <1>4. Len(s) \in Nat
    BY <1>2, LenProperties, Zenon
  <1> HIDE DEF t
  <1>5. t \in Seq(Range(t))
    BY <1>3, SeqOfRange
  <1> QED BY <1>3, <1>4, <1>5, Zenon DEF t

\* The items of the script that are done or under way, and the frames of the one under way.
Begun(c)   == Len(result[c]) + (IF out[c] = <<>> THEN 0 ELSE 1)
Current(c) == FramesOf(c, script.items[c][Len(result[c]) + 1])
Gone(c)    == Len(Current(c)) - Len(out[c])

WriterAt(c) ==
  /\ result[c] \in Seq(Range(result[c]))
  /\ Begun(c) <= Len(script.items[c]) /\ items[c] = Rest(script.items[c], Begun(c))
  /\ out[c] # <<>> => Gone(c) \in Nat /\ out[c] = Rest(Current(c), Gone(c))
  
WriterOK ==
  /\ script \in Scripts
  /\ DOMAIN items = Lines /\ DOMAIN out = Lines /\ DOMAIN result = Lines
  /\ \A c \in Lines : WriterAt(c)

LEMMA WriterInit == Init => WriterOK
  <1> SUFFICES ASSUME Init PROVE WriterOK
    OBVIOUS
  <1>1. script \in Scripts /\ items = script.items /\ DOMAIN out = Lines /\ DOMAIN result = Lines
    BY DEF Init
  <1>2. ASSUME NEW c \in Lines PROVE WriterAt(c)
    <2> DEFINE s == script.items[c]
    <2>1. out[c] = <<>> /\ result[c] = <<>> /\ items[c] = s
      BY <1>2 DEF Init
    <2>2. s \in Seq(Range(s))
      BY <1>1, <1>2, ScriptIs, Zenon
    <2>3. result[c] \in Seq(Range(result[c])) /\ Len(result[c]) = 0
      BY <2>1, EmptySeq, Zenon
    <2>4. Begun(c) = 0
      BY <2>1, <2>3, SMT DEF Begun
    <2> HIDE DEF s
    <2>5. Len(s) \in Nat /\ 0 <= Len(s)
      BY <2>2, LenProperties
    <2>6. Rest(s, 0) = s
      BY <2>2, <2>5, RestIs
    <2> QED BY <2>1, <2>3, <2>4, <2>5, <2>6, Zenon DEF WriterAt, s
  <1>3. ASSUME NEW c \in Lines PROVE DOMAIN script.items = Lines
    BY <1>1, <1>3, ScriptIs, Zenon
  <1>4. DOMAIN items = Lines
    BY <1>1, <1>3, Zenon DEF Lines
  <1> QED BY <1>1, <1>2, <1>4, Zenon DEF WriterOK

\* The frame that is written next.
LEMMA WriterHead ==
  ASSUME WriterOK, NEW c \in Lines, out[c] # <<>>
  PROVE  /\ Len(result[c]) \in Nat /\ Len(result[c]) + 1 \in DOMAIN script.items[c]
         /\ Current(c) \in Seq(Frames(c)) /\ Current(c) # <<>>
         /\ Gone(c) \in Nat /\ Gone(c) < Len(Current(c)) /\ Gone(c) + 1 \in 1 .. Len(Current(c))
         /\ Head(out[c]) = Current(c)[Gone(c) + 1] /\ Head(out[c]) \in Frames(c)
         /\ Tail(out[c]) = Rest(Current(c), Gone(c) + 1) /\ Len(out[c]) \in Nat
         /\ Len(out[c]) = 1 <=> Gone(c) + 1 = Len(Current(c))
         /\ Tail(out[c]) = <<>> <=> Len(out[c]) = 1
         /\ Len(Tail(out[c])) = Len(out[c]) - 1
  <1> DEFINE n == Len(result[c])
             s == script.items[c]
             Fs == Current(c)
             d == Gone(c)
  <1>1. script \in Scripts /\ WriterAt(c)
    BY Zenon DEF WriterOK
  <1>2. s \in Seq(Range(s))
    BY <1>1, ScriptIs, Zenon
  <1>3. n \in Nat /\ n + 1 \in DOMAIN s
    <2>1. result[c] \in Seq(Range(result[c])) /\ Begun(c) <= Len(s) /\ Begun(c) = n + 1
      BY <1>1, Zenon DEF WriterAt, Begun
    <2>2. n \in Nat
      BY <2>1, LenProperties, Zenon
    <2>3. Len(s) \in Nat /\ DOMAIN s = 1 .. Len(s)
      BY <1>2, LenProperties, Zenon
    <2> DEFINE l == Len(s)
    <2>4. n \in Nat /\ l \in Nat /\ n + 1 <= l
      BY <2>1, <2>2, <2>3, Zenon
    <2> HIDE DEF n, l
    <2>5. n + 1 \in 1 .. l
      BY <2>4, SMT
    <2> QED BY <2>2, <2>3, <2>5, Zenon DEF l
  <1>4. Fs \in Seq(Frames(c)) /\ Fs # <<>>
    BY <1>1, <1>3, ItemFrames, Zenon DEF Current
  <1>5. d \in Nat /\ out[c] = Rest(Fs, d) /\ d = Len(Fs) - Len(out[c])
    BY <1>1, Zenon DEF WriterAt, Gone
  <1> HIDE DEF Fs, d
  <1>6. Len(Fs) \in Nat
    BY <1>4, LenProperties, Zenon
  <1>7. out[c] \in Seq(Frames(c)) /\ Len(out[c]) \in Nat /\ d <= Len(Fs) /\ Len(out[c]) # 0
    <2>0. SubSeq(Fs, d + 1, Len(Fs)) \in Seq(Frames(c))
      <3>1. ASSUME NEW i \in d + 1 .. Len(Fs) PROVE Fs[i] \in Frames(c)
        <4>1. i \in 1 .. Len(Fs)
          BY <1>5, <1>6, SMT
        <4> QED BY <1>4, <4>1, ElementOfSeq
      <3>2. d + 1 \in Int /\ Len(Fs) \in Int
        BY <1>5, <1>6, SMT
      <3> QED BY <3>1, <3>2, SubSeqProperties
    <2>1. out[c] \in Seq(Frames(c))
      BY <1>5, <2>0, Zenon DEF Rest
    <2>2. Len(out[c]) \in Nat \ {0}
      BY <2>1, EmptySeq, Zenon
    <2> DEFINE o == Len(out[c])
               l == Len(Fs)
    <2>3. o \in Nat \ {0} /\ l \in Nat /\ d = l - o
      BY <1>5, <1>6, <2>2, Zenon
    <2> HIDE DEF o, l
    <2>4. d <= l
      BY <2>3, SMT
    <2> QED BY <2>1, <2>2, <2>4, Zenon DEF l
  <1>8. d < Len(Fs) /\ (Len(out[c]) = 1 <=> d + 1 = Len(Fs))
    <2> DEFINE o == Len(out[c])
               l == Len(Fs)
    <2>3. o \in Nat /\ o # 0 /\ l \in Nat /\ d = l - o
      BY <1>5, <1>6, <1>7, Zenon
    <2> HIDE DEF o, l
    <2>4. d < l /\ (o = 1 <=> d + 1 = l)
      BY <2>3, SMT
    <2> QED BY <2>4, Zenon DEF l, o
  <1>9. d + 1 \in 1 .. Len(Fs) /\ Head(out[c]) = Fs[d + 1] /\ Tail(out[c]) = Rest(Fs, d + 1)
    <2>1. Fs \in Seq(Frames(c)) /\ d \in Nat /\ d <= Len(Fs) /\ d < Len(Fs)
      BY <1>4, <1>5, <1>7, <1>8, Zenon
    <2>2. d + 1 \in 1 .. Len(Fs) /\ Head(Rest(Fs, d)) = Fs[d + 1] /\ Tail(Rest(Fs, d)) = Rest(Fs, d + 1)
      BY <2>1, RestIs
    <2> QED BY <1>5, <2>2, Zenon
  <1>10. Fs[d + 1] \in Frames(c)
    BY <1>4, <1>9, ElementOfSeq, Zenon
  <1>11. Len(Tail(out[c])) = Len(out[c]) - 1 /\ (Tail(out[c]) = <<>> <=> Len(out[c]) = 1)
    <2>1. Tail(out[c]) \in Seq(Frames(c)) /\ Len(Tail(out[c])) = Len(out[c]) - 1
      BY <1>7, HeadTailProperties, Zenon
    <2>2. Tail(out[c]) = <<>> <=> Len(Tail(out[c])) = 0
      BY <2>1, EmptySeq
    <2> DEFINE o == Len(out[c])
               z == Len(Tail(out[c]))
    <2>3. o \in Nat /\ z = o - 1
      BY <1>7, <2>1, Zenon
    <2> HIDE DEF o, z
    <2>4. z = 0 <=> o = 1
      BY <2>3, SMT
    <2> QED BY <2>1, <2>2, <2>4, Zenon DEF o, z
  <1> QED BY <1>3, <1>4, <1>5, <1>7, <1>8, <1>9, <1>10, <1>11, Zenon DEF Fs, d

\* The item that is sent next.
LEMMA WriterItem ==
  ASSUME WriterOK, NEW c \in Lines, out[c] = <<>>, items[c] # <<>>
  PROVE  LET s == script.items[c]
             n == Len(result[c])
         IN  /\ DOMAIN s = 1 .. Len(s) /\ n \in Nat /\ result[c] \in Seq(Range(result[c]))
             /\ n + 1 \in 1 .. Len(s) /\ Head(items[c]) = s[n + 1] /\ Tail(items[c]) = Rest(s, n + 1)
             /\ n + 1 \in Nat /\ n + 1 <= Len(s)
  <1> DEFINE s == script.items[c]
             n == Len(result[c])
  <1>1. script \in Scripts /\ WriterAt(c)
    BY Zenon DEF WriterOK
  <1>2. s \in Seq(Range(s)) /\ Len(s) \in Nat /\ DOMAIN s = 1 .. Len(s)
    BY <1>1, ScriptIs, LenProperties, Zenon
  <1>4. n \in Nat /\ n <= Len(s) /\ items[c] = Rest(s, n) /\ result[c] \in Seq(Range(result[c]))
    <2>1. n \in Nat /\ result[c] \in Seq(Range(result[c]))
      BY <1>1, LenProperties, Zenon DEF WriterAt
    <2>2. Begun(c) = n
      BY <2>1, SMT DEF Begun
    <2> QED BY <1>1, <2>1, <2>2, Zenon DEF WriterAt
  <1> HIDE DEF s, n
  <1>5. n < Len(s)
    <2>0. s \in Seq(Range(s)) /\ n \in Nat /\ n <= Len(s)
      BY <1>2, <1>4, Zenon
    <2>1. Rest(s, n) = <<>> <=> n = Len(s)
      BY <2>0, RestIs
    <2>2. n # Len(s) /\ Len(s) \in Nat
      BY <1>2, <1>4, <2>1, Zenon
    <2> HIDE <1>2, <1>4
    <2>3. n \in Nat /\ n <= Len(s)
      BY <2>0, Zenon
    <2> QED BY <2>2, <2>3, SMT
  <1>6. n + 1 \in 1 .. Len(s) /\ Head(items[c]) = s[n + 1] /\ Tail(items[c]) = Rest(s, n + 1)
    <2>1. n + 1 \in 1 .. Len(s) /\ Head(Rest(s, n)) = s[n + 1] /\ Tail(Rest(s, n)) = Rest(s, n + 1)
      <3>1. s \in Seq(Range(s)) /\ n \in Nat /\ n <= Len(s) /\ n < Len(s)
        BY <1>2, <1>4, <1>5, Zenon
      <3> QED BY <3>1, RestIs
    <2> QED BY <1>4, <2>1, Zenon
  <1>7. n + 1 \in Nat /\ n + 1 <= Len(s)
    <2>1. n \in Nat /\ Len(s) \in Nat /\ n < Len(s)
      BY <1>2, <1>4, <1>5, Zenon
    <2> QED BY <2>1, SMT
  <1> QED BY <1>2, <1>4, <1>6, <1>7, Zenon DEF s, n

LEMMA WriterSend ==
  ASSUME WriterOK, NEW c \in Lines, Send(c)
  PROVE  WriterOK'
  <1> DEFINE s == script.items[c]
             n == Len(result[c])
             item == Head(items[c])
             Bad == \E table \in Checked(item) : ~Validate(table)
  <1>1. script \in Scripts /\ DOMAIN items = Lines /\ DOMAIN out = Lines /\ DOMAIN result = Lines
    BY Zenon DEF WriterOK
  <1>3. /\ out[c] = <<>> /\ items[c] # <<>> /\ script' = script
        /\ items' = [items EXCEPT ![c] = Tail(items[c])]
        /\ IF Bad THEN result' = [result EXCEPT ![c] = Append(result[c], "invalid")] /\ out' = out
           ELSE out' = [out EXCEPT ![c] = FramesOf(c, item)] /\ result' = result
    BY Zenon DEF Send
  <1>2. DOMAIN s = 1 .. Len(s)
    BY <1>3, WriterItem, Zenon
  <1>4. n \in Nat /\ result[c] \in Seq(Range(result[c]))
    BY <1>3, WriterItem, Zenon
  <1>6. n + 1 \in 1 .. Len(s) /\ item = s[n + 1] /\ Tail(items[c]) = Rest(s, n + 1)
    BY <1>3, WriterItem, Zenon
  <1>7. n + 1 \in Nat /\ n + 1 <= Len(s)
    BY <1>3, WriterItem, Zenon
  <1> HIDE DEF s, n
  <1> HIDE DEF item, Bad
  <1>8. /\ DOMAIN items' = Lines /\ DOMAIN out' = Lines /\ DOMAIN result' = Lines
        /\ items'[c] = Rest(s, n + 1) /\ script' \in Scripts /\ script'.items[c] = s
    BY <1>1, <1>3, <1>6, Zenon DEF s
  <1>9. WriterAt(c)'
    <2>1. CASE Bad
      <3>1. result'[c] = Append(result[c], "invalid") /\ out'[c] = <<>>
        BY <1>1, <1>3, <2>1, Zenon
      <3>2. result'[c] \in Seq(Range(result'[c])) /\ Len(result'[c]) = n + 1
        BY <1>4, <3>1, AppendSeq DEF n
      <3>3. Len(result'[c]) + 0 = n + 1
        BY <1>7, <3>2, SMT
      <3>4. Begun(c)' = n + 1
        BY <3>1, <3>3, Zenon DEF Begun
      <3> QED BY <1>7, <1>8, <3>1, <3>2, <3>4, Zenon DEF WriterAt
    <2>2. CASE ~Bad
      <3> DEFINE Fs == FramesOf(c, item)
      <3>1. result'[c] = result[c] /\ out'[c] = Fs
        BY <1>1, <1>3, <2>2, Zenon
      <3>2. Fs \in Seq(Frames(c)) /\ Fs # <<>>
        BY <1>1, <1>2, <1>6, ItemFrames, Zenon DEF s
      <3>3. Begun(c)' = n + 1
        BY <3>1, <3>2, Zenon DEF Begun, n
      <3>4. Current(c)' = Fs
        BY <1>6, <1>8, <3>1, Zenon DEF Current, n
      <3> HIDE DEF Fs
      <3>5. Len(Fs) \in Nat /\ Len(Fs) - Len(Fs) = 0 /\ Rest(Fs, 0) = Fs
        <4>1. Len(Fs) \in Nat
          BY <3>2, LenProperties, Zenon
        <4>2. 0 \in Nat /\ 0 <= Len(Fs) /\ Len(Fs) - Len(Fs) = 0
          BY <4>1, SMT
        <4> QED BY <3>2, <4>1, <4>2, RestIs
      <3>6. Gone(c)' = 0
        BY <3>1, <3>4, <3>5, Zenon DEF Gone
      <3>7. Gone(c)' \in Nat /\ out'[c] = Rest(Current(c)', Gone(c)')
        BY <3>1, <3>4, <3>5, <3>6
      <3> QED BY <1>4, <1>7, <1>8, <3>1, <3>3, <3>7, Zenon DEF WriterAt
    <2> QED BY <2>1, <2>2, Zenon
  <1>10. ASSUME NEW x \in Lines, x # c PROVE WriterAt(x)'
    <2>1. items'[x] = items[x] /\ out'[x] = out[x] /\ result'[x] = result[x]
      BY <1>1, <1>3, <1>10, Zenon
    <2>2. WriterAt(x)
      BY Zenon DEF WriterOK
    <2> QED BY <1>3, <2>1, <2>2, Zenon DEF WriterAt, Begun, Gone, Current
  <1> QED BY <1>8, <1>9, <1>10, Zenon DEF WriterOK

LEMMA WriterWrites ==
  ASSUME WriterOK, NEW c \in Lines, WriteFrame(c)
  PROVE  WriterOK'
  <1> DEFINE s == script.items[c]
             n == Len(result[c])
             f == Head(out[c])
             Fs == Current(c)
             d == Gone(c)
             e == writeFrame(f).err
  <1>1. script \in Scripts /\ WriterAt(c) /\ DOMAIN items = Lines /\ DOMAIN out = Lines /\ DOMAIN result = Lines
    BY Zenon DEF WriterOK
  <1>2. /\ out[c] # <<>> /\ script' = script /\ items' = items
        /\ IF e = "nil"
           THEN /\ out' = [out EXCEPT ![c] = Tail(out[c])]
                /\ result' = IF Len(out[c]) = 1 THEN [result EXCEPT ![c] = Append(result[c], "nil")] ELSE result
           ELSE out' = [out EXCEPT ![c] = <<>>] /\ result' = [result EXCEPT ![c] = Append(result[c], e)]
    BY Zenon DEF WriteFrame
  <1>3. /\ n \in Nat /\ Fs \in Seq(Frames(c)) /\ d \in Nat /\ Tail(out[c]) = Rest(Fs, d + 1)
        /\ Tail(out[c]) = <<>> <=> Len(out[c]) = 1
        /\ Len(Tail(out[c])) = Len(out[c]) - 1 /\ Len(out[c]) \in Nat
    BY <1>2, WriterHead, Zenon
  <1>4. result[c] \in Seq(Range(result[c])) /\ items[c] = Rest(s, n + 1) /\ n + 1 <= Len(s)
    BY <1>1, <1>2, Zenon DEF WriterAt, Begun
  <1> HIDE DEF e
  <1>5. ASSUME NEW x, result' = [result EXCEPT ![c] = Append(result[c], x)], out'[c] = <<>>
        PROVE  WriterAt(c)'
    <2>1. result'[c] = Append(result[c], x)
      BY <1>1, <1>5, Zenon
    <2>2. result'[c] \in Seq(Range(result'[c])) /\ Len(result'[c]) = n + 1
      BY <1>4, <2>1, AppendSeq
    <2>3. Len(result'[c]) + 0 = n + 1
      BY <1>3, <2>2, SMT
    <2>4. Begun(c)' = n + 1
      BY <1>5, <2>3, Zenon DEF Begun
    <2> HIDE DEF n
    <2> QED BY <1>2, <1>4, <1>5, <2>2, <2>4, Zenon DEF WriterAt
  <1>6. WriterAt(c)' /\ DOMAIN out' = Lines /\ DOMAIN result' = Lines
    <2>1. CASE e # "nil"
      <3>1. out'[c] = <<>> /\ DOMAIN out' = Lines /\ DOMAIN result' = Lines
        BY <1>1, <1>2, <2>1, Zenon
      <3> QED BY <1>2, <1>5, <2>1, <3>1, Zenon
    <2>2. CASE e = "nil" /\ Len(out[c]) = 1
      <3>1. out'[c] = <<>> /\ DOMAIN out' = Lines /\ DOMAIN result' = Lines
        BY <1>1, <1>2, <1>3, <2>2, Zenon
      <3> QED BY <1>2, <1>5, <2>2, <3>1, Zenon
    <2>3. CASE e = "nil" /\ Len(out[c]) # 1
      <3>1. out'[c] = Tail(out[c]) /\ result' = result /\ DOMAIN out' = Lines /\ DOMAIN result' = Lines
        BY <1>1, <1>2, <2>3, Zenon
      <3>2. out'[c] # <<>>
        BY <1>3, <2>3, <3>1, Zenon
      <3>3. Begun(c)' = n + 1 /\ Current(c)' = Fs
        BY <1>2, <3>1, <3>2, Zenon DEF Begun, Current
      <3>4. Gone(c)' = d + 1
        <4> DEFINE o == Len(out[c])
                   l == Len(Fs)
        <4>1. o \in Nat /\ Len(out'[c]) = o - 1 /\ l \in Nat /\ d = l - o
          BY <1>3, <3>1, LenProperties, Zenon DEF Gone
        <4>2. Gone(c)' = l - Len(out'[c])
          BY <3>3, Zenon DEF Gone
        <4> HIDE DEF o, l, d
        <4> QED BY <4>1, <4>2, SMT
      <3>5. d + 1 \in Nat
        BY <1>3, SMT
      <3> HIDE DEF d, Fs, n
      <3>6. Gone(c)' \in Nat /\ out'[c] = Rest(Current(c)', Gone(c)')
        BY <1>3, <3>1, <3>3, <3>4, <3>5, Zenon
      <3> QED BY <1>2, <1>4, <3>1, <3>3, <3>6, Zenon DEF WriterAt
    <2> QED BY <2>1, <2>2, <2>3, Zenon
  <1>7. ASSUME NEW x \in Lines, x # c PROVE WriterAt(x)'
    <2>1. items'[x] = items[x] /\ out'[x] = out[x] /\ result'[x] = result[x]
      BY <1>1, <1>2, <1>7, Zenon
    <2>2. WriterAt(x)
      BY Zenon DEF WriterOK
    <2> QED BY <1>2, <2>1, <2>2, Zenon DEF WriterAt, Begun, Gone, Current
  <1> QED BY <1>1, <1>2, <1>6, <1>7, Zenon DEF WriterOK

LEMMA WriterNext == WriterOK /\ [Next]_vars => WriterOK'
  <1> SUFFICES ASSUME WriterOK, [Next]_vars PROVE WriterOK'
    OBVIOUS
  <1>1. ASSUME script' = script, items' = items, out' = out, result' = result PROVE WriterOK'
    BY <1>1, Zenon DEF WriterOK, WriterAt, Begun, Gone, Current
  <1>2. CASE Heartbeat
    BY <1>1, <1>2, Zenon DEF Heartbeat
  <1>3. CASE Cut
    BY <1>1, <1>3 DEF Cut, wVars
  <1>4. CASE reader
    BY <1>1, <1>4 DEF reader, wVars
  <1>5. CASE UNCHANGED vars
    BY <1>1, <1>5 DEF vars, wVars
  <1>6. ASSUME NEW c \in Lines, Send(c) \/ WriteFrame(c) PROVE WriterOK'
    BY <1>6, WriterSend, WriterWrites, Zenon
  <1> QED BY <1>2, <1>3, <1>4, <1>5, <1>6, Zenon DEF Next

(***************************************************************************)
(* The stream: what is on the wire is what the frames still to be read are *)
(* written as, less what the end of the stream has lost.                   *)
(***************************************************************************)
LEMMA Halves ==
  ASSUME NEW X, NEW s \in Seq(X), NEW n \in Nat, n <= Len(s)
  PROVE  SubSeq(s, 1, n) \o Rest(s, n) = s
  <1>1. Len(s) \in Nat /\ SubSeq(s, 1, Len(s)) = s
    BY LenProperties, SubSeqFull
  <1>2. 1 \in 1 .. Len(s) + 1 /\ n \in 1 - 1 .. Len(s) /\ Len(s) \in n .. Len(s)
    BY <1>1, SMT
  <1>3. SubSeq(s, 1, n) \o SubSeq(s, n + 1, Len(s)) = SubSeq(s, 1, Len(s))
    BY <1>2, ConcatAdjacentSubSeq, Zenon
  <1> QED BY <1>1, <1>3, Zenon DEF Rest

LEMMA Split ==
  ASSUME NEW a, NEW b, NEW c, NEW d, IsOctets(a), IsOctets(b), IsOctets(c), IsOctets(d),
         Join(a, b) = Join(c, d)
  PROVE  /\ Len(c) <= Len(a) => \E x : IsOctets(x) /\ a = Join(c, x) /\ Join(x, b) = d
         /\ Len(a) <= Len(c) => a = SubSeq(c, 1, Len(a))
  <1>0. a \in Seq(Octet) /\ b \in Seq(Octet) /\ c \in Seq(Octet) /\ d \in Seq(Octet) /\ a \o b = c \o d
    BY Zenon DEF IsOctets, Join
  <1>1. Len(a) \in Nat /\ Len(c) \in Nat
    BY <1>0, LenProperties, Zenon
  <1>2. ASSUME Len(c) <= Len(a) PROVE \E x : IsOctets(x) /\ a = Join(c, x) /\ Join(x, b) = d
    <2> DEFINE x == Rest(a, Len(c))
    <2>1. x \in Seq(Octet)
      BY <1>0, <1>1, <1>2, RestIs, Zenon
    <2>2. SubSeq(a \o b, 1, Len(c)) = SubSeq(a, 1, Len(c))
      BY <1>0, <1>1, <1>2, CutBefore, Zenon
    <2>3. SubSeq(c \o d, 1, Len(c)) = c
      BY <1>0, TakeDrop, Zenon
    <2>4. SubSeq(a, 1, Len(c)) \o x = a
      BY <1>0, <1>1, <1>2, Halves, Zenon
    <2>5. a = c \o x
      BY <1>0, <2>2, <2>3, <2>4, Zenon
    <2> HIDE DEF x
    <2>6. c \o (x \o b) = c \o d
      <3>1. IsOctets(c) /\ IsOctets(x) /\ IsOctets(b)
        BY <1>0, <2>1, Zenon DEF IsOctets
      <3>2. Join(Join(c, x), b) = Join(c, Join(x, b))
        BY <3>1, OctetsAssoc
      <3> QED BY <1>0, <2>5, <3>2, Zenon DEF Join
    <2>7. x \o b = d
      <3> DEFINE xb == x \o b
      <3>1. xb \in Seq(Octet)
        BY <1>0, <2>1, ConcatProperties, Zenon
      <3>2. c \o xb = c \o d
        BY <2>6, Zenon
      <3> HIDE DEF xb
      <3>3. xb = d
        BY <1>0, <3>1, <3>2, ConcatSimplifications, Zenon
      <3> QED BY <3>3 DEF xb
    <2> QED BY <2>1, <2>5, <2>7, Zenon DEF IsOctets, Join
  <1>3. ASSUME Len(a) <= Len(c) PROVE a = SubSeq(c, 1, Len(a))
    <2>1. SubSeq(a \o b, 1, Len(a)) = a
      BY <1>0, TakeDrop, Zenon
    <2>2. SubSeq(c \o d, 1, Len(a)) = SubSeq(c, 1, Len(a))
      BY <1>0, <1>1, <1>3, CutBefore, Zenon
    <2> QED BY <1>0, <2>1, <2>2, Zenon
  <1> QED BY <1>2, <1>3, Zenon

\* t[k] is the stream behind the first k frames.
Tails(t, fs) ==
  /\ t \in [0 .. Len(fs) -> Seq(Octet)] /\ t[Len(fs)] = <<>>
  /\ \A k \in 0 .. Len(fs) - 1 : t[k] = writeFrame(fs[k + 1]).out \o t[k + 1]

AllOctets(fs) == \A i \in 1 .. Len(fs) : writeFrame(fs[i]).out \in Seq(Octet)

Longer(u, t, n, w) == \A k \in 0 .. n : u[k] = t[k] \o w

LEMMA TailsAppend ==
  ASSUME NEW X, NEW fs, fs \in Seq(X), NEW f \in X, AllOctets(fs), IsOctets(writeFrame(f).out), NEW t, Tails(t, fs)
  PROVE  \E u : Tails(u, Append(fs, f)) /\ Longer(u, t, Len(fs), writeFrame(f).out)
  <1> DEFINE n == Len(fs)
             g == Append(fs, f)
             w == writeFrame(f).out
             u == [k \in 0 .. n + 1 |-> IF k <= n THEN t[k] \o w ELSE <<>>]
  <1>1. n \in Nat /\ Len(g) = n + 1 /\ g[n + 1] = f /\ \A i \in 1 .. n : g[i] = fs[i]
    BY AppendProperties, LenProperties
  <1>2. t \in [0 .. n -> Seq(Octet)] /\ t[n] = <<>> /\ \A k \in 0 .. n - 1 : t[k] = writeFrame(fs[k + 1]).out \o t[k + 1]
    BY Zenon DEF Tails
  <1>3. w \in Seq(Octet) /\ \A i \in 1 .. n : writeFrame(fs[i]).out \in Seq(Octet)
    BY Zenon DEF AllOctets, IsOctets
  <1> HIDE DEF n, g, w
  <1>4. ASSUME NEW k \in 0 .. n PROVE u[k] = t[k] \o w /\ t[k] \in Seq(Octet) /\ t[k] \o w \in Seq(Octet)
    <2>1. k \in 0 .. n + 1 /\ k <= n
      BY <1>1, SMT
    <2>2. t[k] \in Seq(Octet)
      BY <1>2, Zenon
    <2>3. t[k] \o w \in Seq(Octet)
      BY <1>3, <2>2, ConcatProperties, Zenon
    <2> QED BY <2>1, <2>2, <2>3, Zenon
  <1>5. u[n + 1] = <<>>
    <2>1. n + 1 \in 0 .. n + 1 /\ ~(n + 1 <= n)
      BY <1>1, SMT
    <2> QED BY <2>1, Zenon
  <1>6. u \in [0 .. n + 1 -> Seq(Octet)]
    <2>1. ASSUME NEW k \in 0 .. n + 1 PROVE (IF k <= n THEN t[k] \o w ELSE <<>>) \in Seq(Octet)
      <3>1. k <= n => k \in 0 .. n
        BY <1>1, SMT
      <3>2. <<>> \in Seq(Octet)
        BY EmptySeq, Zenon
      <3> QED BY <1>4, <3>1, <3>2, Zenon
    <2> QED BY <2>1, Zenon
  <1>7. ASSUME NEW k \in 0 .. n PROVE u[k] = writeFrame(g[k + 1]).out \o u[k + 1]
    <2>1. CASE k = n
      <3>1. w \o <<>> = w /\ <<>> \o w = w
        BY <1>3, ConcatEmptySeq, Zenon
      <3>2. u[n] = w
        BY <1>2, <1>4, <2>1, <3>1, Zenon
      <3>3. g[n + 1] = f
        BY <1>1, Zenon
      <3> HIDE DEF u
      <3> QED BY <1>5, <2>1, <3>1, <3>2, <3>3, Zenon DEF w
    <2>2. CASE k # n
      <3> DEFINE j == k + 1
                 v == writeFrame(fs[k + 1]).out
      <3>1. k \in 0 .. n - 1 /\ j \in 1 .. n /\ j \in 0 .. n
        BY <1>1, <2>2, SMT
      <3>2. t[k] = v \o t[j] /\ g[j] = fs[j] /\ v \in Seq(Octet)
        BY <1>1, <1>2, <1>3, <3>1, Zenon
      <3>3. u[k] = t[k] \o w /\ u[j] = t[j] \o w /\ t[j] \in Seq(Octet)
        BY <1>4, <3>1, Zenon
      <3> HIDE DEF u, j
      <3>4. (v \o t[j]) \o w = v \o (t[j] \o w)
        <4>1. IsOctets(v) /\ IsOctets(t[j]) /\ IsOctets(w)
          BY <1>3, <3>2, <3>3, Zenon DEF IsOctets
        <4>2. Join(Join(v, t[j]), w) = Join(v, Join(t[j], w))
          BY <4>1, OctetsAssoc
        <4> QED BY <4>2, Zenon DEF Join
      <3> QED BY <3>2, <3>3, <3>4, Zenon DEF j
    <2> QED BY <2>1, <2>2, Zenon
  <1>8. Tails(u, g)
    <2>1. (n + 1) - 1 = n
      BY <1>1, SMT
    <2> HIDE DEF u
    <2>2. \A k \in 0 .. (n + 1) - 1 : u[k] = writeFrame(g[k + 1]).out \o u[k + 1]
      BY <1>7, <2>1, Zenon
    <2> QED BY <1>1, <1>5, <1>6, <2>2, Zenon DEF Tails
  <1> QED BY <1>4, <1>8, Zenon DEF n, g, w, Longer

OnWire ==
  /\ wire \in Seq(Octet)
  /\ \E t : \E lost \in Seq(Octet) :
       Tails(t, written) /\ wire \o lost = t[Len(read)] /\ (~down => lost = <<>>)

StreamOK ==
  /\ written \in Seq(AllFrames) /\ \A i \in 1 .. Len(written) : Sound(written[i])
  /\ read \in Seq(Range(read)) /\ Len(read) <= Len(written)
  /\ \A i \in 1 .. Len(read) : read[i] = KeptFrame(written[i])
  /\ rerr # "nil" => down
  /\ rerr = "nil" => OnWire

LEMMA StreamInit == Init => StreamOK
  <1> SUFFICES ASSUME Init PROVE StreamOK
    OBVIOUS
  <1>1. written = <<>> /\ wire = <<>> /\ down = FALSE /\ read = <<>> /\ rerr = "nil"
    BY DEF Init
  <1>2. <<>> \in Seq(AllFrames) /\ <<>> \in Seq(Range(<<>>)) /\ <<>> \in Seq(Octet) /\ Len(<<>>) = 0
    BY EmptySeq, Zenon
  <1>3. /\ 0 <= 0 /\ (\A i \in 1 .. 0 : FALSE) /\ (\A i \in 0 .. 0 - 1 : FALSE) /\ 0 \in 0 .. 0
    OBVIOUS
  <1> DEFINE t == [k \in 0 .. 0 |-> <<>>]
  <1>4. t \in [0 .. 0 -> Seq(Octet)] /\ t[0] = <<>>
    BY <1>2, <1>3, Zenon
  <1> HIDE DEF t
  <1>5. Tails(t, <<>>)
    BY <1>2, <1>3, <1>4, Zenon DEF Tails
  <1>6. <<>> \o <<>> = <<>>
    BY <1>2, ConcatEmptySeq, Zenon
  <1>7. OnWire
    BY <1>1, <1>2, <1>4, <1>5, <1>6, Zenon DEF OnWire
  <1> QED BY <1>1, <1>2, <1>3, <1>7, Zenon DEF StreamOK

\* A frame more: WriteFrame and Heartbeat.
LEMMA StreamWrites ==
  ASSUME StreamOK, NEW f \in AllFrames, Sound(f), ~down, down' = down, read' = read, rerr' = rerr,
         wire' = wire \o writeFrame(f).out, written' = Append(written, f)
  PROVE  StreamOK'
  <1> DEFINE n == Len(written)
             w == writeFrame(f).out
  <1>1. /\ written \in Seq(AllFrames) /\ (\A i \in 1 .. n : Sound(written[i])) /\ rerr = "nil" /\ OnWire
        /\ read \in Seq(Range(read)) /\ Len(read) <= n /\ \A i \in 1 .. Len(read) : read[i] = KeptFrame(written[i])
    BY Zenon DEF StreamOK
  <1>2. n \in Nat /\ Len(read) \in Nat
    BY <1>1, LenProperties, Zenon
  <1>3. /\ written' \in Seq(AllFrames) /\ Len(written') = n + 1 /\ written'[n + 1] = f
        /\ \A i \in 1 .. n : written'[i] = written[i]
    BY <1>1, AppendProperties
  <1>4. w \in Seq(Octet) /\ \A i \in 1 .. n : writeFrame(written[i]).out \in Seq(Octet)
    BY <1>1, FrameReadsBack, EmptySeq, Zenon
  <1> HIDE DEF n
  <1>5. ASSUME NEW i \in 1 .. n + 1 PROVE Sound(written'[i])
    <2>1. i = n + 1 \/ i \in 1 .. n
      BY <1>2, SMT
    <2> QED BY <1>1, <1>3, <2>1, Zenon
  <1>6. ASSUME NEW i \in 1 .. Len(read) PROVE read[i] = KeptFrame(written'[i])
    <2>1. i \in 1 .. n
      BY <1>1, <1>2, SMT
    <2> QED BY <1>1, <1>3, <2>1, Zenon
  <1>7. Len(read) <= n + 1 /\ Len(read) \in 0 .. n
    <2>1. Len(read) \in Nat /\ n \in Nat /\ Len(read) <= n
      BY <1>1, <1>2, Zenon
    <2> QED BY <2>1, SMT
  <1>8. OnWire'
    <2>1. PICK t : \E lost \in Seq(Octet) : Tails(t, written) /\ wire \o lost = t[Len(read)] /\ lost = <<>>
      BY <1>1, Zenon DEF OnWire
    <2>2. Tails(t, written) /\ wire \in Seq(Octet) /\ wire = t[Len(read)]
      BY <1>1, <2>1, ConcatEmptySeq, Zenon DEF OnWire
    <2>3. PICK u : Tails(u, Append(written, f)) /\ Longer(u, t, Len(written), writeFrame(f).out)
      <3>1. written \in Seq(AllFrames) /\ AllOctets(written) /\ IsOctets(writeFrame(f).out) /\ Tails(t, written)
        BY <1>1, <1>4, <2>2, Zenon DEF n, AllOctets, IsOctets
      <3> QED BY <3>1, TailsAppend
    <2>4. u[Len(read)] = wire \o w
      BY <1>7, <2>2, <2>3, Zenon DEF n, Longer
    <2>5. wire \o w \in Seq(Octet) /\ <<>> \in Seq(Octet)
      BY <1>4, <2>2, ConcatProperties, EmptySeq, Zenon
    <2>6. (wire \o w) \o <<>> = wire \o w
      BY <2>5, ConcatEmptySeq, Zenon
    <2> QED BY <2>3, <2>4, <2>5, <2>6, Zenon DEF OnWire
  <1> QED BY <1>1, <1>3, <1>5, <1>6, <1>7, <1>8, Zenon DEF StreamOK

LEMMA StreamCut ==
  ASSUME StreamOK, Cut
  PROVE  StreamOK'
  <1>1. /\ ~down /\ down' = TRUE /\ written' = written /\ read' = read /\ rerr' = rerr
        /\ \E n \in 0 .. Len(wire) : wire' = SubSeq(wire, 1, n)
    BY DEF Cut, wVars, rVars
  <1>2. rerr = "nil" /\ OnWire
    BY <1>1, Zenon DEF StreamOK
  <1>3. PICK n \in 0 .. Len(wire) : wire' = SubSeq(wire, 1, n)
    BY <1>1, Zenon
  <1>4. PICK t : \E lost \in Seq(Octet) : Tails(t, written) /\ wire \o lost = t[Len(read)] /\ (~down => lost = <<>>)
    BY <1>2, Zenon DEF OnWire
  <1>5. Tails(t, written) /\ wire = t[Len(read)] /\ wire \in Seq(Octet)
    BY <1>1, <1>2, <1>4, ConcatEmptySeq, Zenon DEF OnWire
  <1>6. n \in Nat /\ n <= Len(wire)
    <2>1. Len(wire) \in Nat
      BY <1>5, LenProperties, Zenon
    <2> QED BY <2>1, SMT
  <1>7. SubSeq(wire, 1, n) \o Rest(wire, n) = wire /\ SubSeq(wire, 1, n) \in Seq(Octet) /\ Rest(wire, n) \in Seq(Octet)
    BY <1>5, <1>6, Halves, PrefixIs, RestIs, Zenon
  <1>8. OnWire'
    BY <1>1, <1>3, <1>5, <1>7, Zenon DEF OnWire
  <1> QED BY <1>1, <1>2, <1>8, Zenon DEF StreamOK

\* The reader gets the next frame and leaves the rest, or the stream has ended.
LEMMA ReaderGets ==
  ASSUME StreamOK, rerr = "nil", wire # <<>> \/ down
  PROVE  LET r == ReadFrame(wire)
             k == Len(read)
         IN  /\ r.err # "nil" => down
             /\ r.err = "nil" =>
                  /\ k < Len(written) /\ r.v = KeptFrame(written[k + 1]) /\ r.rest \in Seq(Octet)
                  /\ \E t : \E lost \in Seq(Octet) :
                       Tails(t, written) /\ r.rest \o lost = t[k + 1] /\ (~down => lost = <<>>)
  <1> DEFINE r == ReadFrame(wire)
             k == Len(read)
             n == Len(written)
  <1>1. /\ written \in Seq(AllFrames) /\ (\A i \in 1 .. n : Sound(written[i])) /\ OnWire
        /\ read \in Seq(Range(read)) /\ k <= n
    BY Zenon DEF StreamOK
  <1>2. n \in Nat /\ k \in Nat
    BY <1>1, LenProperties, Zenon
  <1>3. PICK t : \E lost \in Seq(Octet) : Tails(t, written) /\ wire \o lost = t[k] /\ (~down => lost = <<>>)
    BY <1>1, Zenon DEF OnWire
  <1>4. PICK lost \in Seq(Octet) : Tails(t, written) /\ wire \o lost = t[k] /\ (~down => lost = <<>>)
    BY <1>3, Zenon
  <1>5. wire \in Seq(Octet)
    BY <1>1, Zenon DEF OnWire
  <1> HIDE DEF r, k, n
  <1>6. CASE k = n
    <2>1. wire \o lost = <<>>
      BY <1>4, <1>6, Zenon DEF Tails, n
    <2>2. wire = <<>>
      BY <1>5, <2>1, ConcatSimplifications, Zenon
    <2>3. r.err # "nil" /\ down
      BY <2>2, NothingFails, Zenon DEF r
    <2> QED BY <2>3, Zenon DEF r, k
  <1>7. CASE k # n
    <2> DEFINE f == written[k + 1]
               w == writeFrame(f).out
    <2>1. k < n /\ k + 1 \in 1 .. n /\ k \in 0 .. n - 1 /\ k + 1 \in 0 .. n
      <3>1. k \in Nat /\ n \in Nat /\ k <= n
        BY <1>1, <1>2, Zenon
      <3> QED BY <1>7, <3>1, SMT
    <2>2. Sound(f) /\ t[k] = w \o t[k + 1] /\ t[k + 1] \in Seq(Octet)
      BY <1>1, <1>4, <2>1, Zenon DEF Tails, n
    <2>3. w \in Seq(Octet) /\ \A x \in Seq(Octet) : ReadFrame(w \o x) = Got(KeptFrame(f), x)
      BY <2>2, FrameReadsBack, EmptySeq, Zenon
    <2> HIDE DEF f, w
    <2>4. wire \o lost = w \o t[k + 1]
      BY <1>4, <2>2, Zenon
    <2>5. Len(wire) \in Nat /\ Len(w) \in Nat
      BY <1>5, <2>3, LenProperties, Zenon
    <2>6. CASE Len(w) <= Len(wire)
      <3>1. PICK x \in Seq(Octet) : wire = w \o x /\ x \o lost = t[k + 1]
        <4> DEFINE y == t[k + 1]
        <4>1. /\ IsOctets(wire) /\ IsOctets(lost) /\ IsOctets(w) /\ IsOctets(y)
              /\ Join(wire, lost) = Join(w, y) /\ Len(w) <= Len(wire)
          BY <1>5, <2>2, <2>3, <2>4, <2>6, Zenon DEF IsOctets, Join
        <4> HIDE DEF y
        <4>2. \E x : IsOctets(x) /\ wire = Join(w, x) /\ Join(x, lost) = y
          BY <4>1, Split
        <4> QED BY <4>2, Zenon DEF y, IsOctets, Join
      <3>2. r = Got(KeptFrame(f), x)
        BY <2>3, <3>1, Zenon DEF r
      <3> DEFINE kept == KeptFrame(f)
      <3> HIDE DEF kept
      <3>3. r = Got(kept, x)
        BY <3>2 DEF kept
      <3>4. r.err = "nil" /\ r.v = kept /\ r.rest = x
        BY <3>3, GotIs
      <3>5. /\ r.err = "nil" /\ k < n /\ r.v = KeptFrame(written[k + 1]) /\ r.rest \in Seq(Octet)
            /\ Tails(t, written) /\ r.rest \o lost = t[k + 1] /\ (~down => lost = <<>>)
        BY <1>4, <2>1, <3>1, <3>4, Zenon DEF kept, f
      <3> QED BY <3>5, Zenon DEF r, k, n
    <2>7. CASE ~(Len(w) <= Len(wire))
      <3>1. Len(wire) <= Len(w) /\ Len(wire) \in 0 .. Len(w) - 1
        BY <2>5, <2>7, SMT
      <3>2. wire = SubSeq(w, 1, Len(wire))
        <4> DEFINE y == t[k + 1]
        <4>1. /\ IsOctets(wire) /\ IsOctets(lost) /\ IsOctets(w) /\ IsOctets(y)
              /\ Join(wire, lost) = Join(w, y) /\ Len(wire) <= Len(w)
          BY <1>5, <2>2, <2>3, <2>4, <3>1, Zenon DEF IsOctets, Join
        <4> HIDE DEF y
        <4> QED BY <4>1, Split
      <3>3. r.err # "nil"
        <4> DEFINE m == Len(wire)
        <4>1. m \in 0 .. Len(w) - 1 /\ wire = SubSeq(w, 1, m)
          BY <3>1, <3>2, Zenon
        <4> HIDE DEF m
        <4>2. ReadFrame(SubSeq(w, 1, m)).err # "nil"
          BY <2>2, <4>1, FrameCut, Zenon DEF w
        <4> QED BY <4>1, <4>2, Zenon DEF r
      <3>4. down
        <4> SUFFICES ASSUME ~down PROVE FALSE
          OBVIOUS
        <4>1. wire = w \o t[k + 1]
          BY <1>4, <1>5, <2>4, ConcatEmptySeq, Zenon
        <4>2. Len(w \o t[k + 1]) = Len(w) + Len(t[k + 1]) /\ Len(t[k + 1]) \in Nat
          BY <2>2, <2>3, ConcatProperties, LenProperties, Zenon
        <4> DEFINE a == Len(wire)
                   b == Len(w)
                   d == Len(t[k + 1])
        <4>3. a = b + d /\ d \in Nat /\ b \in Nat /\ ~(b <= a)
          BY <2>5, <2>7, <4>1, <4>2, Zenon
        <4> HIDE DEF a, b, d
        <4> QED BY <4>3, SMT
      <3> QED BY <3>3, <3>4, Zenon DEF r
    <2> QED BY <2>6, <2>7, Zenon
  <1> QED BY <1>6, <1>7, Zenon

LEMMA StreamReads ==
  ASSUME StreamOK, reader
  PROVE  StreamOK'
  <1> DEFINE r == ReadFrame(wire)
             k == Len(read)
  <1>1. /\ rerr = "nil" /\ (wire # <<>> \/ down) /\ wire' = r.rest /\ written' = written /\ down' = down
        /\ IF r.err = "nil" THEN read' = Append(read, r.v) /\ rerr' = rerr
           ELSE rerr' = r.err /\ read' = read
    BY DEF reader, wVars
  <1>2. /\ written \in Seq(AllFrames) /\ (\A i \in 1 .. Len(written) : Sound(written[i]))
        /\ read \in Seq(Range(read)) /\ k <= Len(written)
        /\ \A i \in 1 .. k : read[i] = KeptFrame(written[i])
    BY Zenon DEF StreamOK
  <1>3. /\ r.err # "nil" => down
        /\ r.err = "nil" =>
             /\ k < Len(written) /\ r.v = KeptFrame(written[k + 1]) /\ r.rest \in Seq(Octet)
             /\ \E t : \E lost \in Seq(Octet) :
                  Tails(t, written) /\ r.rest \o lost = t[k + 1] /\ (~down => lost = <<>>)
    BY <1>1, ReaderGets, Zenon
  <1> HIDE DEF r
  <1>4. CASE r.err # "nil"
    BY <1>1, <1>2, <1>3, <1>4, Zenon DEF StreamOK
  <1>5. CASE r.err = "nil"
    <2>1. /\ read' \in Seq(Range(read')) /\ Len(read') = k + 1 /\ k \in Nat
          /\ read'[k + 1] = r.v /\ \A i \in 1 .. k : read'[i] = read[i]
      <3>1. read' = Append(read, r.v)
        BY <1>1, <1>5, Zenon
      <3>2. read \in Seq(Range(read))
        BY <1>2, Zenon
      <3> DEFINE v == r.v
                 g == Append(read, v)
      <3> HIDE DEF v
      <3>3. /\ g \in Seq(Range(g)) /\ Len(g) = k + 1 /\ k \in Nat
            /\ g[k + 1] = v /\ \A i \in 1 .. k : g[i] = read[i]
        BY <3>2, AppendSeq
      <3>4. read' = g
        BY <3>1, Zenon DEF v
      <3> HIDE DEF g
      <3> QED BY <3>3, <3>4, Zenon DEF v
    <2> HIDE DEF k
    <2>2. k + 1 <= Len(written)
      <3>1. k \in Nat /\ Len(written) \in Nat /\ k < Len(written)
        BY <1>2, <1>3, <1>5, <2>1, LenProperties, Zenon
      <3> QED BY <3>1, SMT
    <2>3. ASSUME NEW i \in 1 .. k + 1 PROVE read'[i] = KeptFrame(written[i])
      <3>1. i = k + 1 \/ i \in 1 .. k
        BY <2>1, SMT
      <3> QED BY <1>2, <1>3, <1>5, <2>1, <3>1, Zenon
    <2>4. OnWire'
      BY <1>1, <1>3, <1>5, <2>1, Zenon DEF OnWire
    <2> QED BY <1>1, <1>2, <1>5, <2>1, <2>2, <2>3, <2>4, Zenon DEF StreamOK
  <1> QED BY <1>4, <1>5, Zenon

LEMMA StreamNext ==
  ASSUME RoundTrip(Seq(Octet)), WriterOK, StreamOK, [Next]_vars
  PROVE  StreamOK'
  <1>1. ASSUME written' = written, wire' = wire, down' = down, read' = read, rerr' = rerr PROVE StreamOK'
    BY <1>1, Zenon DEF StreamOK, OnWire
  <1>2. CASE UNCHANGED vars
    BY <1>1, <1>2 DEF vars, wVars, rVars
  <1>3. CASE Heartbeat
    <2> DEFINE f == heartbeatFrame(0)
    <2>1. f \in AllFrames /\ Sound(f)
      BY BeatSound, Zenon DEF AllFrames
    <2>2. ~down /\ down' = down /\ read' = read /\ rerr' = rerr /\ wire' = wire \o writeFrame(f).out /\ written' = Append(written, f)
      BY <1>3 DEF Heartbeat, rVars
    <2> HIDE DEF f
    <2> QED BY <2>1, <2>2, StreamWrites, Zenon
  <1>4. CASE Cut
    BY <1>4, StreamCut, Zenon
  <1>5. CASE reader
    BY <1>5, StreamReads, Zenon
  <1>6. ASSUME NEW c \in Lines, Send(c) PROVE StreamOK'
    BY <1>1, <1>6 DEF Send, rVars
  <1>7. ASSUME NEW c \in Lines, WriteFrame(c) PROVE StreamOK'
    <2> DEFINE f == Head(out[c])
    <2>1. /\ out[c] # <<>> /\ ~down /\ down' = down /\ read' = read /\ rerr' = rerr
          /\ IF writeFrame(f).err = "nil" THEN wire' = wire \o writeFrame(f).out /\ written' = Append(written, f)
             ELSE wire' = wire /\ written' = written
      BY <1>7 DEF WriteFrame, rVars
    <2>2. f \in Frames(c)
      BY <1>7, <2>1, WriterHead, Zenon
    <2> HIDE DEF f
    <2>3. CASE writeFrame(f).err # "nil"
      BY <1>1, <2>1, <2>3, Zenon
    <2>4. CASE writeFrame(f).err = "nil"
      <3>1. payload(f).err = "nil"
        BY <2>4, Zenon DEF writeFrame
      <3>2. Sound(f) /\ f \in AllFrames
        BY <1>7, <2>2, <3>1, FramesAre, Zenon DEF AllFrames
      <3> QED BY <2>1, <2>4, <3>2, StreamWrites, Zenon
    <2> QED BY <2>3, <2>4, Zenon
  <1> QED BY <1>2, <1>3, <1>4, <1>5, <1>6, <1>7, Zenon DEF Next

LEMMA StreamGives == StreamOK => FramesReadBack
  <1> SUFFICES ASSUME StreamOK PROVE FramesReadBack
    OBVIOUS
  <1>1. /\ read \in Seq(Range(read)) /\ Len(read) <= Len(written) /\ written \in Seq(AllFrames)
        /\ (\A i \in 1 .. Len(read) : read[i] = KeptFrame(written[i]))
        /\ (rerr # "nil" => down) /\ (rerr = "nil" => OnWire) /\ \A i \in 1 .. Len(written) : Sound(written[i])
    BY Zenon DEF StreamOK
  <1>2. DOMAIN read = 1 .. Len(read) /\ Len(read) \in Nat /\ Len(written) \in Nat
    BY <1>1, LenProperties, Zenon
  <1>3. ASSUME ~down, wire = <<>> PROVE Len(read) = Len(written)
    <2> DEFINE k == Len(read)
               n == Len(written)
    <2> SUFFICES ASSUME k # n PROVE FALSE
      OBVIOUS
    <2>1. PICK t : \E lost \in Seq(Octet) : Tails(t, written) /\ wire \o lost = t[k] /\ (~down => lost = <<>>)
      BY <1>1, <1>3, Zenon DEF OnWire
    <2>2. Tails(t, written) /\ t[k] = <<>>
      BY <1>3, <2>1, ConcatEmptySeq, EmptySeq, Zenon
    <2>3. k \in 0 .. n - 1 /\ k + 1 \in 1 .. n /\ k + 1 \in 0 .. n
      <3>1. k \in Nat /\ n \in Nat /\ k <= n
        BY <1>1, <1>2, Zenon
      <3> HIDE DEF k, n
      <3> QED BY <3>1, SMT
    <2> DEFINE w == writeFrame(written[k + 1]).out
    <2>4. Sound(written[k + 1]) /\ w \o t[k + 1] = <<>> /\ t[k + 1] \in Seq(Octet)
      BY <1>1, <2>2, <2>3, Zenon DEF Tails
    <2> DEFINE f == written[k + 1]
    <2>5. Sound(f) /\ w = writeFrame(f).out
      BY <2>4
    <2> HIDE DEF w, f, k, n
    <2>6. w \in Seq(Octet) /\ ReadFrame(w \o <<>>) = Got(KeptFrame(f), <<>>)
      BY <2>5, FrameReadsBack, EmptySeq, Zenon
    <2>7. w = <<>>
      <3> DEFINE y == t[k + 1]
      <3>1. w \in Seq(Octet) /\ y \in Seq(Octet) /\ w \o y = <<>>
        BY <2>4, <2>6, Zenon
      <3> HIDE DEF y
      <3> QED BY <3>1, ConcatSimplifications, Zenon
    <2>8. ReadFrame(<<>>) = Got(KeptFrame(f), <<>>)
      BY <2>6, <2>7, ConcatEmptySeq, Zenon
    <2> DEFINE r == ReadFrame(<<>>)
               kept == KeptFrame(f)
    <2>9. r = Got(kept, <<>>)
      BY <2>8
    <2>10. r.err # "nil"
      BY NothingFails
    <2> HIDE DEF r, kept
    <2> QED BY <2>9, <2>10, GotIs
  <1> QED BY <1>1, <1>2, <1>3, Zenon DEF FramesReadBack

\* Whatever is sent, on however many channels, and wherever the stream ends: the reader gets
\* the frames that were written, whole, in order and no others, and ends only when the stream
\* does (writeFrame, ReadFrame); supposed is that the codec of the frames that are sent reads
\* back what it writes.
THEOREM FramesArrive ==
  ASSUME RoundTrip(Seq(Octet))
  PROVE  Spec => []FramesReadBack
  <1>1. Init => WriterOK /\ StreamOK
    BY WriterInit, StreamInit
  <1>2. WriterOK /\ StreamOK /\ [Next]_vars => WriterOK' /\ StreamOK'
    BY WriterNext, StreamNext
  <1>3. StreamOK => FramesReadBack
    BY StreamGives
  <1> QED BY <1>1, <1>2, <1>3, PTL DEF Spec
-----------------------------------------------------------------------------
(***************************************************************************)
(* Messages of a channel.  A channel is between messages, behind a method  *)
(* that carries content, or in a content that is not filled yet; which one *)
(* is said by the frames that it was given.                                *)
(***************************************************************************)
\* A frame as the reader hands it to a channel.
FrameOK(f) ==
  /\ f.type \in {frameMethod, frameHeader, frameBody}
  /\ f.type = frameHeader => f.size \in Nat
  /\ f.type = frameBody => f.body \in Seq(Octet)

FramesOK(fs) == fs \in Seq(Range(fs)) /\ \A i \in 1 .. Len(fs) : FrameOK(fs[i])

\* The kinds of frames exclude each other.
LEMMA Kinds ==
  ASSUME NEW f, FrameOK(f)
  PROVE  \/ f.type = frameMethod /\ f.type # frameHeader /\ f.type # frameBody /\ (Lone(f) <=> ~Carries(f))
         \/ f.type = frameHeader /\ f.type # frameMethod /\ f.type # frameBody /\ ~Lone(f) /\ ~Carries(f)
         \/ f.type = frameBody /\ f.type # frameMethod /\ f.type # frameHeader /\ ~Lone(f) /\ ~Carries(f)
  BY DEF FrameOK, frameMethod, frameHeader, frameBody, Lone, Carries

\* A frame in a content is its header or a body.
LEMMA ContentLast ==
  ASSUME NEW fs, NEW i \in Nat, NEW j \in Nat, i < j, InContent(fs, i, j)
  PROVE  /\ j = i + 1 => fs[j].type = frameHeader
         /\ j # i + 1 => fs[j].type = frameBody
         /\ ~Carries(fs[j]) /\ ~Lone(fs[j])
         /\ \A k \in i + 1 .. j : ~Carries(fs[k])
  <1>1. \A k \in i + 1 .. j : fs[k].type = IF k = i + 1 THEN frameHeader ELSE frameBody
    BY DEF InContent
  <1>2. frameHeader # frameMethod /\ frameBody # frameMethod
    BY DEF frameMethod, frameHeader, frameBody
  <1>3. \A k \in i + 1 .. j : fs[k].type # frameMethod
    BY <1>1, <1>2
  <1>4. j \in i + 1 .. j
    OBVIOUS
  <1>5. (j = i + 1 => fs[j].type = frameHeader) /\ (j # i + 1 => fs[j].type = frameBody)
    BY <1>1, <1>4
  <1> QED BY <1>3, <1>4, <1>5, Zenon DEF Carries, Lone

\* A frame belongs to one content at most.
LEMMA OneContent ==
  ASSUME NEW fs, NEW i \in Nat, NEW l \in Nat, NEW j \in Nat, i < j, l < j,
         InContent(fs, i, j), InContent(fs, l, j)
  PROVE  i = l
  <1>1. Carries(fs[i]) /\ Carries(fs[l])
    BY DEF InContent
  <1>2. l \notin i + 1 .. j /\ i \notin l + 1 .. j
    BY <1>1, ContentLast
  <1> QED BY <1>2

LEMMA FilledNone ==
  ASSUME NEW fs, NEW i \in Int
  PROVE  Filled(fs, i, i) = <<>>
  <1>1. [k \in 1 .. i - i |-> fs[i + k].body] = <<>>
    <2>1. 1 .. i - i = {}
      OBVIOUS
    <2> QED BY <2>1
  <1> QED BY <1>1, FlattenEmpty DEF Filled

\* One body more.
LEMMA FilledMore ==
  ASSUME NEW fs, NEW gs, NEW i \in Nat, NEW n \in Nat, i <= n,
         \A k \in i + 1 .. n : gs[k] = fs[k] /\ fs[k].body \in Seq(Octet),
         gs[n + 1].body \in Seq(Octet)
  PROVE  Filled(gs, i, n + 1) = Filled(fs, i, n) \o gs[n + 1].body /\ Filled(fs, i, n) \in Seq(Octet)
  <1> DEFINE s == [k \in 1 .. n - i |-> fs[i + k].body]
             x == gs[n + 1].body
  <1>1. s \in [1 .. n - i -> Seq(Octet)] /\ n - i \in Nat
    OBVIOUS
  <1>2. s \in Seq(Seq(Octet)) /\ Len(s) = n - i
    BY <1>1, SeqOfFcn
  <1>3. [k \in 1 .. (n + 1) - i |-> gs[i + k].body] = Append(s, x)
    <2>1. DOMAIN Append(s, x) = 1 .. (n + 1) - i
      BY <1>2
    <2>2. ASSUME NEW k \in 1 .. (n + 1) - i PROVE Append(s, x)[k] = gs[i + k].body
      BY <1>2
    <2>3. Append(s, x) = [k \in DOMAIN Append(s, x) |-> Append(s, x)[k]]
      BY <1>2
    <2> QED BY <2>1, <2>2, <2>3
  <1>4. x \in Seq(Octet)
    OBVIOUS
  <1> HIDE DEF s, x
  <1>5. FlattenSeq(Append(s, x)) = FlattenSeq(s) \o x /\ FlattenSeq(s) \in Seq(Octet)
    BY <1>2, <1>4, FlattenAppend, FlattenType
  <1>6. Filled(gs, i, n + 1) = FlattenSeq(Append(s, x))
    BY <1>3, Zenon DEF Filled
  <1>7. Filled(fs, i, n) = FlattenSeq(s)
    BY Zenon DEF Filled, s
  <1> QED BY <1>5, <1>6, <1>7, Zenon DEF x

\* What frames say of a content does not depend on those behind.
Same(fs, gs, n) == \A k \in 1 .. n : gs[k] = fs[k]

LEMMA FilledSame ==
  ASSUME NEW fs, NEW gs, NEW n \in Nat, Same(fs, gs, n), NEW i \in Nat, NEW j \in Nat, j <= n
  PROVE  Filled(gs, i, j) = Filled(fs, i, j)
  <1>1. [k \in 1 .. j - i |-> gs[i + k].body] = [k \in 1 .. j - i |-> fs[i + k].body]
    BY DEF Same
  <1> QED BY <1>1, Zenon DEF Filled

LEMMA ContentSame ==
  ASSUME NEW fs, NEW gs, NEW n \in Nat, Same(fs, gs, n), NEW i \in 1 .. n, NEW j \in 1 .. n, i < j
  PROVE  /\ InContent(gs, i, j) <=> InContent(fs, i, j)
         /\ Unfilled(gs, i, j) <=> Unfilled(fs, i, j)
         /\ Whole(gs, i, j) <=> Whole(fs, i, j)
  <1>1. InContent(gs, i, j) <=> InContent(fs, i, j)
    <2>1. gs[i] = fs[i] /\ gs[i + 1] = fs[i + 1] /\ \A k \in i + 2 .. j : gs[k] = fs[k]
      BY DEF Same
    <2> QED BY <2>1, Zenon DEF InContent
  <1>2. \A k \in i + 1 .. j : Filled(gs, i + 1, k) = Filled(fs, i + 1, k)
    <2>1. ASSUME NEW k \in i + 1 .. j PROVE k \in Nat /\ k <= n /\ i + 1 \in Nat
      OBVIOUS
    <2> QED BY <2>1, FilledSame
  <1>3. gs[i + 1] = fs[i + 1] /\ j \in i + 1 .. j /\ \A k \in i + 1 .. j - 1 : k \in i + 1 .. j
    BY DEF Same
  <1> QED BY <1>1, <1>2, <1>3, Zenon DEF Unfilled, Whole

\* The message that the frames from i to j make up.
ContentOf(fs, i, j) ==
  [name |-> fs[i].name, args |-> fs[i].args, props |-> fs[i + 1].props, body |-> Filled(fs, i + 1, j)]

LEMMA MessageLone ==
  ASSUME NEW fs, NEW j, Lone(fs[j])
  PROVE  MessageAt(fs, j) = <<[name |-> fs[j].name, args |-> fs[j].args]>>
  BY Zenon DEF MessageAt

LEMMA MessageWhole ==
  ASSUME NEW fs, NEW j \in Nat, NEW i \in 1 .. j - 1, Whole(fs, i, j)
  PROVE  MessageAt(fs, j) = <<ContentOf(fs, i, j)>> /\ ~Lone(fs[j])
  <1>1. ~Lone(fs[j])
    BY ContentLast DEF Whole
  <1> DEFINE l == CHOOSE l \in 1 .. j - 1 : Whole(fs, l, j)
  <1>2. l \in 1 .. j - 1 /\ Whole(fs, l, j)
    BY Zenon
  <1> HIDE DEF l
  <1>3. l = i
    <2>1. i \in Nat /\ l \in Nat /\ i < j /\ l < j
      BY <1>2
    <2>2. InContent(fs, i, j) /\ InContent(fs, l, j)
      BY <1>2, Zenon DEF Whole
    <2> QED BY <2>1, <2>2, OneContent
  <1>4. MessageAt(fs, j) = <<ContentOf(fs, l, j)>>
    BY <1>1, <1>2, Zenon DEF MessageAt, ContentOf, l
  <1> QED BY <1>1, <1>3, <1>4, Zenon

LEMMA MessageNone ==
  ASSUME NEW fs, NEW j, ~Lone(fs[j]), \A i \in 1 .. j - 1 : ~Whole(fs, i, j)
  PROVE  MessageAt(fs, j) = <<>>
  BY Zenon DEF MessageAt

LEMMA MessageSame ==
  ASSUME NEW fs, NEW gs, NEW n \in Nat, Same(fs, gs, n), NEW j \in 1 .. n
  PROVE  MessageAt(gs, j) = MessageAt(fs, j)
  <1>1. gs[j] = fs[j] /\ j \in Nat
    BY DEF Same
  <1>2. CASE Lone(fs[j])
    BY <1>1, <1>2, MessageLone
  <1>3. ASSUME NEW i \in 1 .. j - 1, Whole(fs, i, j)
        PROVE  MessageAt(gs, j) = MessageAt(fs, j)
    <2>1. i \in 1 .. n /\ i < j /\ i \in Nat /\ i + 1 \in 1 .. n /\ i + 1 \in Nat /\ j <= n
      OBVIOUS
    <2>2. Whole(gs, i, j)
      BY <1>3, <2>1, ContentSame
    <2>3. gs[i] = fs[i] /\ gs[i + 1] = fs[i + 1]
      BY <2>1 DEF Same
    <2>4. Filled(gs, i + 1, j) = Filled(fs, i + 1, j)
      BY <1>1, <2>1, FilledSame
    <2>5. ContentOf(gs, i, j) = ContentOf(fs, i, j)
      BY <2>3, <2>4, Zenon DEF ContentOf
    <2>6. MessageAt(fs, j) = <<ContentOf(fs, i, j)>>
      BY <1>1, <1>3, MessageWhole
    <2>7. MessageAt(gs, j) = <<ContentOf(gs, i, j)>>
      BY <1>1, <2>2, MessageWhole
    <2> QED BY <2>5, <2>6, <2>7, Zenon
  <1>4. CASE ~Lone(fs[j]) /\ \A i \in 1 .. j - 1 : ~Whole(fs, i, j)
    <2>1. ASSUME NEW i \in 1 .. j - 1 PROVE ~Whole(gs, i, j)
      <3>1. i \in 1 .. n /\ i < j
        OBVIOUS
      <3> QED BY <1>4, <3>1, ContentSame
    <2>2. ~Lone(gs[j])
      BY <1>1, <1>4
    <2> QED BY <1>4, <2>1, <2>2, MessageNone
  <1> QED BY <1>2, <1>3, <1>4, Zenon

LEMMA MessageShort ==
  ASSUME NEW fs, NEW j \in Nat
  PROVE  AtMostOne(MessageAt(fs, j))
  <1>1. \A x : AtMostOne(<<x>>)
    BY DEF AtMostOne
  <1>2. AtMostOne(<<>>)
    BY DEF AtMostOne
  <1>3. CASE Lone(fs[j])
    BY <1>1, <1>3, MessageLone, Zenon
  <1>4. ASSUME NEW i \in 1 .. j - 1, Whole(fs, i, j) PROVE AtMostOne(MessageAt(fs, j))
    <2>1. MessageAt(fs, j) = <<ContentOf(fs, i, j)>>
      BY <1>4, MessageWhole
    <2> QED BY <1>1, <2>1, Zenon
  <1>5. CASE ~Lone(fs[j]) /\ \A i \in 1 .. j - 1 : ~Whole(fs, i, j)
    BY <1>2, <1>5, MessageNone, Zenon
  <1> QED BY <1>3, <1>4, <1>5, Zenon

LEMMA MessageUnfilled ==
  ASSUME NEW fs, NEW m \in Nat, NEW i \in 1 .. m - 1, Unfilled(fs, i, m),
         Len(Filled(fs, i + 1, m)) \in Nat, fs[i + 1].size \in Nat
  PROVE  MessageAt(fs, m) = <<>>
  <1>1. i \in Nat /\ i < m /\ m \in i + 1 .. m
    OBVIOUS
  <1>2. InContent(fs, i, m) /\ Len(Filled(fs, i + 1, m)) < fs[i + 1].size
    BY <1>1, Zenon DEF Unfilled
  <1>3. ~Lone(fs[m])
    BY <1>1, <1>2, ContentLast
  <1>4. ASSUME NEW l \in 1 .. m - 1, Whole(fs, l, m) PROVE FALSE
    <2>1. InContent(fs, l, m)
      BY <1>4, Zenon DEF Whole
    <2>2. l \in Nat /\ l < m
      OBVIOUS
    <2>3. i = l
      BY <1>1, <1>2, <2>1, <2>2, OneContent
    <2>4. Len(Filled(fs, i + 1, m)) >= fs[i + 1].size
      BY <1>4, <2>3, Zenon DEF Whole
    <2> DEFINE a == Len(Filled(fs, i + 1, m))
               b == fs[i + 1].size
    <2>5. a < b /\ a >= b /\ a \in Nat /\ b \in Nat
      BY <1>2, <2>4
    <2> HIDE DEF a, b
    <2> QED BY <2>5
  <1> QED BY <1>3, <1>4, MessageNone, Zenon

\* One frame more.
LEMMA MessagesAppend ==
  ASSUME NEW fs, NEW f, fs \in Seq(Range(fs))
  PROVE  LET gs == Append(fs, f)
             x  == MessageAt(gs, Len(fs) + 1)
         IN  /\ Messages(gs) = Messages(fs) \o x /\ AtMostOne(x)
             /\ \E X : Messages(fs) \in Seq(X) /\ x \in Seq(X)
  <1> DEFINE gs == Append(fs, f)
             n  == Len(fs)
             s  == [j \in 1 .. n + 1 |-> MessageAt(gs, j)]
             S  == {MessageAt(gs, j) : j \in 1 .. n + 1}
  <1>1. n \in Nat /\ DOMAIN fs = 1 .. n /\ DOMAIN gs = 1 .. n + 1 /\ \A k \in 1 .. n : gs[k] = fs[k]
    OBVIOUS
  <1>2. s \in [1 .. n + 1 -> S]
    BY Zenon
  <1>3. \A i \in 1 .. n + 1 : AtMostOne(s[i])
    <2>1. ASSUME NEW i \in 1 .. n + 1 PROVE AtMostOne(s[i])
      <3>1. i \in Nat /\ s[i] = MessageAt(gs, i)
        BY <1>1
      <3> QED BY <3>1, MessageShort
    <2> QED BY <2>1
  <1>4. Messages(gs) = FlattenSeq(s)
    BY <1>1, Zenon DEF Messages
  <1>5. Messages(fs) = FlattenSeq([i \in 1 .. n |-> s[i]])
    <2> HIDE DEF gs, n
    <2>1. Same(fs, gs, n)
      BY <1>1 DEF Same
    <2>2. ASSUME NEW j \in 1 .. n PROVE s[j] = MessageAt(fs, j)
      <3>1. j \in 1 .. n + 1
        BY <1>1
      <3> QED BY <1>1, <2>1, <3>1, MessageSame
    <2>3. [i \in 1 .. n |-> s[i]] = [j \in 1 .. n |-> MessageAt(fs, j)]
      BY <2>2, Zenon
    <2> QED BY <1>1, <2>3, Zenon DEF Messages
  <1>6. s[n + 1] = MessageAt(gs, n + 1) /\ n + 1 \in 1 .. n + 1
    BY <1>1
  <1> HIDE DEF gs, n, s, S
  <1>7. /\ FlattenSeq(s) = FlattenSeq([i \in 1 .. n |-> s[i]]) \o s[n + 1]
        /\ \E X : FlattenSeq([i \in 1 .. n |-> s[i]]) \in Seq(X) /\ s[n + 1] \in Seq(X)
    BY <1>1, <1>2, <1>3, FlattenShort
  <1>8. AtMostOne(s[n + 1])
    BY <1>3, <1>6
  <1> QED BY <1>4, <1>5, <1>6, <1>7, <1>8, Zenon DEF gs, n

Dispatched(ms) == [i \in DOMAIN ms |-> dispatch(ms[i])]

LEMMA DispatchedType ==
  ASSUME NEW X, NEW ms \in Seq(X)
  PROVE  Dispatched(ms) \in Seq(Range(Dispatched(ms))) /\ Len(Dispatched(ms)) = Len(ms)
  <1> DEFINE d == Dispatched(ms)
  <1>1. DOMAIN ms = 1 .. Len(ms) /\ Len(ms) \in Nat
    OBVIOUS
  <1>2. d \in [1 .. Len(ms) -> Range(d)]
    BY <1>1, Zenon DEF Dispatched, Range
  <1> HIDE DEF d
  <1>3. d \in Seq(Range(d)) /\ Len(d) = Len(ms)
    BY <1>1, <1>2, SeqOfFcn
  <1> QED BY <1>3 DEF d

LEMMA DispatchedNone ==
  ASSUME NEW X, NEW ms \in Seq(X)
  PROVE  Dispatched(ms \o <<>>) = Dispatched(ms)
  <1>1. ms \o <<>> = ms
    OBVIOUS
  <1> QED BY <1>1, Zenon

LEMMA DispatchedOne ==
  ASSUME NEW X, NEW ms \in Seq(X), NEW x, <<x>> \in Seq(X)
  PROVE  Dispatched(ms \o <<x>>) = Append(Dispatched(ms), dispatch(x))
  <1> DEFINE n == Len(ms)
             t == ms \o <<x>>
             d == Dispatched(ms)
  <1>1. /\ n \in Nat /\ DOMAIN ms = 1 .. n /\ DOMAIN t = 1 .. n + 1
        /\ t[n + 1] = x /\ \A i \in 1 .. n : t[i] = ms[i]
    OBVIOUS
  <1>2. d \in Seq(Range(d)) /\ Len(d) = n
    BY DispatchedType
  <1>3. \A i \in 1 .. n : d[i] = dispatch(ms[i])
    BY <1>1, Zenon DEF Dispatched
  <1> DEFINE y == dispatch(x)
             e == Append(d, y)
  <1> HIDE DEF d, y
  <1>4. e \in Seq(Range(e)) /\ Len(e) = n + 1 /\ e[n + 1] = y /\ \A i \in 1 .. n : e[i] = d[i]
    BY <1>2, AppendSeq
  <1> HIDE DEF e, t, n
  <1>5. e = [i \in 1 .. n + 1 |-> e[i]]
    BY <1>4
  <1>6. ASSUME NEW i \in 1 .. n + 1 PROVE e[i] = dispatch(t[i])
    <2>1. CASE i = n + 1
      BY <1>1, <1>4, <2>1, Zenon DEF y
    <2>2. CASE i # n + 1
      <3>1. i \in 1 .. n
        BY <1>1, <2>2
      <3> QED BY <1>1, <1>3, <1>4, <3>1, Zenon
    <2> QED BY <2>1, <2>2
  <1>7. e = [i \in 1 .. n + 1 |-> dispatch(t[i])]
    BY <1>5, <1>6, Zenon
  <1>8. Dispatched(t) = [i \in 1 .. n + 1 |-> dispatch(t[i])]
    BY <1>1, Zenon DEF Dispatched
  <1> QED BY <1>7, <1>8, Zenon DEF e, d, y, t

-----------------------------------------------------------------------------
(***************************************************************************)
(* The state of a channel that was given frames fs.                        *)
(***************************************************************************)
Idle(fs) ==
  /\ Len(fs) > 0 => ~Carries(fs[Len(fs)])
  /\ \A i \in 1 .. Len(fs) - 1 : ~Unfilled(fs, i, Len(fs))

AtHeader(ch, fs) ==
  /\ Len(fs) > 0 /\ Carries(fs[Len(fs)])
  /\ ch.message = fs[Len(fs)] /\ ch.body = <<>>

AtContent(ch, fs) ==
  \E i \in 1 .. Len(fs) - 1 :
    /\ Unfilled(fs, i, Len(fs))
    /\ ch.message = fs[i] /\ ch.header = fs[i + 1] /\ ch.body = Filled(fs, i + 1, Len(fs))

Stage(ch, fs) ==
  \/ ch.recv = "method" /\ Idle(fs)
  \/ ch.recv = "header" /\ AtHeader(ch, fs)
  \/ ch.recv = "content" /\ AtContent(ch, fs)

IsChan(ch) == DOMAIN ch = {"recv", "message", "header", "body", "log"}

LogIs(log, fs) == log = Dispatched(Messages(fs))

ChanAt(ch, fs) == IsChan(ch) /\ LogIs(ch.log, fs) /\ Stage(ch, fs)

\* The frame behind fs goes on with a content only where that waits for it.
LEMMA GoesOn ==
  ASSUME NEW fs, NEW f, FramesOK(fs), NEW i \in 1 .. Len(fs),
         LET gs == Append(fs, f) IN Whole(gs, i, Len(fs) + 1) \/ Unfilled(gs, i, Len(fs) + 1)
  PROVE  \/ i = Len(fs) /\ Carries(fs[i]) /\ f.type = frameHeader
         \/ i \in 1 .. Len(fs) - 1 /\ Unfilled(fs, i, Len(fs)) /\ f.type = frameBody
  <1> DEFINE gs == Append(fs, f)
             n  == Len(fs)
             m  == n + 1
  <1>1. /\ n \in Nat /\ gs[m] = f /\ i \in 1 .. n
        /\ \A k \in 1 .. n : gs[k] = fs[k]
    BY AppendSeq DEF FramesOK
  <1>2. /\ InContent(gs, i, m)
        /\ \A k \in i + 1 .. m - 1 : Len(Filled(gs, i + 1, k)) < gs[i + 1].size
    <2>1. \A k \in i + 1 .. m - 1 : k \in i + 1 .. m
      BY <1>1
    <2> QED BY <2>1, Zenon DEF Whole, Unfilled
  <1> HIDE DEF gs, n
  <1>3. CASE i = n
    <2>1. gs[i] = fs[i] /\ i + 1 = m
      BY <1>1, <1>3
    <2> QED BY <1>1, <1>2, <1>3, <2>1, Zenon DEF InContent, n
  <1>4. CASE i # n
    <2>1. i \in 1 .. n - 1 /\ i < n /\ n \in 1 .. n /\ m \in i + 2 .. m /\ m - 1 = n
      BY <1>1, <1>4
    <2>2. f.type = frameBody
      BY <1>1, <1>2, <2>1, Zenon DEF InContent
    <2>3. InContent(gs, i, n)
      <3>1. \A k \in i + 2 .. n : k \in i + 2 .. m
        BY <1>1
      <3> QED BY <1>2, <3>1, Zenon DEF InContent
    <2>4. Unfilled(gs, i, n)
      BY <1>2, <2>1, <2>3, Zenon DEF Unfilled
    <2>5. Same(fs, gs, n)
      BY <1>1 DEF Same
    <2>6. Unfilled(fs, i, n)
      BY <1>1, <2>1, <2>4, <2>5, ContentSame
    <2> QED BY <2>1, <2>2, <2>6 DEF n
  <1> QED BY <1>3, <1>4

\* A frame that no content waits for ends what was under way.
LEMMA Breaks ==
  ASSUME NEW fs, NEW f, FramesOK(fs), FrameOK(f),
         ~(f.type = frameHeader /\ Len(fs) > 0 /\ Carries(fs[Len(fs)])),
         f.type = frameBody => \A i \in 1 .. Len(fs) - 1 : ~Unfilled(fs, i, Len(fs))
  PROVE  LET gs == Append(fs, f)
         IN  /\ \A i \in 1 .. Len(fs) : ~Whole(gs, i, Len(fs) + 1) /\ ~Unfilled(gs, i, Len(fs) + 1)
             /\ ~Lone(f) => MessageAt(gs, Len(fs) + 1) = <<>>
             /\ ~Carries(f) => Idle(gs)
  <1> DEFINE gs == Append(fs, f)
             n  == Len(fs)
  <1>0. n \in Nat /\ gs[n + 1] = f /\ Len(gs) = n + 1
    BY AppendSeq DEF FramesOK
  <1>1. ASSUME NEW i \in 1 .. n, Whole(gs, i, n + 1) \/ Unfilled(gs, i, n + 1) PROVE FALSE
    <2>1. \/ i = n /\ Carries(fs[i]) /\ f.type = frameHeader
          \/ i \in 1 .. n - 1 /\ Unfilled(fs, i, n) /\ f.type = frameBody
      BY <1>1, GoesOn
    <2>2. n > 0
      BY <1>0
    <2> QED BY <2>1, <2>2, Zenon
  <1> HIDE DEF gs, n
  <1>2. (n + 1) - 1 = n /\ n + 1 > 0
    BY <1>0
  <1>3. ~Lone(f) => MessageAt(gs, n + 1) = <<>>
    BY <1>0, <1>1, <1>2, MessageNone
  <1>4. ~Carries(f) => Idle(gs)
    BY <1>0, <1>1, <1>2, Zenon DEF Idle
  <1> QED BY <1>1, <1>3, <1>4, Zenon DEF gs, n

LEMMA FramesAppend ==
  ASSUME NEW fs, NEW f, FramesOK(fs), FrameOK(f)
  PROVE  LET gs == Append(fs, f)
         IN  /\ FramesOK(gs) /\ Len(gs) = Len(fs) + 1 /\ Len(fs) \in Nat
             /\ gs[Len(fs) + 1] = f /\ Same(fs, gs, Len(fs))
  <1> DEFINE gs == Append(fs, f)
             n  == Len(fs)
  <1>1. /\ gs \in Seq(Range(gs)) /\ Len(gs) = n + 1 /\ n \in Nat
        /\ gs[n + 1] = f /\ \A i \in 1 .. n : gs[i] = fs[i]
    BY AppendSeq DEF FramesOK
  <1> HIDE DEF gs, n
  <1>2. ASSUME NEW i \in 1 .. n + 1 PROVE FrameOK(gs[i])
    <2>1. i = n + 1 \/ i \in 1 .. n
      BY <1>1
    <2> QED BY <1>1, <2>1, Zenon DEF FramesOK, n
  <1> QED BY <1>1, <1>2, Zenon DEF FramesOK, Same, gs, n

\* What the log becomes.
LEMMA LogNone ==
  ASSUME NEW log, NEW fs, NEW f, FramesOK(fs), LogIs(log, fs), MessageAt(Append(fs, f), Len(fs) + 1) = <<>>
  PROVE  LogIs(log, Append(fs, f))
  <1> DEFINE x == MessageAt(Append(fs, f), Len(fs) + 1)
             ms == Messages(fs)
             ns == Messages(Append(fs, f))
  <1>1. ns = ms \o x /\ \E X : ms \in Seq(X) /\ x \in Seq(X)
    BY MessagesAppend, Zenon DEF FramesOK
  <1> HIDE DEF x, ms, ns
  <1>2. x = <<>>
    BY DEF x
  <1>3. PICK X : ms \in Seq(X) /\ x \in Seq(X)
    BY <1>1, Zenon
  <1>4. Dispatched(ms \o <<>>) = Dispatched(ms)
    BY <1>3, DispatchedNone
  <1> QED BY <1>1, <1>2, <1>4, Zenon DEF ms, ns, LogIs

Ends(fs, f, msg) == MessageAt(Append(fs, f), Len(fs) + 1) = <<msg>>

LEMMA LogOne ==
  ASSUME NEW log, NEW fs, NEW f, NEW msg, FramesOK(fs), LogIs(log, fs), Ends(fs, f, msg)
  PROVE  LogIs(Append(log, dispatch(msg)), Append(fs, f))
  <1> DEFINE x == MessageAt(Append(fs, f), Len(fs) + 1)
             ms == Messages(fs)
             ns == Messages(Append(fs, f))
  <1>1. ns = ms \o x /\ \E X : ms \in Seq(X) /\ x \in Seq(X)
    BY MessagesAppend, Zenon DEF FramesOK
  <1> HIDE DEF x, ms, ns
  <1>2. x = <<msg>>
    BY Zenon DEF x, Ends
  <1>3. PICK X : ms \in Seq(X) /\ x \in Seq(X)
    BY <1>1, Zenon
  <1>4. Dispatched(ms \o <<msg>>) = Append(Dispatched(ms), dispatch(msg))
    BY <1>2, <1>3, DispatchedOne
  <1> QED BY <1>1, <1>2, <1>4, Zenon DEF ms, ns, LogIs

\* The steps of the channel: a frame that is dropped, a method, the last frame of a content,
\* and another one.
LEMMA DropStep ==
  ASSUME NEW ch, NEW fs, NEW f, FramesOK(fs), FrameOK(f), f.type # frameMethod,
         IsChan(ch), LogIs(ch.log, fs),
         ~(f.type = frameHeader /\ Len(fs) > 0 /\ Carries(fs[Len(fs)])),
         f.type = frameBody => \A i \in 1 .. Len(fs) - 1 : ~Unfilled(fs, i, Len(fs))
  PROVE  ChanAt([ch EXCEPT !.recv = "method"], Append(fs, f))
  <1> DEFINE new == [ch EXCEPT !.recv = "method"]
             gs  == Append(fs, f)
  <1>1. ~Lone(f) /\ ~Carries(f)
    BY Zenon DEF Lone, Carries
  <1>2. MessageAt(gs, Len(fs) + 1) = <<>> /\ Idle(gs)
    BY <1>1, Breaks, Zenon
  <1>3. IsChan(new) /\ new.recv = "method" /\ new.log = ch.log
    BY DEF IsChan
  <1>4. LogIs(ch.log, gs)
    BY <1>2, LogNone, Zenon
  <1> QED BY <1>2, <1>3, <1>4, Zenon DEF ChanAt, Stage

LEMMA MethodStep ==
  ASSUME NEW ch, NEW fs, NEW f, FramesOK(fs), FrameOK(f), f.type = frameMethod,
         IsChan(ch), LogIs(ch.log, fs)
  PROVE  ChanAt(recvMethod(ch, f), Append(fs, f))
  <1> DEFINE gs == Append(fs, f)
             n  == Len(fs)
  <1>1. f.type # frameHeader /\ f.type # frameBody /\ (Lone(f) <=> ~Carries(f))
    BY Kinds
  <1>2. (~Lone(f) => MessageAt(gs, n + 1) = <<>>) /\ (~Carries(f) => Idle(gs))
    BY <1>1, Breaks, Zenon
  <1>3. Len(gs) = n + 1 /\ gs[n + 1] = f /\ n \in Nat /\ n + 1 > 0
    BY FramesAppend
  <1>4. CASE Carries(f)
    <2> DEFINE new == [ch EXCEPT !.recv = "header", !.message = f, !.body = <<>>]
    <2>1. recvMethod(ch, f) = new
      BY <1>1, <1>4, Zenon DEF recvMethod
    <2>2. IsChan(new) /\ new.recv = "header" /\ new.message = f /\ new.body = <<>> /\ new.log = ch.log
      BY DEF IsChan
    <2>3. LogIs(ch.log, gs)
      BY <1>1, <1>2, <1>4, LogNone, Zenon
    <2>4. AtHeader(new, gs)
      BY <1>3, <1>4, <2>2, Zenon DEF AtHeader
    <2> QED BY <2>1, <2>2, <2>3, <2>4, Zenon DEF ChanAt, Stage
  <1>5. CASE Lone(f)
    <2> DEFINE msg == [name |-> f.name, args |-> f.args]
               d   == dispatch(msg)
               new == [ch EXCEPT !.recv = "method", !.log = Append(@, d)]
    <2>1. recvMethod(ch, f) = new
      BY <1>1, <1>5, Zenon DEF recvMethod
    <2>2. Ends(fs, f, msg)
      BY <1>3, <1>5, MessageLone, Zenon DEF Ends
    <2> HIDE DEF msg
    <2>3. LogIs(Append(ch.log, d), gs)
      BY <2>2, LogOne, Zenon
    <2> HIDE DEF d
    <2>4. IsChan(new) /\ new.recv = "method" /\ new.log = Append(ch.log, d)
      BY DEF IsChan
    <2> QED BY <1>1, <1>2, <1>5, <2>1, <2>3, <2>4, Zenon DEF ChanAt, Stage
  <1> QED BY <1>1, <1>4, <1>5, Zenon

LEMMA CompleteStep ==
  ASSUME NEW ch, NEW fs, NEW f, FramesOK(fs), FrameOK(f), IsChan(ch), LogIs(ch.log, fs),
         NEW i \in 1 .. Len(fs),
         LET gs == Append(fs, f)
         IN  /\ Whole(gs, i, Len(fs) + 1) /\ ch.message = gs[i] /\ ch.header = gs[i + 1]
             /\ ch.body = Filled(gs, i + 1, Len(fs) + 1) /\ Filled(gs, i + 1, Len(fs) + 1) \in Seq(Octet)
  PROVE  ChanAt(Complete(ch), Append(fs, f))
  <1> DEFINE gs  == Append(fs, f)
             n   == Len(fs)
             m   == n + 1
             msg == ContentOf(gs, i, m)
             d   == dispatch(msg)
             new == [ch EXCEPT !.recv = "method", !.log = Append(@, d)]
  <1>1. Len(gs) = m /\ n \in Nat /\ FramesOK(gs)
    BY FramesAppend
  <1>2. Complete(ch) = new
    BY Zenon DEF Complete, ContentOf
  <1>3. i \in 1 .. m - 1 /\ m \in Nat /\ i \in Nat /\ i < m /\ m > 0 /\ m - 1 = n /\ i + 1 \in 1 .. m /\ m \in i + 1 .. m
    BY <1>1
  <1>4. Whole(gs, i, m)
    OBVIOUS
  <1>5. gs[i + 1].size \in Nat /\ Len(Filled(gs, i + 1, m)) \in Nat
    <2>1. gs[i + 1].type = frameHeader
      BY <1>4, Zenon DEF Whole, InContent
    <2> QED BY <1>1, <1>3, <2>1 DEF FramesOK, FrameOK
  <1> HIDE DEF gs, n, m
  <1>6. MessageAt(gs, m) = <<msg>>
    BY <1>3, <1>4, MessageWhole
  <1>7. Idle(gs)
    <2>1. InContent(gs, i, m) /\ Len(Filled(gs, i + 1, m)) >= gs[i + 1].size
      BY <1>4, Zenon DEF Whole
    <2>2. ~Carries(gs[m])
      BY <1>3, <2>1, ContentLast
    <2>3. ASSUME NEW l \in 1 .. m - 1, Unfilled(gs, l, m) PROVE FALSE
      <3>1. InContent(gs, l, m)
        BY <2>3, Zenon DEF Unfilled
      <3>2. l \in Nat /\ l < m
        BY <1>3
      <3>3. i = l
        BY <1>3, <2>1, <3>1, <3>2, OneContent
      <3>4. Len(Filled(gs, i + 1, m)) < gs[i + 1].size
        BY <1>3, <2>3, <3>3, Zenon DEF Unfilled
      <3> DEFINE a == Len(Filled(gs, i + 1, m))
                 b == gs[i + 1].size
      <3>5. a < b /\ a >= b /\ a \in Nat /\ b \in Nat
        BY <1>5, <2>1, <3>4
      <3> HIDE DEF a, b
      <3> QED BY <3>5
    <2> QED BY <1>1, <1>3, <2>2, <2>3, Zenon DEF Idle
  <1> HIDE DEF msg
  <1>8. Ends(fs, f, msg)
    BY <1>6, Zenon DEF gs, n, m, Ends
  <1>9. LogIs(Append(ch.log, d), gs)
    <2>1. LogIs(Append(ch.log, d), Append(fs, f))
      BY <1>8, LogOne, Zenon
    <2> QED BY <2>1, Zenon DEF gs
  <1> HIDE DEF d
  <1>10. IsChan(new) /\ new.recv = "method" /\ new.log = Append(ch.log, d)
    BY DEF IsChan
  <1> QED BY <1>2, <1>7, <1>9, <1>10, Zenon DEF ChanAt, Stage, gs

LEMMA ContentStep ==
  ASSUME NEW ch, NEW new, NEW fs, NEW f, FramesOK(fs), FrameOK(f), LogIs(ch.log, fs),
         IsChan(new), new.recv = "content", new.log = ch.log,
         NEW i \in 1 .. Len(fs),
         LET gs == Append(fs, f)
         IN  /\ Unfilled(gs, i, Len(fs) + 1) /\ new.message = gs[i] /\ new.header = gs[i + 1]
             /\ new.body = Filled(gs, i + 1, Len(fs) + 1) /\ Filled(gs, i + 1, Len(fs) + 1) \in Seq(Octet)
  PROVE  ChanAt(new, Append(fs, f))
  <1> DEFINE gs  == Append(fs, f)
             n   == Len(fs)
             m   == n + 1
  <1>1. Len(gs) = m /\ n \in Nat /\ FramesOK(gs)
    BY FramesAppend
  <1>3. i \in 1 .. m - 1 /\ m \in Nat /\ i \in Nat /\ i < m /\ m > 0 /\ m - 1 = n /\ i + 1 \in 1 .. m /\ m \in i + 1 .. m
    BY <1>1
  <1>4. Unfilled(gs, i, m)
    OBVIOUS
  <1>5. gs[i + 1].size \in Nat /\ Len(Filled(gs, i + 1, m)) \in Nat
    <2>1. gs[i + 1].type = frameHeader
      BY <1>4, Zenon DEF Unfilled, InContent
    <2> QED BY <1>1, <1>3, <2>1 DEF FramesOK, FrameOK
  <1>6. AtContent(new, gs)
    BY <1>1, <1>3, Zenon DEF AtContent
  <1> HIDE DEF gs, n, m
  <1>7. MessageAt(gs, m) = <<>>
    BY <1>3, <1>4, <1>5, MessageUnfilled
  <1>8. MessageAt(Append(fs, f), Len(fs) + 1) = <<>>
    BY <1>7, Zenon DEF gs, n, m
  <1>9. LogIs(ch.log, gs)
    BY <1>8, LogNone DEF gs
  <1> QED BY <1>6, <1>9, Zenon DEF ChanAt, Stage, gs

\* The header that follows a method.
LEMMA HeaderStep ==
  ASSUME NEW ch, NEW fs, NEW f, FramesOK(fs), FrameOK(f), IsChan(ch), LogIs(ch.log, fs),
         ch.recv = "header", AtHeader(ch, fs), f.type = frameHeader
  PROVE  ChanAt(recvHeader(ch, f), Append(fs, f))
  <1> DEFINE gs == Append(fs, f)
             n  == Len(fs)
             m  == n + 1
  <1>0. f.type # frameMethod /\ f.type # frameBody
    BY Kinds
  <1>1. n \in Nat /\ gs[m] = f /\ Same(fs, gs, n) /\ n > 0 /\ Carries(fs[n])
    BY FramesAppend DEF AtHeader
  <1>2. n \in 1 .. n /\ n + 1 = m /\ n + 2 .. m = {} /\ n + 1 .. m = {m} /\ n + 1 .. m - 1 = {} /\ m \in Int
    BY <1>1
  <1>3. gs[n] = fs[n] /\ ch.message = fs[n] /\ ch.body = <<>>
    BY <1>1, <1>2, Zenon DEF Same, AtHeader
  <1>4. Filled(gs, n + 1, m) = <<>> /\ <<>> \in Seq(Octet)
    BY <1>2, FilledNone
  <1>5. InContent(gs, n, m)
    BY <1>1, <1>2, <1>3, Zenon DEF InContent
  <1>6. f.size \in Nat /\ Len(<<>>) = 0
    BY DEF FrameOK
  <1> HIDE DEF gs, n, m
  <1>7. CASE f.size = 0
    <2> DEFINE c2 == [ch EXCEPT !.header = f]
    <2>1. recvHeader(ch, f) = Complete(c2)
      BY <1>0, <1>7, Zenon DEF recvHeader
    <2>2. IsChan(c2) /\ c2.log = ch.log /\ c2.message = ch.message /\ c2.header = f /\ c2.body = ch.body
      BY DEF IsChan
    <2> HIDE DEF c2
    <2>3. Len(Filled(gs, n + 1, m)) >= gs[n + 1].size
      BY <1>1, <1>2, <1>4, <1>6, <1>7
    <2>4. Whole(gs, n, m)
      BY <1>2, <1>5, <2>3, Zenon DEF Whole
    <2>5. /\ Whole(gs, n, m) /\ c2.message = gs[n] /\ c2.header = gs[n + 1]
          /\ c2.body = Filled(gs, n + 1, m) /\ Filled(gs, n + 1, m) \in Seq(Octet)
      BY <1>1, <1>2, <1>3, <1>4, <2>2, <2>4, Zenon
    <2>6. LogIs(c2.log, fs)
      BY <2>2, Zenon
    <2>7. ChanAt(Complete(c2), Append(fs, f))
      BY <1>2, <2>2, <2>5, <2>6, CompleteStep DEF gs, n, m
    <2> QED BY <2>1, <2>7, Zenon
  <1>8. CASE f.size # 0
    <2> DEFINE new == [ch EXCEPT !.header = f, !.recv = "content"]
    <2>1. recvHeader(ch, f) = new
      BY <1>0, <1>8, Zenon DEF recvHeader
    <2>2. /\ IsChan(new) /\ new.log = ch.log /\ new.message = ch.message /\ new.header = f
          /\ new.body = ch.body /\ new.recv = "content"
      BY DEF IsChan
    <2> HIDE DEF new
    <2>3. Len(Filled(gs, n + 1, m)) < gs[n + 1].size
      BY <1>1, <1>2, <1>4, <1>6, <1>8
    <2>4. Unfilled(gs, n, m)
      BY <1>2, <1>5, <2>3, Zenon DEF Unfilled
    <2>5. /\ Unfilled(gs, n, m) /\ new.message = gs[n] /\ new.header = gs[n + 1]
          /\ new.body = Filled(gs, n + 1, m) /\ Filled(gs, n + 1, m) \in Seq(Octet)
      BY <1>1, <1>2, <1>3, <1>4, <2>2, <2>4, Zenon
    <2>7. ChanAt(new, Append(fs, f))
      BY <1>2, <2>2, <2>5, ContentStep DEF gs, n, m
    <2> QED BY <2>1, <2>7, Zenon
  <1> QED BY <1>7, <1>8

\* A body in a content that is not filled yet.
LEMMA BodyStep ==
  ASSUME NEW ch, NEW fs, NEW f, FramesOK(fs), FrameOK(f), IsChan(ch), LogIs(ch.log, fs),
         ch.recv = "content", AtContent(ch, fs), f.type = frameBody
  PROVE  ChanAt(recvContent(ch, f), Append(fs, f))
  <1> DEFINE gs == Append(fs, f)
             n  == Len(fs)
             m  == n + 1
  <1>0. f.type # frameMethod /\ f.type # frameHeader /\ f.body \in Seq(Octet)
    BY Kinds DEF FrameOK
  <1>1. n \in Nat /\ gs[m] = f /\ Same(fs, gs, n) /\ FramesOK(gs)
    BY FramesAppend
  <1> HIDE DEF gs
  <1>2. PICK i \in 1 .. n - 1 : /\ Unfilled(fs, i, n) /\ ch.message = fs[i] /\ ch.header = fs[i + 1]
                                /\ ch.body = Filled(fs, i + 1, n)
    BY Zenon DEF AtContent
  <1>3. /\ i \in 1 .. n /\ i + 1 \in 1 .. n /\ i + 1 \in Nat /\ i + 1 <= n /\ i < n /\ n \in 1 .. n /\ i \in Nat
        /\ i + 2 .. m = (i + 2 .. n) \cup {m} /\ i + 1 .. m = (i + 1 .. n) \cup {m} /\ i + 1 .. m - 1 = i + 1 .. n
    BY <1>1
  <1> HIDE DEF n, m
  <1>4. InContent(fs, i, n) /\ \A k \in i + 1 .. n : Len(Filled(fs, i + 1, k)) < fs[i + 1].size
    BY <1>2, Zenon DEF Unfilled
  <1>5. gs[i] = fs[i] /\ gs[i + 1] = fs[i + 1] /\ \A k \in i + 2 .. n : gs[k] = fs[k]
    BY <1>1, <1>3 DEF Same
  <1>6. InContent(gs, i, m)
    BY <1>0, <1>1, <1>3, <1>4, <1>5, Zenon DEF InContent
  <1>7. \A k \in i + 1 .. n : Len(Filled(gs, i + 1, k)) < gs[i + 1].size
    <2>1. ASSUME NEW k \in i + 1 .. n PROVE Filled(gs, i + 1, k) = Filled(fs, i + 1, k)
      <3>1. k \in Nat /\ k <= n
        BY <1>1, <1>3
      <3> QED BY <1>1, <1>3, <3>1, FilledSame
    <2> QED BY <1>4, <1>5, <2>1, Zenon
  <1>8. /\ Filled(gs, i + 1, m) = Filled(fs, i + 1, n) \o f.body
        /\ Filled(fs, i + 1, n) \in Seq(Octet)
    <2>1. ASSUME NEW k \in (i + 1) + 1 .. n PROVE gs[k] = fs[k] /\ fs[k].body \in Seq(Octet)
      <3>1. k \in i + 2 .. n /\ k \in 1 .. n
        BY <1>1, <1>3
      <3>2. fs[k].type = frameBody
        BY <1>4, <3>1, Zenon DEF InContent
      <3> QED BY <1>5, <3>1, <3>2, Zenon DEF FramesOK, FrameOK, n
    <2>2. gs[n + 1].body \in Seq(Octet) /\ gs[n + 1] = f
      BY <1>0, <1>1, Zenon DEF m
    <2> DEFINE i1 == i + 1
    <2>3. i1 \in Nat /\ i1 <= n /\ \A k \in i1 + 1 .. n : gs[k] = fs[k] /\ fs[k].body \in Seq(Octet)
      BY <1>3, <2>1, Zenon
    <2> HIDE DEF i1
    <2>4. Filled(gs, i1, n + 1) = Filled(fs, i1, n) \o gs[n + 1].body /\ Filled(fs, i1, n) \in Seq(Octet)
      BY <1>1, <2>2, <2>3, FilledMore
    <2> QED BY <2>2, <2>4, Zenon DEF i1, m
  <1> DEFINE b == Filled(fs, i + 1, n) \o f.body
             grown == [ch EXCEPT !.body = @ \o f.body]
  <1>9. b \in Seq(Octet) /\ Len(b) \in Nat
    <2> DEFINE x == Filled(fs, i + 1, n)
               y == f.body
    <2>1. x \in Seq(Octet) /\ y \in Seq(Octet)
      BY <1>0, <1>8
    <2> HIDE DEF x, y
    <2>2. x \o y \in Seq(Octet) /\ Len(x \o y) \in Nat
      BY <2>1
    <2> QED BY <2>2 DEF x, y
  <1>10. /\ IsChan(grown) /\ grown.log = ch.log /\ grown.message = ch.message /\ grown.header = ch.header
         /\ grown.body = ch.body \o f.body /\ grown.recv = ch.recv
    BY DEF IsChan
  <1>11. grown.body = b /\ grown.message = gs[i] /\ grown.header = gs[i + 1] /\ ch.header = gs[i + 1] /\ LogIs(grown.log, fs)
    BY <1>2, <1>5, <1>10, Zenon
  <1>12. recvContent(ch, f) = IF Len(grown.body) >= ch.header.size THEN Complete(grown) ELSE grown
    BY <1>0, Zenon DEF recvContent
  <1>13. Filled(gs, i + 1, m) = b
    BY <1>8, Zenon
  <1>14. gs[i + 1].size \in Nat
    <2>1. gs[i + 1].type = frameHeader /\ FrameOK(gs[i + 1])
      BY <1>3, <1>4, <1>5, Zenon DEF InContent, FramesOK, n
    <2> QED BY <2>1, Zenon DEF FrameOK
  <1> HIDE DEF b, grown
  <1>15. CASE Len(b) >= gs[i + 1].size
    <2>1. Whole(gs, i, m)
      BY <1>3, <1>6, <1>7, <1>13, <1>15, Zenon DEF Whole
    <2>2. /\ Whole(gs, i, m) /\ grown.message = gs[i] /\ grown.header = gs[i + 1]
          /\ grown.body = Filled(gs, i + 1, m) /\ Filled(gs, i + 1, m) \in Seq(Octet)
      BY <1>9, <1>11, <1>13, <2>1, Zenon
    <2>3. ChanAt(Complete(grown), Append(fs, f))
      BY <1>3, <1>10, <1>11, <2>2, CompleteStep DEF gs, n, m
    <2> QED BY <1>11, <1>12, <1>15, <2>3, Zenon
  <1>16. CASE ~(Len(b) >= gs[i + 1].size)
    <2>0. Len(b) < gs[i + 1].size
      BY <1>9, <1>14, <1>16
    <2>1. Unfilled(gs, i, m)
      BY <1>3, <1>6, <1>7, <1>13, <2>0, Zenon DEF Unfilled
    <2>2. /\ Unfilled(gs, i, m) /\ grown.message = gs[i] /\ grown.header = gs[i + 1]
          /\ grown.body = Filled(gs, i + 1, m) /\ Filled(gs, i + 1, m) \in Seq(Octet)
      BY <1>9, <1>11, <1>13, <2>1, Zenon
    <2>3. ChanAt(grown, Append(fs, f))
      BY <1>3, <1>10, <1>11, <2>2, ContentStep DEF gs, n, m
    <2> QED BY <1>11, <1>12, <1>16, <2>3, Zenon
  <1> QED BY <1>15, <1>16

\* Whatever frame comes: recvMethod, recvHeader and recvContent dispatch what the frames so far
\* make up.
LEMMA RecvStep ==
  ASSUME NEW ch, NEW fs, NEW f, FramesOK(fs), FrameOK(f), ChanAt(ch, fs)
  PROVE  ChanAt(recv(ch, f), Append(fs, f))
  <1> DEFINE n    == Len(fs)
             drop == [ch EXCEPT !.recv = "method"]
  <1>0. n \in Nat
    BY FramesAppend
  <1>1. IsChan(ch) /\ LogIs(ch.log, fs) /\ Stage(ch, fs)
    BY Zenon DEF ChanAt
  <1>2. \A i \in 1 .. n - 1 : Unfilled(fs, i, n) => ~Carries(fs[n])
    <2>1. ASSUME NEW i \in 1 .. n - 1, Unfilled(fs, i, n) PROVE ~Carries(fs[n])
      <3>1. i \in Nat /\ i < n /\ InContent(fs, i, n)
        BY <1>0, <2>1 DEF Unfilled
      <3> QED BY <1>0, <3>1, ContentLast
    <2> QED BY <2>1
  <1>3. CASE f.type = frameMethod
    <2>1. recv(ch, f) = recvMethod(ch, f)
      <3>1. f.type # frameHeader /\ f.type # frameBody
        BY <1>3, Kinds
      <3>2. recvHeader(ch, f) = recvMethod(ch, f) /\ recvContent(ch, f) = recvMethod(ch, f)
        BY <1>3, <3>1, Zenon DEF recvHeader, recvContent
      <3> QED BY <1>1, <3>2 DEF recv, Stage
    <2> QED BY <1>1, <1>3, <2>1, MethodStep
  <1>4. CASE f.type # frameMethod
    <2>1. ~Carries(f) /\ ~Lone(f)
      BY <1>4, Zenon DEF Carries, Lone
    <2>2. recvMethod(ch, f) = drop
      BY <2>1, Zenon DEF recvMethod
    <2>3. \/ f.type = frameHeader /\ f.type # frameBody
          \/ f.type = frameBody /\ f.type # frameHeader
      BY <1>4, Kinds
    <2>4. ASSUME ~(f.type = frameHeader /\ n > 0 /\ Carries(fs[n])),
                 f.type = frameBody => \A i \in 1 .. n - 1 : ~Unfilled(fs, i, n)
          PROVE  ChanAt(drop, Append(fs, f))
      BY <1>1, <1>4, <2>4, DropStep
    <2>5. CASE ch.recv = "method" /\ Idle(fs)
      <3>1. recv(ch, f) = drop
        BY <2>2, <2>5 DEF recv
      <3>2. ~(f.type = frameHeader /\ n > 0 /\ Carries(fs[n]))
        BY <2>5, Zenon DEF Idle
      <3>3. f.type = frameBody => \A i \in 1 .. n - 1 : ~Unfilled(fs, i, n)
        BY <2>5, Zenon DEF Idle
      <3> QED BY <2>4, <3>1, <3>2, <3>3, Zenon
    <2>6. CASE ch.recv = "header" /\ AtHeader(ch, fs)
      <3>1. recv(ch, f) = recvHeader(ch, f)
        BY <2>6 DEF recv
      <3>2. CASE f.type = frameHeader
        BY <1>1, <2>6, <3>1, <3>2, HeaderStep
      <3>3. CASE f.type = frameBody
        <4>1. recvHeader(ch, f) = drop
          BY <1>4, <2>3, <3>3, Zenon DEF recvHeader
        <4>2. \A i \in 1 .. n - 1 : ~Unfilled(fs, i, n)
          BY <1>2, <2>6, Zenon DEF AtHeader
        <4>3. ~(f.type = frameHeader /\ n > 0 /\ Carries(fs[n]))
          BY <2>3, <3>3, Zenon
        <4> QED BY <2>4, <3>1, <4>1, <4>2, <4>3, Zenon
      <3> QED BY <2>3, <3>2, <3>3
    <2>7. CASE ch.recv = "content" /\ AtContent(ch, fs)
      <3>1. recv(ch, f) = recvContent(ch, f)
        BY <2>7 DEF recv
      <3>2. CASE f.type = frameBody
        BY <1>1, <2>7, <3>1, <3>2, BodyStep
      <3>3. CASE f.type = frameHeader
        <4>1. recvContent(ch, f) = drop
          BY <1>4, <2>3, <3>3, Zenon DEF recvContent
        <4>2. ~Carries(fs[n])
          BY <1>2, <2>7, Zenon DEF AtContent
        <4>3. f.type = frameBody => \A i \in 1 .. n - 1 : ~Unfilled(fs, i, n)
          BY <2>3, <3>3, Zenon
        <4> QED BY <2>4, <3>1, <4>1, <4>2, <4>3, Zenon
      <3> QED BY <2>3, <3>2, <3>3
    <2> QED BY <1>1, <2>5, <2>6, <2>7, Zenon DEF Stage
  <1> QED BY <1>3, <1>4

LEMMA FreshChan == ChanAt(Fresh, <<>>)
  <1>1. IsChan(Fresh) /\ Fresh.recv = "method" /\ Fresh.log = <<>>
    BY DEF IsChan, Fresh
  <1>2. Messages(<<>>) = <<>>
    <2>1. [j \in DOMAIN <<>> |-> MessageAt(<<>>, j)] = <<>>
      OBVIOUS
    <2> QED BY <2>1, FlattenEmpty, Zenon DEF Messages
  <1>3. Dispatched(<<>>) = <<>>
    BY DEF Dispatched
  <1>4. Idle(<<>>)
    <2>1. Len(<<>>) = 0 /\ 1 .. Len(<<>>) - 1 = {} /\ ~(Len(<<>>) > 0)
      OBVIOUS
    <2> QED BY <2>1, Zenon DEF Idle
  <1> QED BY <1>1, <1>2, <1>3, <1>4, Zenon DEF ChanAt, Stage, LogIs

-----------------------------------------------------------------------------
(***************************************************************************)
(* All channels.                                                           *)
(***************************************************************************)
LEMMA SeqRange ==
  ASSUME NEW X, NEW s \in Seq(X)
  PROVE  s \in Seq(Range(s)) /\ s \o <<>> = s
  <1>1. Len(s) \in Nat /\ s \in [1 .. Len(s) -> Range(s)]
    BY DEF Range
  <1>2. s \in Seq(Range(s))
    BY <1>1, SeqOfFcn
  <1>3. s \o <<>> = s
    OBVIOUS
  <1> QED BY <1>2, <1>3

LEMMA OfAppend ==
  ASSUME NEW c, NEW fs, NEW f, fs \in Seq(Range(fs))
  PROVE  /\ Of(c, Append(fs, f)) = IF f.channel = c THEN Append(Of(c, fs), f) ELSE Of(c, fs)
         /\ Of(c, fs) \in Seq(Range(Of(c, fs)))
  <1> DEFINE gs == Append(fs, f)
             n  == Len(fs)
             One(h) == IF h.channel = c THEN <<h>> ELSE <<>>
             s  == [j \in 1 .. n + 1 |-> One(gs[j])]
             S  == {One(gs[j]) : j \in 1 .. n + 1}
             x  == One(f)
             a  == Of(c, fs)
             b  == Of(c, gs)
  <1>1. n \in Nat /\ DOMAIN fs = 1 .. n /\ DOMAIN gs = 1 .. n + 1 /\ gs[n + 1] = f /\ \A k \in 1 .. n : gs[k] = fs[k]
    OBVIOUS
  <1> HIDE DEF gs, n
  <1>2. s \in [1 .. n + 1 -> S]
    BY Zenon
  <1>3. \A h : AtMostOne(One(h))
    BY DEF AtMostOne
  <1>4. b = FlattenSeq(s)
    BY <1>1, Zenon DEF Of
  <1>5. a = FlattenSeq([i \in 1 .. n |-> s[i]])
    <2>1. ASSUME NEW j \in 1 .. n PROVE s[j] = One(fs[j])
      <3>1. j \in 1 .. n + 1
        BY <1>1
      <3> QED BY <1>1, <3>1, Zenon
    <2> HIDE DEF s
    <2>2. [i \in 1 .. n |-> s[i]] = [j \in 1 .. n |-> One(fs[j])]
      BY <2>1, Zenon
    <2> QED BY <1>1, <2>2, Zenon DEF Of
  <1>6. s[n + 1] = x
    BY <1>1
  <1>7. \A i \in 1 .. n + 1 : AtMostOne(s[i])
    BY <1>3, Zenon
  <1> HIDE DEF s, S, x, a, b
  <1>8. /\ FlattenSeq(s) = FlattenSeq([i \in 1 .. n |-> s[i]]) \o s[n + 1]
        /\ \E X : FlattenSeq([i \in 1 .. n |-> s[i]]) \in Seq(X) /\ s[n + 1] \in Seq(X)
    BY <1>1, <1>2, <1>7, FlattenShort
  <1>9. b = a \o x /\ \E X : a \in Seq(X) /\ x \in Seq(X)
    BY <1>4, <1>5, <1>6, <1>8, Zenon
  <1>10. PICK X : a \in Seq(X) /\ x \in Seq(X)
    BY <1>9, Zenon
  <1>11. a \in Seq(Range(a)) /\ a \o <<>> = a
    BY <1>10, SeqRange
  <1>12. CASE f.channel = c
    <2>1. x = <<f>>
      BY <1>12 DEF x
    <2>2. a \o <<f>> = Append(a, f)
      BY <1>10, <2>1
    <2> QED BY <1>9, <1>11, <1>12, <2>1, <2>2 DEF a, b, gs
  <1>13. CASE f.channel # c
    <2>1. x = <<>>
      BY <1>13 DEF x
    <2> QED BY <1>9, <1>11, <1>13, <2>1 DEF a, b, gs
  <1> QED BY <1>12, <1>13

\* What the format keeps of a frame is a frame of the same kind and channel.
LEMMA KeptIs ==
  ASSUME NEW c, NEW f, IsFrame(c, f)
  PROVE  KeptFrame(f).channel = c /\ KeptFrame(f).type = f.type /\ FrameOK(KeptFrame(f))
  <1> DEFINE k == KeptFrame(f)
  <1>0. frameMethod # frameHeader /\ frameMethod # frameBody /\ frameHeader # frameBody
    BY DEF frameMethod, frameHeader, frameBody
  <1>1. CASE f.type = frameMethod
    <2>1. f = methodFrame(c, f.name, f.args)
      BY <1>0, <1>1, SMT DEF IsFrame
    <2>2. DOMAIN f = {"type", "channel", "name", "args"} /\ f.channel = c
      BY <2>1, SMT DEF methodFrame
    <2>3. k = [f EXCEPT !.args = KeptArgs(f.name, f.args)]
      BY <1>0, <1>1, Zenon DEF KeptFrame
    <2>4. k.channel = f.channel /\ k.type = f.type
      BY <2>2, <2>3
    <2> QED BY <1>0, <1>1, <2>2, <2>4, Zenon DEF FrameOK
  <1>2. CASE f.type = frameHeader
    <2>1. f = headerFrame(c, f.class, f.size, f.props) /\ f.size \in Nat
      BY <1>0, <1>2, SMT DEF IsFrame
    <2>2. DOMAIN f = {"type", "channel", "class", "size", "props"} /\ f.channel = c
      BY <2>1, SMT DEF headerFrame
    <2>3. k = [f EXCEPT !.props = KeptProps(f.props)]
      BY <1>0, <1>2, Zenon DEF KeptFrame
    <2>4. k.channel = f.channel /\ k.type = f.type /\ k.size = f.size
      BY <2>2, <2>3
    <2> QED BY <1>0, <1>2, <2>1, <2>2, <2>4, Zenon DEF FrameOK
  <1>3. CASE f.type = frameBody
    <2>1. f = bodyFrame(c, f.body) /\ IsBody(f.body)
      BY <1>0, <1>3, SMT DEF IsFrame
    <2>2. f.channel = c /\ f.body \in Seq(Octet)
      BY <2>1, SMT DEF bodyFrame, IsBody
    <2>3. k = f
      BY <1>0, <1>3, Zenon DEF KeptFrame
    <2> QED BY <1>0, <1>3, <2>2, <2>3, Zenon DEF FrameOK
  <1> QED BY <1>1, <1>2, <1>3, SMT DEF IsFrame

LEMMA FrameKept ==
  ASSUME RoundTrip(Seq(Octet)), NEW f \in AllFrames, KeptFrame(f).channel \in Channels
  PROVE  FrameOK(KeptFrame(f))
  <1>1. CASE f = heartbeatFrame(0)
    <2>1. KeptFrame(f) = f
      <3>1. f.type # frameMethod /\ f.type # frameHeader
        BY <1>1 DEF heartbeatFrame, frameMethod, frameHeader, frameHeartbeat
      <3> QED BY <3>1, Zenon DEF KeptFrame
    <2>2. f.channel = 0
      BY <1>1 DEF heartbeatFrame
    <2>3. 0 \notin Channels
      <3>1. \A c \in Channels : c \in Nat \ {0}
        BY ChannelsAssumption, SMT
      <3> QED BY <3>1, Zenon
    <2> QED BY <2>1, <2>2, <2>3, Zenon
  <1>2. ASSUME NEW c \in Lines, f \in Frames(c) PROVE FrameOK(KeptFrame(f))
    <2>1. IsFrame(c, f)
      BY <1>2, FramesAre
    <2> QED BY <2>1, KeptIs
  <1> QED BY <1>1, <1>2, Zenon DEF AllFrames

ChansOK ==
  /\ DOMAIN chan = Channels
  /\ \A c \in Channels : FramesOK(Of(c, read)) /\ ChanAt(chan[c], Of(c, read))

LEMMA ChansInit == Init => ChansOK
  <1> SUFFICES ASSUME Init PROVE ChansOK
    OBVIOUS
  <1>1. ASSUME NEW c \in Channels PROVE Of(c, read) = <<>>
    <2>1. read = <<>>
      BY DEF Init
    <2>2. [i \in DOMAIN read |-> IF read[i].channel = c THEN <<read[i]>> ELSE <<>>] = <<>>
      BY <2>1
    <2> QED BY <2>2, FlattenEmpty, Zenon DEF Of
  <1>2. FramesOK(<<>>)
    BY DEF FramesOK, Range
  <1>3. DOMAIN chan = Channels /\ \A c \in Channels : chan[c] = Fresh
    BY Zenon DEF Init
  <1> QED BY <1>1, <1>2, <1>3, FreshChan, Zenon DEF ChansOK

LEMMA ChansReads ==
  ASSUME RoundTrip(Seq(Octet)), StreamOK, ChansOK, reader
  PROVE  ChansOK'
  <1> DEFINE r == ReadFrame(wire)
             f == r.v
             k == Len(read)
  <1>1. rerr = "nil" /\ (wire # <<>> \/ down)
    BY DEF reader
  <1>2. CASE r.err # "nil"
    <2>1. read' = read /\ chan' = chan
      BY <1>2, Zenon DEF reader
    <2> QED BY <2>1, Zenon DEF ChansOK
  <1>3. CASE r.err = "nil"
    <2>1. k < Len(written) /\ f = KeptFrame(written[k + 1])
      BY <1>1, <1>3, ReaderGets, Zenon
    <2>2. /\ read' = Append(read, f)
          /\ chan' = IF f.channel \in Channels THEN [chan EXCEPT ![f.channel] = recv(@, f)] ELSE chan
      BY <1>3, Zenon DEF reader
    <2>3. read \in Seq(Range(read)) /\ written \in Seq(AllFrames)
      BY Zenon DEF StreamOK
    <2>4. written[k + 1] \in AllFrames
      BY <2>1, <2>3
    <2>5. f.channel \in Channels => FrameOK(f)
      BY <2>1, <2>4, FrameKept, Zenon
    <2> HIDE DEF r, f, k
    <2>6. DOMAIN chan' = Channels
      BY <2>2, Zenon DEF ChansOK
    <2>7. ASSUME NEW c \in Channels PROVE (FramesOK(Of(c, read)) /\ ChanAt(chan[c], Of(c, read)))'
      <3> DEFINE fs == Of(c, read)
      <3>1. Of(c, Append(read, f)) = IF f.channel = c THEN Append(fs, f) ELSE fs
        BY <2>3, OfAppend, Zenon
      <3>2. FramesOK(fs) /\ ChanAt(chan[c], fs)
        BY Zenon DEF ChansOK
      <3>3. Of(c, read') = IF f.channel = c THEN Append(fs, f) ELSE fs
        BY <2>2, <3>1, Zenon
      <3> HIDE DEF fs
      <3>4. CASE f.channel = c
        <4>1. chan'[c] = recv(chan[c], f)
          BY <2>2, <3>4, Zenon DEF ChansOK
        <4>2. FrameOK(f)
          BY <2>5, <3>4, Zenon
        <4>3. FramesOK(Append(fs, f)) /\ ChanAt(recv(chan[c], f), Append(fs, f))
          BY <3>2, <4>2, RecvStep, FramesAppend
        <4> QED BY <3>3, <3>4, <4>1, <4>3, Zenon
      <3>5. CASE f.channel # c
        <4>1. chan'[c] = chan[c]
          BY <2>2, <3>5, Zenon DEF ChansOK
        <4> QED BY <3>2, <3>3, <3>5, <4>1, Zenon
      <3> QED BY <3>4, <3>5
    <2> QED BY <2>6, <2>7, Zenon DEF ChansOK
  <1> QED BY <1>2, <1>3

LEMMA ChansNext ==
  ASSUME RoundTrip(Seq(Octet)), StreamOK, ChansOK, [Next]_vars
  PROVE  ChansOK'
  <1>1. CASE read' = read /\ chan' = chan
    BY <1>1, Zenon DEF ChansOK
  <1>2. CASE reader
    BY <1>2, ChansReads
  <1>3. CASE Heartbeat \/ Cut \/ UNCHANGED vars
    BY <1>1, <1>3, Zenon DEF Heartbeat, Cut, vars, rVars
  <1>4. ASSUME NEW c \in Lines, Send(c) \/ WriteFrame(c) PROVE ChansOK'
    BY <1>1, <1>4, Zenon DEF Send, WriteFrame, rVars
  <1> QED BY <1>2, <1>3, <1>4, Zenon DEF Next

-----------------------------------------------------------------------------
(***************************************************************************)
(* What sendOpen makes of a message is put together again: the pieces tile *)
(* the body, so that no frame but the last fills the size in the header.   *)
(***************************************************************************)
LEMMA DivIs ==
  ASSUME NEW a \in Nat, NEW b \in Nat, b > 0
  PROVE  a \div b \in Nat /\ (a \div b) * b <= a /\ a < ((a \div b) + 1) * b
  BY SMT

LEMMA Times ==
  ASSUME NEW a \in Nat, NEW b \in Nat, NEW k \in Nat, a <= b
  PROVE  a * k \in Nat /\ b * k \in Nat /\ a * k <= b * k
  BY SMT

\* The size in the header is reached with the last piece and not before.
LEMMA PieceEnds ==
  ASSUME NEW body, IsBody(body), NEW j \in 0 .. PieceCount(body)
  PROVE  /\ PieceEnd(body, j) \in Nat /\ PieceEnd(body, j) <= Len(body)
         /\ j < PieceCount(body) => PieceEnd(body, j) < Len(body) /\ PieceEnd(body, j) = j * PieceSize(body)
         /\ j = PieceCount(body) => PieceEnd(body, j) = Len(body)
  <1> DEFINE n == Len(body)
             k == PieceSize(body)
             N == PieceCount(body)
             e == PieceEnd(body, j)
  <1>1. n \in Nat /\ k \in Nat /\ N \in Nat /\ (body # <<>> => k > 0)
    BY PiecesIs, Zenon
  <1>2. e = IF j * k > n THEN n ELSE j * k
    BY Zenon DEF PieceEnd
  <1>3. j \in Nat /\ j <= N
    BY <1>1
  <1>4. CASE body = <<>>
    <2>1. n = 0 /\ N = 0
      BY <1>4 DEF PieceCount
    <2> HIDE DEF n, k, N, e
    <2>2. j = 0 /\ j * k = 0
      BY <1>1, <1>3, <2>1
    <2>3. e = 0
      BY <1>2, <2>1, <2>2
    <2> QED BY <1>3, <2>1, <2>2, <2>3 DEF n, k, N, e
  <1>5. CASE body # <<>>
    <2>1. N = (n + k - 1) \div k /\ k > 0
      BY <1>1, <1>5, Zenon DEF PieceCount
    <2> HIDE DEF n, k, N, e
    <2>2. n + k - 1 \in Nat /\ n + k - 1 = n + (k - 1)
      BY <1>1, <2>1
    <2>3. N * k <= n + k - 1 /\ n + k - 1 < (N + 1) * k
      BY <1>1, <2>1, <2>2, DivIs
    <2>4. N * k \in Nat /\ (N + 1) * k = N * k + k /\ j * k \in Nat
      BY <1>1, <1>3
    <2>5. n <= N * k
      <3> DEFINE x == N * k
      <3>1. x \in Nat /\ n + k - 1 < x + k
        BY <2>3, <2>4
      <3> HIDE DEF x
      <3>2. n <= x
        BY <1>1, <3>1
      <3> QED BY <3>2 DEF x
    <2>6. CASE j = N
      <3> DEFINE x == N * k
      <3>1. x \in Nat /\ n <= x /\ e = IF x > n THEN n ELSE x
        BY <1>2, <2>4, <2>5, <2>6
      <3> HIDE DEF x
      <3>2. e = n
        BY <1>1, <3>1
      <3> QED BY <1>1, <2>6, <3>2 DEF n, k, N, e
    <2>7. CASE j # N
      <3>1. j + 1 \in Nat /\ j + 1 <= N /\ j < N
        BY <1>1, <1>3, <2>7
      <3>2. (j + 1) * k <= N * k /\ (j + 1) * k = j * k + k
        BY <1>1, <1>3, <3>1, Times
      <3> DEFINE x == N * k
                 y == j * k
      <3>3. y \in Nat /\ x \in Nat /\ y + k <= x /\ x <= n + k - 1 /\ e = IF y > n THEN n ELSE y
        BY <1>2, <2>3, <2>4, <3>2
      <3> HIDE DEF x, y
      <3>4. e = y /\ y < n
        BY <1>1, <2>1, <3>3
      <3>5. e \in Nat /\ e <= n /\ e < n
        BY <1>1, <3>3, <3>4
      <3> QED BY <2>7, <3>4, <3>5 DEF n, k, N, e, y
    <2> QED BY <2>6, <2>7
  <1> QED BY <1>4, <1>5

LEMMA Adjacent ==
  ASSUME NEW X, NEW s \in Seq(X), NEW a \in Nat, NEW b \in Nat, a <= b, b <= Len(s)
  PROVE  SubSeq(s, 1, a) \o SubSeq(s, a + 1, b) = SubSeq(s, 1, b)
  <1>1. 1 \in 1 .. Len(s) + 1 /\ a \in 1 - 1 .. Len(s) /\ b \in a .. Len(s)
    BY LenProperties
  <1> QED BY <1>1, ConcatAdjacentSubSeq

Tile(body, j) == SubSeq(body, 1, PieceEnd(body, j))

LEMMA TileIs ==
  ASSUME NEW body, IsBody(body)
  PROVE  /\ PieceCount(body) \in Nat /\ DOMAIN pieces(body) = 1 .. PieceCount(body)
         /\ Tile(body, 0) = <<>> /\ Tile(body, PieceCount(body)) = body
         /\ \A j \in 0 .. PieceCount(body) : /\ Len(Tile(body, j)) \in Nat
                                             /\ j < PieceCount(body) => Len(Tile(body, j)) < Len(body)
         /\ \A j \in 1 .. PieceCount(body) :
              /\ pieces(body)[j] \in Seq(Octet)
              /\ Tile(body, j - 1) \o pieces(body)[j] = Tile(body, j)
  <1> DEFINE N == PieceCount(body)
             k == PieceSize(body)
  <1>1. N \in Nat /\ k \in Nat /\ Len(body) \in Nat /\ body \in Seq(Octet)
    BY PiecesIs, Zenon DEF IsBody
  <1>2. DOMAIN pieces(body) = 1 .. N /\ \A j \in 1 .. N : pieces(body)[j] = SubSeq(body, (j - 1) * k + 1, PieceEnd(body, j))
    BY PiecesIs, Zenon
  <1>3. Tile(body, 0) = <<>>
    <2>1. PieceEnd(body, 0) = 0
      <3> DEFINE n == Len(body)
      <3>1. PieceEnd(body, 0) = IF 0 * k > n THEN n ELSE 0 * k
        BY Zenon DEF PieceEnd
      <3>2. n \in Nat
        BY <1>1
      <3> HIDE DEF k, n
      <3> QED BY <1>1, <3>1, <3>2
    <2>2. SubSeq(body, 1, 0) = <<>>
      BY SubSeqEmpty
    <2> QED BY <2>1, <2>2, Zenon DEF Tile
  <1>4. Tile(body, N) = body
    <2>1. N \in 0 .. N
      BY <1>1
    <2>2. PieceEnd(body, N) = Len(body)
      BY <2>1, PieceEnds
    <2>3. SubSeq(body, 1, Len(body)) = body
      BY <1>1, SubSeqFull
    <2> QED BY <2>2, <2>3, Zenon DEF Tile
  <1>5. ASSUME NEW j \in 0 .. N
        PROVE  Len(Tile(body, j)) \in Nat /\ (j < N => Len(Tile(body, j)) < Len(body))
    <2> DEFINE e == PieceEnd(body, j)
    <2>1. e \in Nat /\ e <= Len(body) /\ (j < N => e < Len(body))
      BY PieceEnds
    <2> HIDE DEF e
    <2>2. Len(SubSeq(body, 1, e)) = e
      BY <1>1, <2>1, PrefixIs
    <2> QED BY <2>1, <2>2, Zenon DEF Tile, e
  <1>6. ASSUME NEW j \in 1 .. N
        PROVE  /\ pieces(body)[j] \in Seq(Octet)
               /\ Tile(body, j - 1) \o pieces(body)[j] = Tile(body, j)
    <2> DEFINE a == PieceEnd(body, j - 1)
               e == PieceEnd(body, j)
    <2>1. pieces(body)[j] \in Seq(Octet)
      BY <1>2, PieceIsBody, Zenon DEF IsBody
    <2>2. j \in 0 .. N /\ j - 1 \in 0 .. N /\ j - 1 < N
      BY <1>1
    <2>3. e \in Nat /\ e <= Len(body) /\ (j < N => e = j * k) /\ (j = N => e = Len(body))
      BY <2>2, PieceEnds
    <2>4. a \in Nat /\ a < Len(body) /\ a = (j - 1) * k
      BY <2>2, PieceEnds
    <2>5. a <= e
      <3>1. j \in Nat /\ j - 1 \in Nat /\ j - 1 <= j /\ (j < N \/ j = N)
        BY <1>1
      <3>2. (j - 1) * k <= j * k
        BY <1>1, <3>1, Times
      <3> HIDE DEF a, e, N, k
      <3>3. CASE j < N
        BY <2>3, <2>4, <3>2, <3>3
      <3>4. CASE j = N
        BY <1>1, <2>3, <2>4, <3>4
      <3> QED BY <3>1, <3>3, <3>4
    <2> HIDE DEF a, e
    <2>6. SubSeq(body, 1, a) \o SubSeq(body, a + 1, e) = SubSeq(body, 1, e)
      BY <1>1, <2>3, <2>4, <2>5, Adjacent
    <2>7. pieces(body)[j] = SubSeq(body, a + 1, e)
      BY <1>2, <2>4, Zenon DEF e
    <2> QED BY <2>1, <2>6, <2>7, Zenon DEF Tile, a, e
  <1> QED BY <1>1, <1>2, <1>3, <1>4, <1>5, <1>6, Zenon

LEMMA FilledTiles ==
  ASSUME NEW body, IsBody(body), NEW gs, NEW i \in Nat, NEW j \in 0 .. PieceCount(body),
         \A k \in 1 .. j : gs[i + k].body = pieces(body)[k]
  PROVE  \A k \in 0 .. j : Filled(gs, i, i + k) = Tile(body, k)
  <1> DEFINE N == PieceCount(body)
             T == {k \in 0 .. j : Filled(gs, i, i + k) = Tile(body, k)}
  <1>1. /\ N \in Nat /\ Tile(body, 0) = <<>>
        /\ \A k \in 1 .. N : pieces(body)[k] \in Seq(Octet) /\ Tile(body, k - 1) \o pieces(body)[k] = Tile(body, k)
    BY TileIs, Zenon
  <1> HIDE DEF N
  <1>2. N \in Nat /\ j \in Nat /\ j <= N
    <2>1. PieceCount(body) \in Nat
      BY <1>1, Zenon DEF N
    <2> QED BY <2>1 DEF N
  <1>3. 0 \in T
    <2>1. i + 0 = i /\ 0 \in 0 .. j /\ i \in Int
      BY <1>2
    <2> QED BY <1>1, <2>1, FilledNone, Zenon
  <1>4. ASSUME NEW k \in 0 .. j - 1, k \in T PROVE k + 1 \in T
    <2> DEFINE n == i + k
    <2>1. /\ k \in Nat /\ k + 1 \in 0 .. j /\ k + 1 \in 1 .. j /\ k + 1 \in 1 .. N /\ (k + 1) - 1 = k
          /\ n \in Nat /\ i <= n /\ n + 1 = i + (k + 1)
      BY <1>2
    <2>2. ASSUME NEW l \in i + 1 .. n PROVE gs[l].body \in Seq(Octet)
      <3>1. l - i \in 1 .. j /\ l - i \in 1 .. N /\ i + (l - i) = l
        BY <1>2, <2>1
      <3> QED BY <1>1, <3>1, Zenon
    <2>3. gs[n + 1].body = pieces(body)[k + 1] /\ gs[n + 1].body \in Seq(Octet)
      BY <1>1, <2>1, Zenon
    <2> HIDE DEF n
    <2>4. Filled(gs, i, n + 1) = Filled(gs, i, n) \o gs[n + 1].body
      BY <2>1, <2>2, <2>3, FilledMore
    <2>5. Filled(gs, i, n) = Tile(body, k)
      BY <1>4, Zenon DEF n
    <2>6. Tile(body, k) \o pieces(body)[k + 1] = Tile(body, k + 1)
      BY <1>1, <2>1, Zenon
    <2>7. Filled(gs, i, i + (k + 1)) = Tile(body, k + 1)
      BY <2>1, <2>3, <2>4, <2>5, <2>6, Zenon
    <2> QED BY <2>1, <2>7
  <1> HIDE DEF T
  <1>5. \A k \in 0 .. j : k \in T
    BY <1>2, <1>3, <1>4, Upwards
  <1> QED BY <1>5 DEF T

\* The frames of a message with content.
LEMMA OpenIs ==
  ASSUME NEW c, NEW msg, IsMessage(msg), Named(msg.name).content
  PROVE  LET fs == sendOpen(c, msg)
         IN  /\ IsBody(msg.body) /\ PieceCount(msg.body) \in Nat /\ Len(fs) = 2 + PieceCount(msg.body)
             /\ fs[1] = methodFrame(c, msg.name, msg.args)
             /\ fs[2] = headerFrame(c, Named(msg.name).class, Len(msg.body), msg.props)
             /\ \A k \in 1 .. PieceCount(msg.body) : fs[2 + k] = bodyFrame(c, pieces(msg.body)[k])
  <1> DEFINE fs == sendOpen(c, msg)
             m  == methodFrame(c, msg.name, msg.args)
             h  == headerFrame(c, Named(msg.name).class, Len(msg.body), msg.props)
             ps == pieces(msg.body)
             N  == PieceCount(msg.body)
             bs == [i \in DOMAIN ps |-> bodyFrame(c, ps[i])]
             S  == {m, h} \cup {bs[i] : i \in DOMAIN ps}
             mh == <<m, h>>
  <1>1. fs = mh \o bs
    BY Zenon DEF sendOpen
  <1>2. IsBody(msg.body)
    BY Zenon DEF IsMessage
  <1>3. DOMAIN ps = 1 .. N /\ N \in Nat
    BY <1>2, PiecesIs, Zenon
  <1>4. bs \in Seq(S) /\ Len(bs) = N
    <2> HIDE DEF ps, m, h, N
    <2>1. bs \in [1 .. N -> S]
      BY <1>3, Zenon
    <2> HIDE DEF S, bs
    <2> QED BY <1>3, <2>1, SeqOfFcn
  <1>5. \A k \in 1 .. N : bs[k] = bodyFrame(c, ps[k])
    BY <1>3, Zenon
  <1>6. mh \in Seq(S) /\ Len(mh) = 2 /\ mh[1] = m /\ mh[2] = h
    <2> HIDE DEF m, h, ps, bs
    <2>1. m \in S /\ h \in S
      OBVIOUS
    <2> HIDE DEF S
    <2> QED BY <2>1
  <1> HIDE DEF S, bs, mh, fs, m, h, ps, N
  <1>7. Len(fs) = 2 + N /\ \A i \in 1 .. 2 + N : fs[i] = IF i <= 2 THEN mh[i] ELSE bs[i - 2]
    <2>1. /\ Len(mh \o bs) = Len(mh) + Len(bs)
          /\ \A i \in 1 .. Len(mh) + Len(bs) : (mh \o bs)[i] = IF i <= Len(mh) THEN mh[i] ELSE bs[i - Len(mh)]
      <3>1. mh \in Seq(S) /\ bs \in Seq(S)
        BY <1>4, <1>6
      <3> QED BY ONLY <3>1, ConcatProperties
    <2> QED BY <1>1, <1>4, <1>6, <2>1, Zenon
  <1>8. 1 \in 1 .. 2 + N /\ 2 \in 1 .. 2 + N /\ 1 <= 2 /\ 2 <= 2
    BY <1>3
  <1>9. fs[1] = m /\ fs[2] = h
    <2>1. fs[1] = mh[1] /\ fs[2] = mh[2]
      BY <1>7, <1>8
    <2> QED BY <1>6, <2>1, Zenon
  <1>10. ASSUME NEW k \in 1 .. N PROVE fs[2 + k] = bodyFrame(c, ps[k])
    <2>1. 2 + k \in 1 .. 2 + N /\ ~(2 + k <= 2) /\ (2 + k) - 2 = k
      BY <1>3
    <2> QED BY <1>5, <1>7, <2>1, Zenon
  <1> QED BY <1>2, <1>3, <1>7, <1>9, <1>10, Zenon DEF fs, m, h, ps, N

\* What the format keeps of these.
LEMMA KeptMethod ==
  ASSUME NEW c, NEW m, NEW a
  PROVE  KeptFrame(methodFrame(c, m, a)) = methodFrame(c, m, KeptArgs(m, a))
  <1>0. frameMethod # frameHeader
    BY DEF frameMethod, frameHeader
  <1> DEFINE f == methodFrame(c, m, a)
  <1>1. f.type = frameMethod /\ f.name = m /\ f.args = a
    BY MethodIs
  <1>2. KeptFrame(f) = [f EXCEPT !.args = KeptArgs(f.name, f.args)]
    <2> HIDE DEF f
    <2> QED BY <1>0, <1>1, Zenon DEF KeptFrame
  <1> DEFINE x == KeptArgs(m, a)
  <1>3. KeptFrame(f) = [f EXCEPT !.args = x]
    BY <1>1, <1>2, Zenon
  <1> HIDE DEF x
  <1>4. [f EXCEPT !.args = x] = methodFrame(c, m, x)
    BY SMT DEF methodFrame
  <1> QED BY <1>3, <1>4, Zenon DEF x

LEMMA KeptHeader ==
  ASSUME NEW c, NEW k, NEW s, NEW p
  PROVE  KeptFrame(headerFrame(c, k, s, p)) = headerFrame(c, k, s, KeptProps(p))
  <1>0. frameMethod # frameHeader
    BY DEF frameMethod, frameHeader
  <1> DEFINE f == headerFrame(c, k, s, p)
  <1>1. f.type = frameHeader /\ f.props = p
    BY HeaderIs
  <1>2. KeptFrame(f) = [f EXCEPT !.props = KeptProps(f.props)]
    <2> HIDE DEF f
    <2> QED BY <1>0, <1>1, Zenon DEF KeptFrame
  <1> DEFINE x == KeptProps(p)
  <1>3. KeptFrame(f) = [f EXCEPT !.props = x]
    BY <1>1, <1>2, Zenon
  <1> HIDE DEF x
  <1>4. [f EXCEPT !.props = x] = headerFrame(c, k, s, x)
    BY SMT DEF headerFrame
  <1> QED BY <1>3, <1>4, Zenon DEF x

LEMMA KeptBody ==
  ASSUME NEW c, NEW b
  PROVE  KeptFrame(bodyFrame(c, b)) = bodyFrame(c, b)
  <1>0. frameMethod # frameBody /\ frameHeader # frameBody
    BY DEF frameMethod, frameHeader, frameBody
  <1> DEFINE f == bodyFrame(c, b)
  <1>1. f.type = frameBody
    BY BodyIs
  <1> HIDE DEF f
  <1>2. KeptFrame(f) = f
    BY <1>0, <1>1, Zenon DEF KeptFrame
  <1> QED BY <1>2 DEF f

\* Of the frames of a message, the last one ends it and no other one does.
LEMMA MessageEnds ==
  ASSUME NEW c, NEW msg, IsMessage(msg), NEW gs, NEW b \in Nat, NEW d \in Nat,
         d >= 1, d <= Len(sendOpen(c, msg)),
         \A j \in 1 .. d : gs[b + j] = KeptFrame(sendOpen(c, msg)[j])
  PROVE  MessageAt(gs, b + d) = IF d = Len(sendOpen(c, msg)) THEN <<KeptMessage(msg)>> ELSE <<>>
  <1> DEFINE fs == sendOpen(c, msg)
             ka == KeptArgs(msg.name, msg.args)
             kp == KeptProps(msg.props)
             Me == methodFrame(c, msg.name, msg.args)
             KM == methodFrame(c, msg.name, ka)
  <1>0. 1 \in 1 .. d
    OBVIOUS
  <1>1. KM.type = frameMethod /\ KM.name = msg.name /\ KM.args = ka
    BY MethodIs
  <1>2. KeptFrame(Me) = KM
    BY KeptMethod
  <1> HIDE DEF fs, Me, KM
  <1>3. CASE ~Named(msg.name).content
    <2>1. fs = <<Me>>
      BY <1>3, Zenon DEF sendOpen, fs, Me
    <2>2. Len(fs) = 1 /\ fs[1] = Me
      BY <2>1
    <2>3. d = 1
      BY <2>2 DEF fs
    <2>4. gs[b + 1] = KM
      BY <1>0, <1>2, <2>2, Zenon DEF fs
    <2>5. Lone(gs[b + 1])
      BY <1>1, <1>3, <2>4, Zenon DEF Lone
    <2>6. MessageAt(gs, b + 1) = <<[name |-> msg.name, args |-> ka]>>
      BY <1>1, <2>4, <2>5, MessageLone, Zenon
    <2>7. KeptMessage(msg) = [name |-> msg.name, args |-> ka]
      <3>1. KeptMessage(msg) = [msg EXCEPT !.args = ka]
        BY <1>3, Zenon DEF KeptMessage
      <3>2. msg = [name |-> msg.name, args |-> msg.args]
        BY <1>3, Zenon DEF IsMessage
      <3> HIDE DEF ka
      <3>3. [msg EXCEPT !.args = ka] = [name |-> msg.name, args |-> ka]
        BY <3>2, SMT
      <3> QED BY <3>1, <3>3, Zenon
    <2> QED BY <2>2, <2>3, <2>6, <2>7, Zenon DEF fs
  <1>4. CASE Named(msg.name).content
    <2> DEFINE body == msg.body
               N  == PieceCount(body)
               H  == headerFrame(c, Named(msg.name).class, Len(body), msg.props)
               KH == headerFrame(c, Named(msg.name).class, Len(body), kp)
               i  == b + 1
    <2>1. /\ IsBody(body) /\ N \in Nat /\ Len(fs) = 2 + N /\ fs[1] = Me /\ fs[2] = H
          /\ \A k \in 1 .. N : fs[2 + k] = bodyFrame(c, pieces(body)[k])
      BY <1>4, OpenIs, Zenon DEF fs, Me
    <2>2. KH.type = frameHeader /\ KH.size = Len(body) /\ KH.props = kp
      BY HeaderIs
    <2>3. KeptFrame(H) = KH
      BY KeptHeader
    <2> HIDE DEF H, KH, body, N
    <2>4. gs[i] = KM /\ Carries(gs[i])
      <3>1. gs[b + 1] = KM
        BY <1>0, <1>2, <2>1, Zenon DEF fs
      <3> QED BY <1>1, <1>4, <3>1, Zenon DEF Carries
    <2>5. CASE d = 1
      <3>1. ~Lone(gs[i])
        BY <2>4, Zenon DEF Carries, Lone
      <3>2. ASSUME NEW l \in 1 .. i - 1, Whole(gs, l, i) PROVE FALSE
        <4>1. l \in Nat /\ i \in Nat /\ l < i /\ InContent(gs, l, i)
          BY <3>2 DEF Whole
        <4> HIDE DEF i
        <4> QED BY <2>4, <4>1, ContentLast
      <3>3. MessageAt(gs, i) = <<>>
        BY <3>1, <3>2, MessageNone, Zenon
      <3>4. d # Len(fs)
        BY <2>1, <2>5
      <3> QED BY <2>5, <3>3, <3>4, Zenon DEF fs
    <2>6. CASE d # 1
      <3> DEFINE j == d - 2
                 h == i + 1
                 m == b + d
      <3>1. /\ j \in 0 .. N /\ 2 \in 1 .. d /\ h = b + 2 /\ h \in Nat /\ m = h + j /\ i \in 1 .. m - 1 /\ m \in Nat
            /\ i \in Nat /\ i < m /\ (d = Len(fs) <=> j = N) /\ j \in Nat /\ m \in h .. m /\ j <= N
        BY <2>1, <2>6 DEF fs
      <3>2. gs[h] = KH
        <4>1. gs[b + 2] = KeptFrame(fs[2])
          BY <3>1, Zenon DEF fs
        <4> QED BY <2>1, <2>3, <3>1, <4>1, Zenon
      <3>3. ASSUME NEW k \in 1 .. j
            PROVE  gs[h + k].type = frameBody /\ gs[h + k].body = pieces(body)[k]
        <4>1. 2 + k \in 1 .. d /\ b + (2 + k) = h + k /\ k \in 1 .. N
          BY <2>1, <3>1
        <4>2. gs[b + (2 + k)] = KeptFrame(fs[2 + k])
          BY <4>1, Zenon DEF fs
        <4>3. gs[h + k] = bodyFrame(c, pieces(body)[k])
          BY <2>1, <4>1, <4>2, KeptBody, Zenon
        <4> DEFINE p == pieces(body)[k]
                   x == bodyFrame(c, p)
        <4>4. x.type = frameBody /\ x.body = p
          BY BodyIs
        <4> QED BY <4>3, <4>4, Zenon
      <3>4. InContent(gs, i, m)
        <4>1. ASSUME NEW k \in i + 2 .. m PROVE gs[k].type = frameBody
          <5>1. k - h \in 1 .. j /\ h + (k - h) = k
            BY <3>1
          <5> QED BY <3>3, <5>1, Zenon
        <4> QED BY <2>2, <2>4, <3>2, <4>1, Zenon DEF InContent
      <3> HIDE DEF i, j, h, m
      <3>5. \A k \in 0 .. j : Filled(gs, h, h + k) = Tile(body, k)
        BY <2>1, <3>1, <3>3, FilledTiles DEF N
      <3>6. /\ Tile(body, N) = body
            /\ \A k \in 0 .. N : Len(Tile(body, k)) \in Nat /\ (k < N => Len(Tile(body, k)) < Len(body))
        BY <2>1, TileIs, Zenon DEF N
      <3>7. Len(body) \in Nat /\ N \in 0 .. N
        BY <2>1, PiecesIs
      <3>8. Filled(gs, h, m) = Tile(body, j)
        <4>1. j \in 0 .. j
          BY <3>1
        <4> QED BY <3>1, <3>5, <4>1, Zenon
      <3>9. ASSUME NEW k \in h .. m - 1 PROVE Len(Filled(gs, h, k)) < gs[h].size
        <4>1. k - h \in 0 .. j /\ h + (k - h) = k /\ k - h \in 0 .. N /\ k - h < N
          BY <2>1, <3>1
        <4>2. Filled(gs, h, k) = Tile(body, k - h)
          BY <3>5, <4>1, Zenon
        <4> QED BY <2>2, <3>2, <3>6, <4>1, <4>2, Zenon
      <3>10. CASE d = Len(fs)
        <4>1. Filled(gs, h, m) = body
          BY <3>1, <3>6, <3>8, <3>10, Zenon
        <4>2. Len(Filled(gs, h, m)) >= gs[h].size
          <5>1. Len(body) >= Len(body)
            BY <3>7
          <5> QED BY <2>2, <3>2, <4>1, <5>1, Zenon
        <4>3. Whole(gs, i, m)
          BY <3>4, <3>9, <4>2, Zenon DEF Whole, h
        <4>4. MessageAt(gs, m) = <<ContentOf(gs, i, m)>>
          BY <3>1, <4>3, MessageWhole
        <4>5. ContentOf(gs, i, m) = [name |-> msg.name, args |-> ka, props |-> kp, body |-> body]
          BY <1>1, <2>2, <2>4, <3>2, <4>1, Zenon DEF ContentOf, h
        <4>6. KeptMessage(msg) = [name |-> msg.name, args |-> ka, props |-> kp, body |-> body]
          <5>1. KeptMessage(msg) = [msg EXCEPT !.args = ka, !.props = kp]
            BY <1>4, Zenon DEF KeptMessage
          <5>2. msg = [name |-> msg.name, args |-> msg.args, props |-> msg.props, body |-> body]
            BY <1>4, Zenon DEF IsMessage, body
          <5> HIDE DEF ka, kp
          <5>3. [msg EXCEPT !.args = ka, !.props = kp] = [name |-> msg.name, args |-> ka, props |-> kp, body |-> body]
            <6> DEFINE r(x, y) == [name |-> msg.name, args |-> x, props |-> y, body |-> body]
                       q == r(msg.args, msg.props)
            <6>1. [q EXCEPT !.args = ka] = r(ka, msg.props)
              BY SMT
            <6> DEFINE s == r(ka, msg.props)
            <6>2. [s EXCEPT !.props = kp] = r(ka, kp)
              BY SMT
            <6> QED BY <5>2, <6>1, <6>2, Zenon
          <5> QED BY <5>1, <5>3, Zenon
        <4> QED BY <3>10, <4>4, <4>5, <4>6, Zenon DEF fs, m
      <3>11. CASE d # Len(fs)
        <4>1. j \in 0 .. N /\ j < N
          BY <2>1, <3>1, <3>11
        <4>2. Len(Filled(gs, h, m)) \in Nat /\ Len(Filled(gs, h, m)) < gs[h].size /\ gs[h].size \in Nat
          BY <2>2, <3>2, <3>6, <3>7, <3>8, <4>1, Zenon
        <4>3. Unfilled(gs, i, m)
          <5>1. ASSUME NEW k \in h .. m PROVE Len(Filled(gs, h, k)) < gs[h].size
            <6>1. k = m \/ k \in h .. m - 1
              BY <3>1
            <6> QED BY <3>9, <4>2, <6>1, Zenon
          <5> QED BY <3>4, <5>1, Zenon DEF Unfilled, h
        <4>4. MessageAt(gs, m) = <<>>
          BY <3>1, <4>2, <4>3, MessageUnfilled DEF h
        <4> QED BY <3>11, <4>4, Zenon DEF fs, m
      <3> QED BY <3>10, <3>11
    <2> QED BY <2>5, <2>6
  <1> QED BY <1>3, <1>4

-----------------------------------------------------------------------------
(***************************************************************************)
(* What was written on a channel: the messages of the operations that      *)
(* returned nil, and then the frames of the one under way.                 *)
(***************************************************************************)
Kept(fs) == [i \in DOMAIN fs |-> KeptFrame(fs[i])]
Sent(c)  == Of(c, Kept(written))

LEMMA KeptAppend ==
  ASSUME NEW fs, NEW f, fs \in Seq(Range(fs))
  PROVE  /\ Kept(Append(fs, f)) = Append(Kept(fs), KeptFrame(f))
         /\ Kept(fs) \in Seq(Range(Kept(fs))) /\ Len(Kept(fs)) = Len(fs)
         /\ \A i \in 1 .. Len(fs) : Kept(fs)[i] = KeptFrame(fs[i])
  <1> DEFINE n == Len(fs)
             gs == Append(fs, f)
             k  == Kept(fs)
             x  == KeptFrame(f)
             e  == Append(k, x)
  <1>1. n \in Nat /\ DOMAIN fs = 1 .. n /\ DOMAIN gs = 1 .. n + 1 /\ gs[n + 1] = f /\ \A i \in 1 .. n : gs[i] = fs[i]
    OBVIOUS
  <1>2. k \in [1 .. n -> Range(k)] /\ \A i \in 1 .. n : k[i] = KeptFrame(fs[i])
    BY <1>1, Zenon DEF Kept, Range
  <1> HIDE DEF n, gs, k, x
  <1>3. k \in Seq(Range(k)) /\ Len(k) = n
    BY <1>1, <1>2, SeqOfFcn
  <1>4. e \in Seq(Range(e)) /\ Len(e) = n + 1 /\ e[n + 1] = x /\ \A i \in 1 .. n : e[i] = k[i]
    BY <1>3, AppendSeq
  <1> HIDE DEF e
  <1>5. e = [i \in 1 .. n + 1 |-> e[i]]
    BY <1>4
  <1>6. ASSUME NEW i \in 1 .. n + 1 PROVE e[i] = KeptFrame(gs[i])
    <2>1. CASE i = n + 1
      BY <1>1, <1>4, <2>1, Zenon DEF x
    <2>2. CASE i # n + 1
      <3>1. i \in 1 .. n
        BY <1>1, <2>2
      <3> QED BY <1>1, <1>2, <1>4, <3>1, Zenon
    <2> QED BY <2>1, <2>2
  <1>7. e = [i \in 1 .. n + 1 |-> KeptFrame(gs[i])]
    BY <1>5, <1>6, Zenon
  <1>8. Kept(gs) = e
    BY <1>1, <1>7, Zenon DEF Kept
  <1> QED BY <1>2, <1>3, <1>8, Zenon DEF e, gs, k, n, x

\* What operations with results r on items s have sent: Accepted(c).
Done(r, s) ==
  FlattenSeq([i \in 1 .. Len(r) |-> IF r[i] = "nil" THEN <<dispatch(KeptMessage(s[i]))>> ELSE <<>>])

LEMMA DoneAppend ==
  ASSUME NEW r, NEW s, NEW x, r \in Seq(Range(r))
  PROVE  Done(Append(r, x), s) = IF x = "nil" THEN Append(Done(r, s), dispatch(KeptMessage(s[Len(r) + 1])))
                                 ELSE Done(r, s)
  <1> DEFINE q == Append(r, x)
             n == Len(r)
             One(i) == IF q[i] = "nil" THEN <<dispatch(KeptMessage(s[i]))>> ELSE <<>>
             t == [i \in 1 .. n + 1 |-> One(i)]
             S == {One(i) : i \in 1 .. n + 1}
             u == [i \in 1 .. n |-> t[i]]
             y == dispatch(KeptMessage(s[n + 1]))
  <1>1. n \in Nat /\ Len(q) = n + 1 /\ q[n + 1] = x /\ \A i \in 1 .. n : q[i] = r[i]
    BY AppendSeq
  <1> HIDE DEF q, n
  <1>2. t \in [1 .. n + 1 -> S]
    BY Zenon
  <1>3. \A i \in 1 .. n + 1 : AtMostOne(t[i])
    BY DEF AtMostOne
  <1>4. Done(q, s) = FlattenSeq(t)
    BY <1>1, Zenon DEF Done
  <1>5. Done(r, s) = FlattenSeq(u)
    <2>1. ASSUME NEW i \in 1 .. n
          PROVE  t[i] = IF r[i] = "nil" THEN <<dispatch(KeptMessage(s[i]))>> ELSE <<>>
      <3>1. i \in 1 .. n + 1
        BY <1>1
      <3> QED BY <1>1, <3>1, Zenon
    <2> HIDE DEF t
    <2>2. u = [i \in 1 .. n |-> IF r[i] = "nil" THEN <<dispatch(KeptMessage(s[i]))>> ELSE <<>>]
      BY <2>1, Zenon
    <2> QED BY <2>2, Zenon DEF Done, n
  <1>6. t[n + 1] = IF x = "nil" THEN <<y>> ELSE <<>>
    <2>1. n + 1 \in 1 .. n + 1
      BY <1>1
    <2> QED BY <1>1, <2>1, Zenon
  <1> HIDE DEF t, S, y
  <1>7. /\ FlattenSeq(t) = FlattenSeq(u) \o t[n + 1]
        /\ \E X : FlattenSeq(u) \in Seq(X) /\ t[n + 1] \in Seq(X)
    BY <1>1, <1>2, <1>3, FlattenShort
  <1> DEFINE d == FlattenSeq(u)
             z == t[n + 1]
  <1>8. PICK X : d \in Seq(X) /\ z \in Seq(X)
    BY <1>7, Zenon
  <1>9. Done(q, s) = d \o z
    BY <1>4, <1>7, Zenon
  <1>10. z = IF x = "nil" THEN <<y>> ELSE <<>>
    BY <1>6, Zenon
  <1> HIDE DEF u, z
  <1> HIDE DEF d
  <1>11. d \o z = IF x = "nil" THEN Append(d, y) ELSE d
    BY <1>8, <1>10
  <1> QED BY <1>5, <1>9, <1>11, Zenon DEF d, q, n, y

\* The last d frames of gs are what is kept of the first d of fs.
EndsWith(gs, d, fs) == d <= Len(gs) /\ \A j \in 1 .. d : gs[(Len(gs) - d) + j] = KeptFrame(fs[j])

LEMMA SentMore ==
  ASSUME NEW c, NEW msg, IsMessage(msg), NEW gs, FramesOK(gs), NEW d \in Nat, NEW log, LogIs(log, gs),
         d < Len(sendOpen(c, msg)), Len(sendOpen(c, msg)) \in Nat, EndsWith(gs, d, sendOpen(c, msg))
  PROVE  LET fs == sendOpen(c, msg)
             hs == Append(gs, KeptFrame(fs[d + 1]))
         IN  /\ EndsWith(hs, d + 1, fs)
             /\ LogIs(IF d + 1 = Len(fs) THEN Append(log, dispatch(KeptMessage(msg))) ELSE log, hs)
  <1> DEFINE fs == sendOpen(c, msg)
             f  == KeptFrame(fs[d + 1])
             hs == Append(gs, f)
             n  == Len(gs)
             b  == n - d
             m  == KeptMessage(msg)
  <1> HIDE DEF f
  <1>1. /\ n \in Nat /\ Len(hs) = n + 1 /\ hs[n + 1] = f /\ (\A i \in 1 .. n : hs[i] = gs[i])
    BY AppendSeq, Zenon DEF FramesOK
  <1>2. d <= n /\ \A j \in 1 .. d : gs[b + j] = KeptFrame(fs[j])
    BY Zenon DEF EndsWith
  <1> HIDE DEF hs, n, fs
  <1>3. b \in Nat /\ b + (d + 1) = n + 1 /\ (n + 1) - (d + 1) = b /\ d + 1 \in Nat /\ d + 1 >= 1 /\ d + 1 <= n + 1
    BY <1>1, <1>2
  <1>4. ASSUME NEW j \in 1 .. d + 1 PROVE hs[b + j] = KeptFrame(fs[j])
    <2>1. CASE j = d + 1
      BY <1>1, <1>3, <2>1, Zenon DEF f
    <2>2. CASE j # d + 1
      <3>1. j \in 1 .. d /\ b + j \in 1 .. n
        BY <1>1, <1>2, <2>2
      <3> QED BY <1>1, <1>2, <3>1, Zenon
    <2> QED BY <2>1, <2>2
  <1>5. EndsWith(hs, d + 1, fs)
    BY <1>1, <1>3, <1>4, Zenon DEF EndsWith
  <1>6. d + 1 <= Len(fs)
    BY DEF fs
  <1>7. MessageAt(hs, n + 1) = IF d + 1 = Len(fs) THEN <<m>> ELSE <<>>
    <2> DEFINE e == d + 1
    <2>1. e \in Nat /\ e >= 1 /\ e <= Len(sendOpen(c, msg)) /\ b \in Nat /\ b + e = n + 1
      BY <1>3, <1>6 DEF fs
    <2>2. \A j \in 1 .. e : hs[b + j] = KeptFrame(sendOpen(c, msg)[j])
      BY <1>4 DEF fs
    <2> HIDE DEF e, b
    <2>3. MessageAt(hs, b + e) = IF e = Len(sendOpen(c, msg)) THEN <<KeptMessage(msg)>> ELSE <<>>
      BY <2>1, <2>2, MessageEnds
    <2> QED BY <2>1, <2>3, Zenon DEF e, fs
  <1> HIDE DEF m
  <1>8. CASE d + 1 = Len(fs)
    <2>1. Ends(gs, f, m)
      BY <1>7, <1>8, Zenon DEF Ends, hs, n
    <2>2. LogIs(Append(log, dispatch(m)), Append(gs, f))
      BY <2>1, LogOne
    <2> QED BY <1>5, <1>8, <2>2, Zenon DEF hs, f, fs, m
  <1>9. CASE d + 1 # Len(fs)
    <2>1. MessageAt(Append(gs, f), Len(gs) + 1) = <<>>
      BY <1>7, <1>9, Zenon DEF hs, n
    <2>2. LogIs(log, Append(gs, f))
      BY <2>1, LogNone
    <2> QED BY <1>5, <1>9, <2>2, Zenon DEF hs, f, fs
  <1> QED BY <1>8, <1>9

SentAt(c) ==
  /\ FramesOK(Sent(c))
  /\ Orderly(c) => /\ LogIs(Accepted(c), Sent(c))
                   /\ out[c] # <<>> => EndsWith(Sent(c), Gone(c), Current(c))

SentOK == \A c \in Channels : SentAt(c)

LEMMA ChannelIsLine == \A c \in Channels : c \in Lines /\ c # 0
  <1>1. \A c \in Channels : c \in Nat \ {0}
    BY ChannelsAssumption, SMT
  <1> QED BY <1>1 DEF Lines

LEMMA AcceptedIs == \A c : Accepted(c) = Done(result[c], script.items[c])
  BY Zenon DEF Accepted, Done

LEMMA SentInit == Init => SentOK
  <1> SUFFICES ASSUME Init, NEW c \in Channels PROVE SentAt(c)
    BY DEF SentOK
  <1>0. c \in Lines
    BY ChannelIsLine
  <1>1. written = <<>> /\ result[c] = <<>> /\ out[c] = <<>>
    BY <1>0 DEF Init
  <1>2. Sent(c) = <<>>
    <2>1. Kept(written) = <<>>
      BY <1>1 DEF Kept
    <2>2. [i \in DOMAIN Kept(written) |-> IF Kept(written)[i].channel = c THEN <<Kept(written)[i]>> ELSE <<>>] = <<>>
      BY <2>1
    <2> QED BY <2>2, FlattenEmpty, Zenon DEF Of, Sent
  <1>3. Accepted(c) = <<>>
    <2> DEFINE s == script.items[c]
    <2>1. Len(result[c]) = 0
      BY <1>1
    <2>2. [i \in 1 .. 0 |-> IF result[c][i] = "nil" THEN <<dispatch(KeptMessage(s[i]))>> ELSE <<>>] = <<>>
      OBVIOUS
    <2> QED BY <2>1, <2>2, AcceptedIs, FlattenEmpty, Zenon DEF Done
  <1>4. FramesOK(<<>>)
    BY DEF FramesOK, Range
  <1>5. LogIs(<<>>, <<>>)
    <2>1. Fresh.log = <<>>
      BY DEF Fresh
    <2> QED BY <2>1, FreshChan, Zenon DEF ChanAt
  <1> QED BY <1>1, <1>2, <1>3, <1>4, <1>5, Zenon DEF SentAt

\* Where nothing happens.
LEMMA SentKeeps ==
  ASSUME NEW c, SentAt(c), script' = script, result'[c] = result[c], out'[c] = out[c], Sent(c)' = Sent(c)
  PROVE  SentAt(c)'
  <1>1. Orderly(c)' = Orderly(c) /\ Accepted(c)' = Accepted(c) /\ Gone(c)' = Gone(c) /\ Current(c)' = Current(c)
    BY Zenon DEF Orderly, Accepted, Gone, Current
  <1> QED BY <1>1, Zenon DEF SentAt

\* An operation that ends with an error.
LEMMA SentFails ==
  ASSUME NEW c, SentAt(c), NEW e, e # "nil", result[c] \in Seq(Range(result[c])),
         script' = script, result'[c] = Append(result[c], e), out'[c] = <<>>, Sent(c)' = Sent(c)
  PROVE  SentAt(c)'
  <1> DEFINE s == script.items[c]
             r == result[c]
  <1>1. Done(Append(r, e), s) = Done(r, s)
    BY DoneAppend, Zenon
  <1>2. Accepted(c) = Done(r, s)
    BY AcceptedIs, Zenon
  <1>3. Accepted(c)' = Done(Append(r, e), s)
    BY Zenon DEF Accepted, Done
  <1>4. Orderly(c)' = Orderly(c)
    BY Zenon DEF Orderly
  <1> QED BY <1>1, <1>2, <1>3, <1>4, Zenon DEF SentAt

LEMMA SentSend ==
  ASSUME WriterOK, SentOK, NEW x \in Lines, Send(x)
  PROVE  SentOK'
  <1> SUFFICES ASSUME NEW c \in Channels PROVE SentAt(c)'
    BY DEF SentOK
  <1> DEFINE item == Head(items[x])
             Bad == \E table \in Checked(item) : ~Validate(table)
  <1>1. SentAt(c) /\ c \in Lines
    BY ChannelIsLine DEF SentOK
  <1>2. /\ out[x] = <<>> /\ items[x] # <<>> /\ script' = script /\ written' = written
        /\ IF Bad THEN result' = [result EXCEPT ![x] = Append(result[x], "invalid")] /\ out' = out
           ELSE out' = [out EXCEPT ![x] = FramesOf(x, item)] /\ result' = result
    BY Zenon DEF Send
  <1>3. Sent(c)' = Sent(c)
    BY <1>2, Zenon DEF Sent
  <1>4. DOMAIN out = Lines /\ DOMAIN result = Lines /\ script \in Scripts
    BY Zenon DEF WriterOK
  <1> HIDE DEF Bad
  <1>5. CASE c # x
    <2>1. result'[c] = result[c] /\ out'[c] = out[c]
      BY <1>1, <1>2, <1>4, <1>5, Zenon
    <2> QED BY <1>1, <1>2, <1>3, <2>1, SentKeeps, Zenon
  <1>6. CASE c = x
    <2> DEFINE n == Len(result[c])
               s == script.items[c]
               Fs == FramesOf(c, item)
    <2>1. /\ DOMAIN s = 1 .. Len(s) /\ result[c] \in Seq(Range(result[c])) /\ n + 1 \in 1 .. Len(s) /\ item = s[n + 1]
      BY <1>1, <1>2, <1>6, WriterItem, Zenon
    <2>2. CASE Bad
      <3>1. result'[c] = Append(result[c], "invalid") /\ out'[c] = <<>>
        BY <1>1, <1>2, <1>4, <1>6, <2>2, Zenon
      <3>2. "invalid" # "nil"
        OBVIOUS
      <3> QED BY <1>1, <1>2, <1>3, <2>1, <3>1, <3>2, SentFails
    <2>3. CASE ~Bad
      <3>1. result'[c] = result[c] /\ out'[c] = Fs
        BY <1>1, <1>2, <1>4, <1>6, <2>3, Zenon
      <3>2. Current(c)' = Fs
        BY <1>2, <2>1, <3>1, Zenon DEF Current
      <3>3. Fs \in Seq(Frames(c))
        BY <1>1, <1>4, <2>1, ItemFrames, Zenon
      <3>4. Gone(c)' = Len(Fs) - Len(Fs)
        BY <3>1, <3>2, Zenon DEF Gone
      <3> HIDE DEF Fs
      <3>5. Gone(c)' = 0
        <4>1. Len(Fs) \in Nat
          BY <3>3, LenProperties, Zenon
        <4> QED BY <3>4, <4>1, SMT
      <3>6. FramesOK(Sent(c))
        BY <1>1, Zenon DEF SentAt
      <3>7. EndsWith(Sent(c), 0, Fs)
        <4> DEFINE gs == Sent(c)
        <4>1. Len(gs) \in Nat
          BY <3>6, LenProperties, Zenon DEF FramesOK
        <4> HIDE DEF gs
        <4>2. 0 <= Len(gs) /\ \A j \in 1 .. 0 : FALSE
          BY <4>1, SMT
        <4> QED BY <4>2, Zenon DEF EndsWith, gs
      <3>8. Orderly(c)' = Orderly(c) /\ Accepted(c)' = Accepted(c)
        BY <1>2, <3>1, Zenon DEF Orderly, Accepted
      <3> QED BY <1>1, <1>3, <3>2, <3>5, <3>6, <3>7, <3>8, Zenon DEF SentAt
    <2> QED BY <2>2, <2>3, Zenon
  <1> QED BY <1>5, <1>6, Zenon

\* A frame of channel x more.
LEMMA SentAppend ==
  ASSUME StreamOK, NEW f, NEW x, KeptFrame(f).channel = x, written' = Append(written, f), NEW c
  PROVE  Sent(c)' = IF x = c THEN Append(Sent(c), KeptFrame(f)) ELSE Sent(c)
  <1> DEFINE k == Kept(written)
             g == KeptFrame(f)
  <1>1. written \in Seq(Range(written))
    BY SeqRange, Zenon DEF StreamOK
  <1>2. Kept(written') = Append(k, g) /\ k \in Seq(Range(k))
    BY <1>1, KeptAppend, Zenon
  <1>3. Sent(c)' = Of(c, Kept(written'))
    BY Zenon DEF Sent
  <1> HIDE DEF k
  <1>4. Of(c, Append(k, g)) = IF g.channel = c THEN Append(Of(c, k), g) ELSE Of(c, k)
    BY <1>2, OfAppend, Zenon
  <1> QED BY <1>2, <1>3, <1>4, Zenon DEF Sent, k

LEMMA SentBeat ==
  ASSUME StreamOK, SentOK, Heartbeat
  PROVE  SentOK'
  <1> SUFFICES ASSUME NEW c \in Channels PROVE SentAt(c)'
    BY DEF SentOK
  <1> DEFINE f == heartbeatFrame(0)
  <1>1. written' = Append(written, f) /\ script' = script /\ out' = out /\ result' = result
    BY Zenon DEF Heartbeat
  <1>2. KeptFrame(f).channel = 0
    <2>1. f.type # frameMethod /\ f.type # frameHeader /\ f.channel = 0
      BY DEF heartbeatFrame, frameMethod, frameHeader, frameHeartbeat
    <2> HIDE DEF f
    <2> QED BY <2>1, Zenon DEF KeptFrame
  <1>3. SentAt(c) /\ c # 0
    BY ChannelIsLine DEF SentOK
  <1> HIDE DEF f
  <1>4. Sent(c)' = Sent(c)
    BY <1>1, <1>2, <1>3, SentAppend, Zenon
  <1> QED BY <1>1, <1>3, <1>4, SentKeeps, Zenon

LEMMA SentWrites ==
  ASSUME RoundTrip(Seq(Octet)), WriterOK, StreamOK, SentOK, NEW x \in Lines, WriteFrame(x)
  PROVE  SentOK'
  <1> SUFFICES ASSUME NEW c \in Channels PROVE SentAt(c)'
    BY DEF SentOK
  <1> DEFINE f == Head(out[x])
             e == writeFrame(f).err
             g == KeptFrame(f)
  <1>1. SentAt(c) /\ c \in Lines
    BY ChannelIsLine DEF SentOK
  <1>2. /\ out[x] # <<>> /\ script' = script
        /\ IF e = "nil"
           THEN /\ out' = [out EXCEPT ![x] = Tail(out[x])] /\ written' = Append(written, f)
                /\ result' = IF Len(out[x]) = 1 THEN [result EXCEPT ![x] = Append(result[x], "nil")] ELSE result
           ELSE /\ out' = [out EXCEPT ![x] = <<>>] /\ result' = [result EXCEPT ![x] = Append(result[x], e)]
                /\ written' = written
    BY Zenon DEF WriteFrame
  <1>3. DOMAIN out = Lines /\ DOMAIN result = Lines /\ script \in Scripts /\ result[x] \in Seq(Range(result[x]))
    BY Zenon DEF WriterOK, WriterAt
  <1>4. f \in Frames(x)
    BY <1>2, WriterHead, Zenon
  <1>5. IsFrame(x, f)
    BY <1>4, FramesAre
  <1>6. g.channel = x /\ FrameOK(g)
    BY <1>5, KeptIs
  <1>7. e = "nil" => Sent(c)' = IF x = c THEN Append(Sent(c), g) ELSE Sent(c)
    BY <1>2, <1>6, SentAppend, Zenon
  <1> HIDE DEF e
  <1>8. CASE c # x
    <2>1. result'[c] = result[c] /\ out'[c] = out[c]
      BY <1>1, <1>2, <1>3, <1>8, Zenon
    <2>2. Sent(c)' = Sent(c)
      BY <1>2, <1>7, <1>8, Zenon DEF Sent
    <2> QED BY <1>1, <1>2, <2>1, <2>2, SentKeeps, Zenon
  <1>9. CASE c = x /\ e # "nil"
    <2>1. result'[c] = Append(result[c], e) /\ out'[c] = <<>>
      BY <1>1, <1>2, <1>3, <1>9, Zenon
    <2>2. Sent(c)' = Sent(c)
      BY <1>2, <1>9, Zenon DEF Sent
    <2> QED BY <1>1, <1>2, <1>3, <1>9, <2>1, <2>2, SentFails
  <1>10. CASE c = x /\ e = "nil"
    <2> DEFINE n  == Len(result[c])
               s  == script.items[c]
               Fs == Current(c)
               d  == Gone(c)
               gs == Sent(c)
               o  == Len(out[c])
    <2>1. /\ n \in Nat /\ n + 1 \in DOMAIN s /\ Fs \in Seq(Frames(c)) /\ d \in Nat /\ d < Len(Fs)
          /\ f = Fs[d + 1] /\ (o = 1 <=> d + 1 = Len(Fs))
          /\ (Tail(out[c]) = <<>> <=> o = 1) /\ Len(Tail(out[c])) = o - 1 /\ o \in Nat
      BY <1>1, <1>2, <1>10, WriterHead, Zenon
    <2>2. out'[c] = Tail(out[c]) /\ Sent(c)' = Append(gs, g) /\ Orderly(c)' = Orderly(c)
      BY <1>1, <1>2, <1>3, <1>7, <1>10, Zenon DEF Orderly
    <2>3. FramesOK(gs) /\ FramesOK(Append(gs, g))
      <3>1. FramesOK(gs)
        BY <1>1, Zenon DEF SentAt
      <3> HIDE DEF gs, g
      <3> QED BY <1>6, <3>1, FramesAppend
    <2>4. ASSUME Orderly(c)
          PROVE  LogIs(Accepted(c)', Append(gs, g)) /\ (out'[c] # <<>> => EndsWith(Append(gs, g), Gone(c)', Current(c)'))
      <3> DEFINE msg == s[n + 1]
                 log == Accepted(c)
                 l   == Len(Fs)
      <3>1. "type" \notin DOMAIN msg /\ IsMessage(msg)
        BY <1>1, <1>3, <2>1, <2>4, ScriptIs, Zenon DEF Orderly
      <3>2. Fs = sendOpen(c, msg)
        BY <3>1, Zenon DEF Current, FramesOf
      <3>3. LogIs(log, gs) /\ EndsWith(gs, d, Fs)
        BY <1>1, <1>2, <1>10, <2>4, Zenon DEF SentAt
      <3>4. l \in Nat
        BY <2>1, LenProperties, Zenon
      <3>5. g = KeptFrame(Fs[d + 1])
        BY <2>1, Zenon
      <3>6. /\ EndsWith(Append(gs, g), d + 1, Fs)
            /\ LogIs(IF d + 1 = l THEN Append(log, dispatch(KeptMessage(msg))) ELSE log, Append(gs, g))
        <4> HIDE DEF msg, log, gs, d, g
        <4>1. IsMessage(msg) /\ FramesOK(gs) /\ d \in Nat /\ LogIs(log, gs) /\ d < Len(sendOpen(c, msg))
              /\ Len(sendOpen(c, msg)) \in Nat /\ EndsWith(gs, d, sendOpen(c, msg))
          BY <2>1, <2>3, <3>1, <3>2, <3>3, <3>4, Zenon
        <4>2. LET fs == sendOpen(c, msg)
                  hs == Append(gs, KeptFrame(fs[d + 1]))
              IN  /\ EndsWith(hs, d + 1, fs)
                  /\ LogIs(IF d + 1 = Len(fs) THEN Append(log, dispatch(KeptMessage(msg))) ELSE log, hs)
          BY ONLY <4>1, SentMore
        <4> QED BY <3>2, <3>5, <4>2, Zenon
      <3>7. log = Done(result[c], s) /\ Accepted(c)' = Done(result'[c], s)
        BY <1>2, Zenon DEF Accepted, Done
      <3>8. CASE o = 1
        <4>1. result'[c] = Append(result[c], "nil") /\ out'[c] = <<>>
          BY <1>1, <1>2, <1>3, <1>10, <2>1, <2>2, <3>8, Zenon
        <4>2. Accepted(c)' = Append(log, dispatch(KeptMessage(msg)))
          <5> DEFINE r == result[c]
          <5>1. r \in Seq(Range(r))
            BY <1>3, <1>10, Zenon
          <5>2. Done(Append(r, "nil"), s) = Append(Done(r, s), dispatch(KeptMessage(s[Len(r) + 1])))
            <6> HIDE DEF r, s
            <6> QED BY <5>1, DoneAppend
          <5> QED BY <3>7, <4>1, <5>2, Zenon
        <4> QED BY <2>1, <3>6, <3>8, <4>1, <4>2, Zenon
      <3>9. CASE o # 1
        <4>1. result' = result
          BY <1>2, <1>10, <3>9, Zenon
        <4>2. Accepted(c)' = log
          BY <3>7, <4>1, Zenon
        <4>3. Current(c)' = Fs
          BY <1>2, <4>1, Zenon DEF Current
        <4>4. Gone(c)' = l - Len(out'[c]) /\ d = l - o /\ Len(out'[c]) = o - 1
          BY <2>1, <2>2, <4>3, Zenon DEF Gone
        <4>5. Gone(c)' = d + 1
          <5> DEFINE p == Len(out'[c])
          <5>1. o \in Nat /\ l \in Nat /\ p = o - 1 /\ d = l - o /\ Gone(c)' = l - p
            BY <2>1, <3>4, <4>4, Zenon
          <5> HIDE DEF p, o, l, d
          <5> QED BY <5>1, SMT
        <4> QED BY <2>1, <3>6, <3>9, <4>2, <4>3, <4>5, Zenon
      <3> QED BY <3>8, <3>9
    <2> QED BY <2>2, <2>3, <2>4, Zenon DEF SentAt
  <1> QED BY <1>8, <1>9, <1>10, Zenon

LEMMA SentNext ==
  ASSUME RoundTrip(Seq(Octet)), WriterOK, StreamOK, SentOK, [Next]_vars
  PROVE  SentOK'
  <1>1. ASSUME script' = script, out' = out, result' = result, written' = written PROVE SentOK'
    <2>1. ASSUME NEW c \in Channels PROVE SentAt(c)'
      <3>1. SentAt(c) /\ Sent(c)' = Sent(c)
        BY <1>1, Zenon DEF SentOK, Sent
      <3> QED BY <1>1, <3>1, SentKeeps, Zenon
    <2> QED BY <2>1, Zenon DEF SentOK
  <1>2. CASE Heartbeat
    BY <1>2, SentBeat
  <1>3. CASE Cut
    BY <1>1, <1>3 DEF Cut, wVars
  <1>4. CASE reader
    BY <1>1, <1>4 DEF reader, wVars
  <1>5. CASE UNCHANGED vars
    BY <1>1, <1>5 DEF vars, wVars
  <1>6. ASSUME NEW c \in Lines, Send(c) \/ WriteFrame(c) PROVE SentOK'
    BY <1>6, SentSend, SentWrites, Zenon
  <1> QED BY <1>2, <1>3, <1>4, <1>5, <1>6, Zenon DEF Next

-----------------------------------------------------------------------------
(***************************************************************************)
(* Of what was written the reader has the first frames, so that a channel  *)
(* has dispatched the first messages.                                      *)
(***************************************************************************)
IsSeq(s)     == s \in Seq(Range(s))
Before(s, t) == Len(s) <= Len(t) /\ \A i \in 1 .. Len(s) : s[i] = t[i]

LEMMA BeforeSelf ==
  ASSUME NEW s, IsSeq(s)
  PROVE  Before(s, s)
  BY DEF IsSeq, Before

LEMMA BeforeTwice ==
  ASSUME NEW r, NEW s, NEW t, IsSeq(r), IsSeq(s), IsSeq(t), Before(r, s), Before(s, t)
  PROVE  Before(r, t)
  <1>1. Len(r) \in Nat /\ Len(s) \in Nat /\ Len(t) \in Nat /\ Len(r) <= Len(s) /\ Len(s) <= Len(t)
    BY LenProperties DEF IsSeq, Before
  <1>2. ASSUME NEW i \in 1 .. Len(r) PROVE r[i] = t[i]
    <2>1. i \in 1 .. Len(s)
      BY <1>1
    <2> QED BY <2>1, Zenon DEF Before
  <1> QED BY <1>1, <1>2 DEF Before

LEMMA BeforeIsPrefix ==
  ASSUME NEW s, NEW t, IsSeq(s), IsSeq(t), Before(s, t)
  PROVE  IsPrefix(s, t)
  <1> DEFINE n == Len(s)
             a == SubSeq(s, 1, n)
             b == SubSeq(t, 1, n)
  <1>1. n \in Nat /\ n <= Len(t) /\ Len(t) \in Nat /\ \A i \in 1 .. n : s[i] = t[i]
    BY LenProperties DEF IsSeq, Before
  <1>2. a = [i \in 1 .. n |-> s[i]] /\ b = [i \in 1 .. n |-> t[i]]
    BY <1>1 DEF IsSeq
  <1>3. a = b
    BY <1>1, <1>2, Zenon
  <1> QED BY <1>1, <1>3, Zenon DEF IsPrefix

\* What channel c dispatches of frames fs.
Arrived(c, fs) == Dispatched(Messages(Of(c, fs)))

LEMMA ArrivedGrows ==
  ASSUME NEW c, NEW fs, NEW f, IsSeq(fs)
  PROVE  LET a == Arrived(c, fs)
             b == Arrived(c, Append(fs, f))
         IN  IsSeq(a) /\ IsSeq(b) /\ Before(a, b)
  <1> DEFINE a  == Arrived(c, fs)
             b  == Arrived(c, Append(fs, f))
             gs == Of(c, fs)
             hs == Append(gs, f)
             ms == Messages(gs)
             x  == MessageAt(hs, Len(gs) + 1)
             b1 == Dispatched(Messages(hs))
  <1>1. Of(c, Append(fs, f)) = (IF f.channel = c THEN hs ELSE gs) /\ gs \in Seq(Range(gs))
    BY OfAppend, Zenon DEF IsSeq
  <1>2. Messages(hs) = ms \o x /\ AtMostOne(x) /\ \E X : ms \in Seq(X) /\ x \in Seq(X)
    BY <1>1, MessagesAppend, Zenon
  <1>3. PICK X : ms \in Seq(X) /\ x \in Seq(X)
    BY <1>2, Zenon
  <1>4. a = Dispatched(ms) /\ b = IF f.channel = c THEN b1 ELSE a
    BY <1>1, Zenon DEF Arrived
  <1>5. b1 = Dispatched(ms \o x)
    BY <1>2, Zenon
  <1> HIDE DEF a, b, b1, gs, hs, ms, x
  <1>6. IsSeq(a)
    BY <1>3, <1>4, DispatchedType DEF IsSeq
  <1>7. CASE f.channel # c
    <2>1. b = a
      BY <1>4, <1>7, Zenon
    <2> QED BY <1>6, <2>1, BeforeSelf, Zenon DEF a, b
  <1>8. CASE f.channel = c /\ x = <<>>
    <2>1. b = a
      BY <1>3, <1>4, <1>5, <1>8, DispatchedNone, Zenon
    <2> QED BY <1>6, <2>1, BeforeSelf, Zenon DEF a, b
  <1>9. CASE f.channel = c /\ x = <<x[1]>>
    <2> DEFINE y == x[1]
               z == dispatch(y)
    <2>1. Dispatched(ms \o <<y>>) = Append(Dispatched(ms), dispatch(y))
      <3>1. <<y>> \in Seq(X)
        BY <1>3, <1>9, Zenon
      <3> HIDE DEF y
      <3> QED BY <1>3, <3>1, DispatchedOne
    <2>2. b = Append(a, z)
      BY <1>4, <1>5, <1>9, <2>1, Zenon
    <2> HIDE DEF z
    <2>3. /\ Append(a, z) \in Seq(Range(Append(a, z))) /\ Len(Append(a, z)) = Len(a) + 1 /\ Len(a) \in Nat
          /\ \A i \in 1 .. Len(a) : Append(a, z)[i] = a[i]
      BY <1>6, AppendSeq, Zenon DEF IsSeq
    <2>4. Len(a) <= Len(a) + 1
      BY <2>3
    <2>5. IsSeq(b) /\ Before(a, b)
      BY <2>2, <2>3, <2>4, Zenon DEF IsSeq, Before
    <2> QED BY <1>6, <2>5, Zenon DEF a, b
  <1> QED BY <1>2, <1>7, <1>8, <1>9, Zenon DEF AtMostOne

LEMMA FirstMore ==
  ASSUME NEW X, NEW fs \in Seq(X), NEW k \in 0 .. Len(fs)
  PROVE  /\ IsSeq(SubSeq(fs, 1, k))
         /\ k < Len(fs) => SubSeq(fs, 1, k + 1) = Append(SubSeq(fs, 1, k), fs[k + 1])
         /\ SubSeq(fs, 1, Len(fs)) = fs
  <1>1. SubSeq(fs, 1, k) \in Seq(X) /\ SubSeq(fs, 1, Len(fs)) = fs
    OBVIOUS
  <1>2. IsSeq(SubSeq(fs, 1, k))
    BY <1>1, SeqRange, Zenon DEF IsSeq
  <1>3. ASSUME k < Len(fs) PROVE SubSeq(fs, 1, k + 1) = Append(SubSeq(fs, 1, k), fs[k + 1])
    BY <1>3
  <1> QED BY <1>1, <1>2, <1>3

LEMMA ArrivedPrefix ==
  ASSUME NEW c, NEW fs, IsSeq(fs), NEW k \in 0 .. Len(fs)
  PROVE  IsPrefix(Arrived(c, SubSeq(fs, 1, k)), Arrived(c, fs))
  <1> DEFINE N == Len(fs)
             First(j) == SubSeq(fs, 1, j)
             A(j) == Arrived(c, First(j))
             T == {j \in 0 .. N - k : Before(A(k), A(k + j))}
  <1>1. N \in Nat /\ First(N) = fs
    <2>1. fs \in Seq(Range(fs))
      BY DEF IsSeq
    <2> QED BY <2>1
  <1>2. ASSUME NEW j \in 0 .. N PROVE IsSeq(First(j)) /\ (j < N => First(j + 1) = Append(First(j), fs[j + 1]))
    BY FirstMore, Zenon DEF IsSeq
  <1>3. ASSUME NEW j \in 0 .. N PROVE IsSeq(A(j)) /\ (j < N => Before(A(j), A(j + 1)))
    <2> DEFINE g == First(j)
               x == fs[j + 1]
    <2>1. IsSeq(g) /\ (j < N => First(j + 1) = Append(g, x))
      BY <1>2, Zenon
    <2> HIDE DEF g, x, First, N
    <2>2. IsSeq(Arrived(c, g)) /\ Before(Arrived(c, g), Arrived(c, Append(g, x)))
      BY <2>1, ArrivedGrows, Zenon
    <2> QED BY <2>1, <2>2, Zenon DEF g
  <1> HIDE DEF A, First, N
  <1>4. k \in 0 .. N /\ N - k \in Nat
    BY <1>1 DEF N
  <1>5. 0 \in T
    <2>1. k + 0 = k /\ 0 \in 0 .. N - k
      BY <1>4
    <2>2. Before(A(k), A(k))
      BY <1>3, <1>4, BeforeSelf, Zenon
    <2> QED BY <2>1, <2>2, Zenon
  <1>6. ASSUME NEW j \in 0 .. (N - k) - 1, j \in T PROVE j + 1 \in T
    <2> DEFINE m == k + j
    <2>1. m \in 0 .. N /\ m < N /\ m + 1 \in 0 .. N /\ m + 1 = k + (j + 1) /\ j + 1 \in 0 .. N - k
      BY <1>1, <1>4
    <2> HIDE DEF m
    <2>2. Before(A(k), A(m))
      BY <1>6, Zenon DEF m
    <2>3. IsSeq(A(k)) /\ IsSeq(A(m)) /\ IsSeq(A(m + 1)) /\ Before(A(m), A(m + 1))
      BY <1>3, <1>4, <2>1, Zenon
    <2>4. Before(A(k), A(m + 1))
      BY <2>2, <2>3, BeforeTwice, Zenon
    <2> QED BY <2>1, <2>4, Zenon
  <1> HIDE DEF T
  <1>7. \A j \in 0 .. N - k : j \in T
    <2> DEFINE Up == N - k
    <2>1. Up \in Nat /\ \A j \in 0 .. Up - 1 : j \in T => j + 1 \in T
      BY <1>4, <1>6, Zenon
    <2> HIDE DEF Up
    <2>2. \A j \in 0 .. Up : j \in T
      BY <1>5, <2>1, Upwards
    <2> QED BY <2>2 DEF Up
  <1>8. N - k \in 0 .. N - k /\ k + (N - k) = N /\ N \in 0 .. N
    BY <1>1, <1>4
  <1>9. Before(A(k), A(N))
    BY <1>7, <1>8, Zenon DEF T
  <1>10. IsSeq(A(k)) /\ IsSeq(A(N))
    BY <1>3, <1>4, <1>8, Zenon
  <1>11. IsPrefix(A(k), A(N))
    BY <1>9, <1>10, BeforeIsPrefix, Zenon
  <1> QED BY <1>1, <1>11, Zenon DEF A, First

LEMMA ReadIsFirst ==
  ASSUME StreamOK
  PROVE  /\ IsSeq(Kept(written)) /\ Len(Kept(written)) = Len(written) /\ Len(read) \in 0 .. Len(Kept(written))
         /\ read = SubSeq(Kept(written), 1, Len(read))
         /\ Len(read) = Len(written) => read = Kept(written)
  <1> DEFINE w == Kept(written)
             k == Len(read)
             n == Len(written)
  <1>1. /\ written \in Seq(AllFrames) /\ read \in Seq(Range(read)) /\ k <= n
        /\ \A i \in 1 .. k : read[i] = KeptFrame(written[i])
    BY Zenon DEF StreamOK
  <1>2. written \in Seq(Range(written)) /\ k \in Nat /\ n \in Nat
    BY <1>1, SeqRange, LenProperties
  <1>3. w \in Seq(Range(w)) /\ Len(w) = n /\ \A i \in 1 .. n : w[i] = KeptFrame(written[i])
    BY <1>2, KeptAppend, Zenon
  <1>4. ASSUME NEW i \in 1 .. k PROVE read[i] = w[i]
    <2>1. i \in 1 .. n
      BY <1>1, <1>2
    <2> QED BY <1>1, <1>3, <2>1, Zenon
  <1> HIDE DEF w
  <1>5. read = [i \in 1 .. k |-> read[i]]
    BY <1>1
  <1>6. SubSeq(w, 1, k) = [i \in 1 .. k |-> w[i]]
    BY <1>1, <1>2, <1>3
  <1>7. read = SubSeq(w, 1, k)
    BY <1>4, <1>5, <1>6, Zenon
  <1>8. k = n => read = w
    <2>1. SubSeq(w, 1, n) = w
      BY <1>3
    <2> QED BY <1>7, <2>1, Zenon
  <1>9. k \in 0 .. Len(w)
    BY <1>1, <1>2, <1>3
  <1> QED BY <1>3, <1>7, <1>8, <1>9, Zenon DEF IsSeq, w

LEMMA ChansGive == StreamOK /\ ChansOK /\ SentOK => MessagesArrive
  <1> SUFFICES ASSUME StreamOK, ChansOK, SentOK, NEW c \in Channels
      PROVE  LET expected == Messages(Of(c, read))
             IN  /\ chan[c].log = [i \in DOMAIN expected |-> dispatch(expected[i])]
                 /\ Orderly(c) => /\ IsPrefix(chan[c].log, Accepted(c))
                                  /\ ~down /\ wire = <<>> => chan[c].log = Accepted(c)
    BY Zenon DEF MessagesArrive
  <1> DEFINE w == Kept(written)
             k == Len(read)
  <1>1. chan[c].log = Arrived(c, read)
    BY Zenon DEF ChansOK, ChanAt, LogIs, Arrived
  <1>2. Arrived(c, read) = [i \in DOMAIN Messages(Of(c, read)) |-> dispatch(Messages(Of(c, read))[i])]
    BY Zenon DEF Arrived, Dispatched
  <1>3. IsSeq(w) /\ k \in 0 .. Len(w) /\ read = SubSeq(w, 1, k) /\ (k = Len(written) => read = w)
    BY ReadIsFirst, Zenon
  <1>4. ASSUME Orderly(c)
        PROVE  IsPrefix(chan[c].log, Accepted(c)) /\ (~down /\ wire = <<>> => chan[c].log = Accepted(c))
    <2>1. Accepted(c) = Arrived(c, w)
      BY <1>4, Zenon DEF SentOK, SentAt, LogIs, Sent, Arrived
    <2>2. ~down /\ wire = <<>> => k = Len(written)
      BY StreamGives, Zenon DEF FramesReadBack
    <2> HIDE DEF w
    <2>3. IsPrefix(Arrived(c, SubSeq(w, 1, k)), Arrived(c, w))
      <3> HIDE DEF k
      <3> QED BY <1>3, ArrivedPrefix
    <2> QED BY <1>1, <1>3, <2>1, <2>2, <2>3, Zenon
  <1> QED BY <1>1, <1>2, <1>4, Zenon

\* Whatever is sent and in whatever order the frames of the channels come: a channel dispatches
\* the messages that its frames hold, one by one, and where a channel sends nothing but messages
\* these are the ones that were accepted, whole and in order, each with its own properties and
\* body, and all of them once the stream is read (sendOpen, recvMethod, recvHeader, recvContent,
\* newDelivery, newReturn); supposed is that the codec of the frames that are sent reads back
\* what it writes.
THEOREM MessagesAreDispatched ==
  ASSUME RoundTrip(Seq(Octet))
  PROVE  Spec => []MessagesArrive
  <1> DEFINE Inv == WriterOK /\ StreamOK /\ ChansOK /\ SentOK
  <1>1. Init => Inv
    BY WriterInit, StreamInit, ChansInit, SentInit
  <1>2. Inv /\ [Next]_vars => Inv'
    BY WriterNext, StreamNext, ChansNext, SentNext
  <1>3. Inv => MessagesArrive
    BY ChansGive
  <1> QED BY <1>1, <1>2, <1>3, PTL DEF Spec

-----------------------------------------------------------------------------
(***************************************************************************)
(* Tables.  What writeField and validateField do to a value rests on what  *)
(* they do to its parts, which are less deep.                              *)
(***************************************************************************)
IsNested(g, n) == g = [k \in 0 .. n |-> IF k = 0 THEN Scalars ELSE Nest(g[k - 1])]

LEMMA NestedIs ==
  /\ Depth \in Nat /\ Nested[0] = Scalars
  /\ \A n \in 0 .. Depth - 1 : Nested[n + 1] = Nest(Nested[n])
  <1> DEFINE T == {n \in Nat : \E g : IsNested(g, n)}
  <1>0. Depth \in Nat
    BY DepthAssumption
  <1>1. 0 \in T
    <2> DEFINE g == [k \in 0 .. 0 |-> Scalars]
    <2>1. \A k \in 0 .. 0 : k = 0
      OBVIOUS
    <2>2. g = [k \in 0 .. 0 |-> IF k = 0 THEN Scalars ELSE Nest(g[k - 1])]
      BY <2>1, Zenon
    <2> QED BY <2>2 DEF IsNested
  <1>2. ASSUME NEW n \in 0 .. Depth - 1, n \in T PROVE n + 1 \in T
    <2>1. PICK g : IsNested(g, n)
      BY <1>2
    <2> DEFINE h == [k \in 0 .. n + 1 |-> IF k = 0 THEN Scalars ELSE Nest(g[k - 1])]
    <2>2. ASSUME NEW k \in 0 .. n PROVE h[k] = g[k]
      <3>1. k \in 0 .. n + 1
        OBVIOUS
      <3>2. h[k] = IF k = 0 THEN Scalars ELSE Nest(g[k - 1])
        BY <3>1, Zenon
      <3>3. g[k] = IF k = 0 THEN Scalars ELSE Nest(g[k - 1])
        BY <2>1, Zenon DEF IsNested
      <3> QED BY <3>2, <3>3
    <2>3. IsNested(h, n + 1)
      <3> HIDE DEF h
      <3>1. ASSUME NEW k \in 0 .. n + 1, k # 0 PROVE h[k - 1] = g[k - 1]
        BY <3>1, <2>2
      <3>2. h = [k \in 0 .. n + 1 |-> IF k = 0 THEN Scalars ELSE Nest(h[k - 1])]
        BY <3>1, Zenon DEF h
      <3> QED BY <3>2 DEF IsNested
    <2> QED BY <2>3
  <1>3. Depth \in T
    <2> HIDE DEF T
    <2> QED BY <1>0, <1>1, <1>2, Upwards
  <1>4. IsNested(Nested, Depth)
    <2>1. \E g : IsNested(g, Depth)
      BY <1>3
    <2> QED BY <2>1, Zenon DEF IsNested, Nested
  <1>5. \A k \in 0 .. Depth : Nested[k] = IF k = 0 THEN Scalars ELSE Nest(Nested[k - 1])
    BY <1>4, Zenon DEF IsNested
  <1>6. 0 \in 0 .. Depth
    BY <1>0
  <1>7. ASSUME NEW n \in 0 .. Depth - 1 PROVE Nested[n + 1] = Nest(Nested[n])
    <2>1. n + 1 \in 0 .. Depth /\ n + 1 # 0 /\ (n + 1) - 1 = n
      BY <1>0
    <2> QED BY <1>5, <2>1, Zenon
  <1> QED BY <1>0, <1>5, <1>6, <1>7, Zenon

LEMMA NestGrows ==
  ASSUME NEW U, NEW V, U \subseteq V
  PROVE  Nest(U) \subseteq Nest(V)
  <1>1. Entries(U) \subseteq Entries(V)
    BY DEF Entries
  <1>2. Seq(U) \subseteq Seq(V) /\ Seq(Entries(U)) \subseteq Seq(Entries(V))
    BY <1>1, SeqMonotonic
  <1> DEFINE E(X) == Seq(Entries(X))
  <1>3. E(U) \subseteq E(V)
    BY <1>2
  <1> HIDE DEF E
  <1>4. [t : {"Table"}, v : E(U)] \subseteq [t : {"Table"}, v : E(V)]
    BY <1>3
  <1>5. [t : {"array"}, v : Seq(U)] \subseteq [t : {"array"}, v : Seq(V)]
    BY <1>2
  <1> QED BY <1>4, <1>5, Zenon DEF Nest, E

LEMMA NestedGrows == \A n \in 0 .. Depth - 1 : Nested[n] \subseteq Nested[n + 1]
  <1> DEFINE T == {n \in Nat : n <= Depth - 1 => Nested[n] \subseteq Nested[n + 1]}
  <1>0. Depth \in Nat
    BY NestedIs
  <1>1. 0 \in T
    <2>1. ASSUME 0 <= Depth - 1 PROVE Nested[0] \subseteq Nested[0 + 1]
      <3>1. 0 \in 0 .. Depth - 1
        BY <1>0, <2>1
      <3>2. Nested[0 + 1] = Nest(Scalars) /\ Nested[0] = Scalars
        BY <3>1, NestedIs, Zenon
      <3>3. Scalars \subseteq Nest(Scalars)
        BY Zenon DEF Nest
      <3> QED BY <3>2, <3>3, Zenon
    <2> QED BY <2>1
  <1>2. ASSUME NEW n \in 0 .. (Depth - 1) - 1, n \in T PROVE n + 1 \in T
    <2>1. n \in 0 .. Depth - 1 /\ n + 1 \in 0 .. Depth - 1 /\ n <= Depth - 1 /\ n + 1 \in Nat
      BY <1>0
    <2>2. Nested[n] \subseteq Nested[n + 1]
      BY <1>2, <2>1
    <2>3. Nest(Nested[n]) \subseteq Nest(Nested[n + 1])
      BY <2>2, NestGrows
    <2>4. Nested[n + 1] \subseteq Nested[(n + 1) + 1]
      BY <2>1, <2>3, NestedIs, Zenon
    <2> QED BY <2>1, <2>4
  <1>3. CASE Depth = 0
    BY <1>3
  <1>4. CASE Depth # 0
    <2>1. Depth - 1 \in Nat
      BY <1>0, <1>4
    <2> DEFINE N == Depth - 1
    <2>2. \A n \in 0 .. N : n \in T
      <3>1. N \in Nat /\ \A n \in 0 .. N - 1 : n \in T => n + 1 \in T
        BY <1>2, <2>1
      <3> HIDE DEF T, N
      <3> QED BY <1>1, <3>1, Upwards
    <2>3. ASSUME NEW n \in 0 .. N PROVE Nested[n] \subseteq Nested[n + 1]
      <3>1. n <= Depth - 1
        BY <2>1
      <3>2. n \in T
        BY <2>2, Zenon
      <3> QED BY <3>1, <3>2, Zenon
    <2> QED BY <2>3
  <1> QED BY <1>3, <1>4

LEMMA NestedInValues == \A n \in 0 .. Depth : Nested[n] \subseteq Values
  <1> SUFFICES ASSUME NEW n \in 0 .. Depth PROVE Nested[n] \subseteq Nested[Depth]
    BY Zenon DEF Values
  <1> DEFINE T == {k \in Nat : n + k <= Depth => Nested[n] \subseteq Nested[n + k]}
  <1>0. Depth \in Nat /\ n \in Nat /\ n <= Depth
    BY NestedIs
  <1>1. 0 \in T
    <2>1. n + 0 = n
      BY <1>0
    <2> QED BY <2>1
  <1>2. ASSUME NEW k \in 0 .. (Depth - n) - 1, k \in T PROVE k + 1 \in T
    <2> DEFINE m == n + k
    <2>1. k \in Nat /\ k + 1 \in Nat /\ m \in 0 .. Depth - 1 /\ m <= Depth /\ n + (k + 1) = m + 1
      BY <1>0
    <2> HIDE DEF m
    <2>2. Nested[n] \subseteq Nested[m] /\ Nested[m] \subseteq Nested[m + 1]
      BY <1>2, <2>1, NestedGrows, Zenon DEF m
    <2>3. Nested[n] \subseteq Nested[m + 1]
      BY <2>2
    <2> QED BY <2>1, <2>3
  <1>3. \A k \in 0 .. Depth - n : k \in T
    <2> DEFINE N == Depth - n
    <2>1. N \in Nat /\ \A k \in 0 .. N - 1 : k \in T => k + 1 \in T
      BY <1>0, <1>2
    <2> HIDE DEF T, N
    <2>2. \A k \in 0 .. N : k \in T
      BY <1>1, <2>1, Upwards
    <2> QED BY <2>2 DEF N
  <1>4. Depth - n \in 0 .. Depth - n /\ n + (Depth - n) = Depth /\ Depth <= Depth
    BY <1>0
  <1>5. Depth - n \in T
    BY <1>3, <1>4, Zenon
  <1> QED BY <1>4, <1>5, Zenon

\* The parts of value f are in V.
PartsIn(f, V) ==
  /\ f.t = "array" => f.v \in Seq(V)
  /\ f.t = "Table" => f.v \in Seq(Entries(V))

LEMMA ScalarParts == \A f \in Scalars : PartsIn(f, {})
  <1> SUFFICES ASSUME NEW f \in Scalars PROVE PartsIn(f, {})
    OBVIOUS
  <1>1. f.t \notin {"array", "Table"}
    BY DEF Scalars
  <1> QED BY <1>1, Zenon DEF PartsIn

LEMMA NestParts ==
  ASSUME NEW V, NEW f \in Nest(V)
  PROVE  PartsIn(f, V)
  <1> DEFINE A == Seq(V)
             B == Seq(Entries(V))
  <1>0. "array" # "Table"
    OBVIOUS
  <1>1. CASE f \in Scalars
    <2>1. f.t \notin {"array", "Table"}
      BY <1>1 DEF Scalars
    <2> QED BY <2>1, Zenon DEF PartsIn
  <1>2. CASE f \in [t : {"array"}, v : A]
    <2> HIDE DEF A
    <2>1. f.t = "array" /\ f.v \in A
      BY <1>2
    <2> QED BY <1>0, <2>1, Zenon DEF PartsIn, A
  <1>3. CASE f \in [t : {"Table"}, v : B]
    <2> HIDE DEF B
    <2>1. f.t = "Table" /\ f.v \in B
      BY <1>3
    <2> QED BY <1>0, <2>1, Zenon DEF PartsIn, B
  <1> QED BY <1>1, <1>2, <1>3, Zenon DEF Nest

\* What is written of other values than tables and arrays.
Plain(f) ==
  CASE f.t \notin DOMAIN Tag -> Refused("ErrFieldType")
    [] f.t = "int"   -> Out(<<Tag[f.t]>> \o SubSeq(f.v, 5, 8))
    [] f.t = "time"  -> Out(<<Tag[f.t]>> \o SubSeq(f.v, 1, 8))
    [] f.t \in {"string", "bytes"} -> Out(<<Tag[f.t]>> \o Octets(Len(f.v), 4) \o f.v)
    [] OTHER -> Out(<<Tag[f.t]>> \o f.v)

Sections(w, f) == InTurn([i \in DOMAIN f.v |-> w[f.v[i]]])

LEMMA TagsAre ==
  DOMAIN Tag = {"bool", "byte", "int8", "int16", "int", "int32", "int64", "float32", "float64", "Decimal",
                "string", "array", "time", "Table", "bytes", "nil"}
  BY DEF Tag

LEMMA WriteIs ==
  ASSUME NEW w, NEW f
  PROVE  /\ f.t = "Table" => writeField(w, f) = After(<<Tag[f.t]>>, tableWith(w, f.v))
         /\ f.t = "array" => writeField(w, f) = After(<<Tag[f.t]>> \o Octets(Len(Sections(w, f).out), 4), Sections(w, f))
         /\ f.t \notin {"Table", "array"} => writeField(w, f) = Plain(f)
  <1>1. "Table" \in DOMAIN Tag /\ "array" \in DOMAIN Tag
    BY TagsAre
  <1>2. /\ "Table" \notin {"int", "time", "array", "string", "bytes"}
        /\ "array" \notin {"int", "time", "Table", "string", "bytes"}
        /\ "int" \notin {"time", "string", "bytes"} /\ "time" \notin {"int", "string", "bytes"}
    OBVIOUS
  <1>3. ASSUME f.t = "Table" PROVE writeField(w, f) = After(<<Tag[f.t]>>, tableWith(w, f.v))
    BY <1>1, <1>2, <1>3, Zenon DEF writeField
  <1>4. ASSUME f.t = "array"
        PROVE  writeField(w, f) = After(<<Tag[f.t]>> \o Octets(Len(Sections(w, f).out), 4), Sections(w, f))
    BY <1>1, <1>2, <1>4, Zenon DEF writeField, Sections
  <1>5. ASSUME f.t \notin {"Table", "array"} PROVE writeField(w, f) = Plain(f)
    <2>0. {"int", "time", "string", "bytes"} \subseteq DOMAIN Tag
      BY TagsAre
    <2>1. CASE f.t \notin DOMAIN Tag
      <3>1. writeField(w, f) = Refused("ErrFieldType")
        BY <1>5, <2>0, <2>1, Zenon DEF writeField
      <3>2. Plain(f) = Refused("ErrFieldType")
        BY <1>5, <2>0, <2>1, Zenon DEF Plain
      <3> QED BY <3>1, <3>2, Zenon
    <2>2. CASE f.t = "int"
      <3>1. writeField(w, f) = Out(<<Tag[f.t]>> \o SubSeq(f.v, 5, 8))
        BY <1>2, <1>5, <2>0, <2>2, Zenon DEF writeField
      <3>2. Plain(f) = Out(<<Tag[f.t]>> \o SubSeq(f.v, 5, 8))
        BY <1>2, <1>5, <2>0, <2>2, Zenon DEF Plain
      <3> QED BY <3>1, <3>2, Zenon
    <2>3. CASE f.t = "time"
      <3>1. writeField(w, f) = Out(<<Tag[f.t]>> \o SubSeq(f.v, 1, 8))
        BY <1>2, <1>5, <2>0, <2>3, Zenon DEF writeField
      <3>2. Plain(f) = Out(<<Tag[f.t]>> \o SubSeq(f.v, 1, 8))
        BY <1>2, <1>5, <2>0, <2>3, Zenon DEF Plain
      <3> QED BY <3>1, <3>2, Zenon
    <2>4. CASE f.t \in {"string", "bytes"}
      <3>1. writeField(w, f) = Out(<<Tag[f.t]>> \o Octets(Len(f.v), 4) \o f.v)
        BY <1>2, <1>5, <2>0, <2>4, Zenon DEF writeField
      <3>2. Plain(f) = Out(<<Tag[f.t]>> \o Octets(Len(f.v), 4) \o f.v)
        BY <1>2, <1>5, <2>0, <2>4, Zenon DEF Plain
      <3> QED BY <3>1, <3>2, Zenon
    <2>5. CASE f.t \in DOMAIN Tag /\ f.t \notin {"int", "time", "string", "bytes"}
      <3>1. writeField(w, f) = Out(<<Tag[f.t]>> \o f.v)
        BY <1>5, <2>5, Zenon DEF writeField
      <3>2. Plain(f) = Out(<<Tag[f.t]>> \o f.v)
        BY <1>5, <2>5, Zenon DEF Plain
      <3> QED BY <3>1, <3>2, Zenon
    <2> QED BY <2>1, <2>2, <2>3, <2>4, <2>5, Zenon
  <1> QED BY <1>3, <1>4, <1>5, Zenon

\* Two functions that agree on the parts.
LEMMA PartsAgree ==
  ASSUME NEW V, NEW f, PartsIn(f, V), NEW g, NEW h, \A e \in V : g[e] = h[e]
  PROVE  /\ writeField(g, f) = writeField(h, f)
         /\ validateField(g, f) <=> validateField(h, f)
  <1>1. ASSUME f.t = "Table" PROVE \A i \in DOMAIN f.v : f.v[i].val \in V
    <2> DEFINE s == f.v
    <2>1. s \in Seq(Entries(V))
      BY <1>1, Zenon DEF PartsIn
    <2> HIDE DEF s
    <2>2. ASSUME NEW i \in DOMAIN s PROVE s[i].val \in V
      <3>1. s[i] \in Entries(V)
        BY <2>1
      <3> QED BY <3>1 DEF Entries
    <2> QED BY <2>2 DEF s
  <1>2. ASSUME f.t = "array" PROVE \A i \in DOMAIN f.v : f.v[i] \in V
    <2> DEFINE s == f.v
    <2>1. s \in Seq(V)
      BY <1>2, Zenon DEF PartsIn
    <2> HIDE DEF s
    <2>2. \A i \in DOMAIN s : s[i] \in V
      BY <2>1
    <2> QED BY <2>2 DEF s
  <1>3. validateField(g, f) <=> validateField(h, f)
    BY <1>1, <1>2, Zenon DEF validateField
  <1>4. CASE f.t = "Table"
    <2> DEFINE Entry(w, i) == InTurn(<<writeShortstr(f.v[i].key), w[f.v[i].val]>>)
    <2>1. \A i \in DOMAIN f.v : Entry(g, i) = Entry(h, i)
      BY <1>1, <1>4, Zenon
    <2>2. [i \in DOMAIN f.v |-> Entry(g, i)] = [i \in DOMAIN f.v |-> Entry(h, i)]
      BY <2>1, Zenon
    <2>3. tableWith(g, f.v) = tableWith(h, f.v)
      BY <2>2, Zenon DEF tableWith
    <2> QED BY <1>3, <1>4, <2>3, WriteIs, Zenon
  <1>5. CASE f.t = "array"
    <2>1. [i \in DOMAIN f.v |-> g[f.v[i]]] = [i \in DOMAIN f.v |-> h[f.v[i]]]
      BY <1>2, <1>5, Zenon
    <2>2. Sections(g, f) = Sections(h, f)
      BY <2>1, Zenon DEF Sections
    <2> QED BY <1>3, <1>5, <2>2, WriteIs, Zenon
  <1>6. CASE f.t \notin {"Table", "array"}
    BY <1>3, <1>6, WriteIs, Zenon
  <1> QED BY <1>4, <1>5, <1>6, Zenon

Writes(g, V) == g = [f \in V |-> writeField(g, f)]
Judges(g, V) == g = [f \in V |-> validateField(g, f)]

LEMMA WritesScalars == \E g : Writes(g, Scalars)
  <1> DEFINE g == [f \in Scalars |-> writeField(<<>>, f)]
  <1>1. ASSUME NEW f \in Scalars PROVE writeField(<<>>, f) = writeField(g, f)
    <2>1. PartsIn(f, {}) /\ \A e \in {} : <<>>[e] = g[e]
      BY ScalarParts, Zenon
    <2> HIDE DEF g
    <2> QED BY <2>1, PartsAgree
  <1>2. g = [f \in Scalars |-> writeField(g, f)]
    BY <1>1, Zenon
  <1> QED BY <1>2, Zenon DEF Writes

LEMMA WritesDeeper ==
  ASSUME NEW V, V \subseteq Nest(V), NEW g, Writes(g, V)
  PROVE  \E h : Writes(h, Nest(V))
  <1> DEFINE h == [f \in Nest(V) |-> writeField(g, f)]
  <1>1. ASSUME NEW e \in V PROVE g[e] = h[e]
    <2>1. e \in Nest(V)
      OBVIOUS
    <2>2. g[e] = writeField(g, e)
      BY Zenon DEF Writes
    <2> QED BY <2>1, <2>2, Zenon
  <1> HIDE DEF h
  <1>2. ASSUME NEW f \in Nest(V) PROVE writeField(g, f) = writeField(h, f)
    <2>1. PartsIn(f, V)
      BY NestParts, Zenon
    <2> QED BY <1>1, <2>1, PartsAgree
  <1>3. h = [f \in Nest(V) |-> writeField(h, f)]
    BY <1>2, Zenon DEF h
  <1> QED BY <1>3, Zenon DEF Writes

LEMMA JudgesScalars == \E g : Judges(g, Scalars)
  <1> DEFINE g == [f \in Scalars |-> validateField(<<>>, f)]
  <1>1. ASSUME NEW f \in Scalars PROVE validateField(<<>>, f) = validateField(g, f)
    <2>1. PartsIn(f, {}) /\ \A e \in {} : <<>>[e] = g[e]
      BY ScalarParts, Zenon
    <2> HIDE DEF g
    <2>2. validateField(<<>>, f) <=> validateField(g, f)
      BY <2>1, PartsAgree
    <2> QED BY <2>2, Zenon DEF validateField
  <1>2. g = [f \in Scalars |-> validateField(g, f)]
    BY <1>1, Zenon
  <1> QED BY <1>2, Zenon DEF Judges

LEMMA JudgesDeeper ==
  ASSUME NEW V, V \subseteq Nest(V), NEW g, Judges(g, V)
  PROVE  \E h : Judges(h, Nest(V))
  <1> DEFINE h == [f \in Nest(V) |-> validateField(g, f)]
  <1>1. ASSUME NEW e \in V PROVE g[e] = h[e]
    <2>1. e \in Nest(V)
      OBVIOUS
    <2>2. g[e] = validateField(g, e)
      BY Zenon DEF Judges
    <2> QED BY <2>1, <2>2, Zenon
  <1> HIDE DEF h
  <1>2. ASSUME NEW f \in Nest(V) PROVE validateField(g, f) = validateField(h, f)
    <2>1. PartsIn(f, V)
      BY NestParts, Zenon
    <2>2. validateField(g, f) <=> validateField(h, f)
      BY <1>1, <2>1, PartsAgree
    <2> QED BY <2>2, Zenon DEF validateField
  <1>3. h = [f \in Nest(V) |-> validateField(h, f)]
    BY <1>2, Zenon DEF h
  <1> QED BY <1>3, Zenon DEF Judges

LEMMA FieldOctetsIs == Writes(fieldOctets, Values)
  <1> DEFINE T == {n \in Nat : \E g : Writes(g, Nested[n])}
  <1>0. Depth \in Nat /\ Nested[0] = Scalars
    BY NestedIs
  <1>1. 0 \in T
    BY <1>0, WritesScalars, Zenon
  <1>2. ASSUME NEW n \in 0 .. Depth - 1, n \in T PROVE n + 1 \in T
    <2>1. PICK g : Writes(g, Nested[n])
      BY <1>2
    <2>2. Nested[n + 1] = Nest(Nested[n]) /\ Nested[n] \subseteq Nested[n + 1]
      BY NestedIs, NestedGrows, Zenon
    <2> DEFINE V == Nested[n]
    <2>3. V \subseteq Nest(V) /\ Writes(g, V)
      BY <2>1, <2>2, Zenon
    <2> HIDE DEF V
    <2>4. \E h : Writes(h, Nest(V))
      BY <2>3, WritesDeeper, Zenon
    <2>5. n + 1 \in Nat
      OBVIOUS
    <2> QED BY <2>2, <2>4, <2>5, Zenon DEF V
  <1>3. Depth \in T
    <2> HIDE DEF T
    <2> QED BY <1>0, <1>1, <1>2, Upwards
  <1>4. \E g : Writes(g, Values)
    BY <1>3, Zenon DEF Values
  <1> QED BY <1>4, Zenon DEF Writes, fieldOctets

LEMMA ValidatedIs == Judges(validated, Values)
  <1> DEFINE T == {n \in Nat : \E g : Judges(g, Nested[n])}
  <1>0. Depth \in Nat /\ Nested[0] = Scalars
    BY NestedIs
  <1>1. 0 \in T
    BY <1>0, JudgesScalars, Zenon
  <1>2. ASSUME NEW n \in 0 .. Depth - 1, n \in T PROVE n + 1 \in T
    <2>1. PICK g : Judges(g, Nested[n])
      BY <1>2
    <2>2. Nested[n + 1] = Nest(Nested[n]) /\ Nested[n] \subseteq Nested[n + 1]
      BY NestedIs, NestedGrows, Zenon
    <2> DEFINE V == Nested[n]
    <2>3. V \subseteq Nest(V) /\ Judges(g, V)
      BY <2>1, <2>2, Zenon
    <2> HIDE DEF V
    <2>4. \E h : Judges(h, Nest(V))
      BY <2>3, JudgesDeeper, Zenon
    <2>5. n + 1 \in Nat
      OBVIOUS
    <2> QED BY <2>2, <2>4, <2>5, Zenon DEF V
  <1>3. Depth \in T
    <2> HIDE DEF T
    <2> QED BY <1>0, <1>1, <1>2, Upwards
  <1>4. \E g : Judges(g, Values)
    BY <1>3, Zenon DEF Values
  <1> QED BY <1>4, Zenon DEF Judges, validated

\* An error of several writes is the error of one of them.
Fine(w) == w.err # "ErrFieldType"

LEMMA InTurnFine ==
  ASSUME NEW ws, DOMAIN ws \subseteq Nat, \A i \in DOMAIN ws : Fine(ws[i])
  PROVE  Fine(InTurn(ws))
  <1> DEFINE bad == {i \in DOMAIN ws : ws[i].err # "nil"}
             k == CHOOSE i \in bad : \A j \in bad : i <= j
  <1>1. CASE bad = {}
    <2> DEFINE o == FlattenSeq([i \in DOMAIN ws |-> ws[i].out])
    <2>1. InTurn(ws) = Out(o)
      BY <1>1, Zenon DEF InTurn
    <2> HIDE DEF o
    <2>2. Out(o).err = "nil"
      BY DEF Out
    <2>3. "nil" # "ErrFieldType"
      OBVIOUS
    <2> QED BY <2>1, <2>2, <2>3, Zenon DEF Fine
  <1>2. CASE bad # {}
    <2>1. InTurn(ws) = Refused(ws[k].err)
      BY <1>2, Zenon DEF InTurn
    <2>2. bad \subseteq Nat
      OBVIOUS
    <2>3. k \in bad
      <3> HIDE DEF bad
      <3>1. \E x \in bad : \A y \in bad : x <= y
        BY <1>2, <2>2, Least
      <3> QED BY <3>1, Zenon
    <2>4. ws[k].err # "ErrFieldType"
      BY <2>3, Zenon DEF Fine
    <2> HIDE DEF k
    <2>5. \A e : Refused(e).err = e
      BY DEF Refused
    <2> QED BY <2>1, <2>4, <2>5, Zenon DEF Fine
  <1> QED BY <1>1, <1>2

LEMMA OutFine == \A o : Fine(Out(o))
  BY DEF Out, Fine

LEMMA PairFine ==
  ASSUME NEW v, NEW w, Fine(v), Fine(w)
  PROVE  Fine(InTurn(<<v, w>>))
  <1> DEFINE ws == <<v, w>>
  <1>1. DOMAIN ws = {1, 2} /\ ws[1] = v /\ ws[2] = w
    OBVIOUS
  <1> HIDE DEF ws
  <1>2. DOMAIN ws \subseteq Nat
    BY <1>1
  <1>3. \A i \in DOMAIN ws : Fine(ws[i])
    BY <1>1, Zenon
  <1>4. Fine(InTurn(ws))
    BY <1>2, <1>3, InTurnFine
  <1> QED BY <1>4 DEF ws

LEMMA AfterFine ==
  ASSUME NEW o, NEW w, Fine(w)
  PROVE  Fine(After(o, w))
  BY OutFine, PairFine, Zenon DEF After

\* A table whose values can be written.
LEMMA TableFine ==
  ASSUME NEW w, NEW table, DOMAIN table \subseteq Nat, \A i \in DOMAIN table : Fine(w[table[i].val])
  PROVE  Fine(tableWith(w, table))
  <1> DEFINE Entry(i) == InTurn(<<writeShortstr(table[i].key), w[table[i].val]>>)
             ws  == [i \in DOMAIN table |-> Entry(i)]
             buf == InTurn(ws)
  <1>1. ASSUME NEW i \in DOMAIN table PROVE Fine(Entry(i))
    <2>1. Fine(writeShortstr(table[i].key))
      BY OutFine, Zenon DEF writeShortstr
    <2> QED BY <2>1, PairFine, Zenon
  <1> HIDE DEF Entry
  <1>2. DOMAIN ws = DOMAIN table /\ \A i \in DOMAIN ws : Fine(ws[i])
    BY <1>1, Zenon
  <1>3. Fine(buf)
    <2> HIDE DEF ws
    <2> QED BY <1>2, InTurnFine, Zenon
  <1>4. tableWith(w, table) = IF buf.err = "nil" THEN writeLongstr(buf.out) ELSE buf
    BY Zenon DEF tableWith, Entry
  <1> HIDE DEF buf
  <1>5. Fine(writeLongstr(buf.out))
    BY OutFine, Zenon DEF writeLongstr
  <1> QED BY <1>3, <1>4, <1>5, Zenon

LEMMA PlainFine ==
  ASSUME NEW f, f.t \in Simple
  PROVE  Fine(Plain(f)) /\ f.t \notin {"Table", "array"}
  <1>1. f.t \in DOMAIN Tag /\ f.t \notin {"Table", "array"}
    BY TagsAre DEF Simple
  <1>2. \E o : Plain(f) = Out(o)
    <2>1. CASE f.t = "int"
      BY <1>1, <2>1, Zenon DEF Plain
    <2>2. CASE f.t = "time"
      BY <1>1, <2>2, Zenon DEF Plain
    <2>3. CASE f.t \in {"string", "bytes"}
      BY <1>1, <2>3, Zenon DEF Plain
    <2>4. CASE f.t \notin {"int", "time", "string", "bytes"}
      BY <1>1, <2>4, Zenon DEF Plain
    <2> QED BY <2>1, <2>2, <2>3, <2>4, Zenon
  <1> QED BY <1>1, <1>2, OutFine, Zenon

\* What validateField accepts can be written, when that is so for the parts.
LEMMA ValidFine ==
  ASSUME NEW V, NEW f, PartsIn(f, V), NEW w, NEW valid, validateField(valid, f),
         \A e \in V : valid[e] => Fine(w[e])
  PROVE  Fine(writeField(w, f))
  <1>1. CASE f.t \in Simple
    <2>1. writeField(w, f) = Plain(f)
      BY <1>1, PlainFine, WriteIs, Zenon
    <2> QED BY <1>1, <2>1, PlainFine, Zenon
  <1>2. CASE f.t = "array" /\ \A i \in DOMAIN f.v : valid[f.v[i]]
    <2> DEFINE s  == f.v
               ws == [i \in DOMAIN s |-> w[s[i]]]
    <2>1. s \in Seq(V)
      BY <1>2, Zenon DEF PartsIn
    <2>2. DOMAIN s \subseteq Nat /\ \A i \in DOMAIN s : s[i] \in V
      <3> HIDE DEF s
      <3> QED BY <2>1
    <2>3. DOMAIN ws = DOMAIN s /\ \A i \in DOMAIN ws : Fine(ws[i])
      BY <1>2, <2>2, Zenon
    <2>4. Fine(InTurn(ws))
      <3> HIDE DEF ws
      <3> QED BY <2>2, <2>3, InTurnFine, Zenon
    <2>5. Fine(Sections(w, f))
      BY <2>4, Zenon DEF Sections
    <2> QED BY <1>2, <2>5, AfterFine, WriteIs, Zenon
  <1>3. CASE f.t = "Table" /\ \A i \in DOMAIN f.v : valid[f.v[i].val]
    <2> DEFINE s == f.v
    <2>1. s \in Seq(Entries(V))
      BY <1>3, Zenon DEF PartsIn
    <2>2. DOMAIN s \subseteq Nat /\ \A i \in DOMAIN s : s[i].val \in V
      <3> HIDE DEF s
      <3>1. DOMAIN s \subseteq Nat /\ \A i \in DOMAIN s : s[i] \in Entries(V)
        BY <2>1
      <3>2. \A e \in Entries(V) : e.val \in V
        BY DEF Entries
      <3> QED BY <3>1, <3>2, Zenon
    <2>3. Fine(tableWith(w, s))
      BY <1>3, <2>2, TableFine, Zenon
    <2> QED BY <1>3, <2>3, AfterFine, WriteIs, Zenon
  <1> QED BY <1>1, <1>2, <1>3, Zenon DEF validateField

LEMMA ValuesFine == \A f \in Values : validated[f] => Fine(fieldOctets[f])
  <1> DEFINE T == {n \in Nat : n <= Depth => \A f \in Nested[n] : validated[f] => Fine(fieldOctets[f])}
  <1>0. Depth \in Nat
    BY NestedIs
  <1>1. ASSUME NEW n \in 0 .. Depth, NEW V, \A e \in V : validated[e] => Fine(fieldOctets[e]),
               NEW f \in Nested[n], PartsIn(f, V), validated[f]
        PROVE  Fine(fieldOctets[f])
    <2>1. f \in Values
      BY NestedInValues, Zenon
    <2>2. fieldOctets[f] = writeField(fieldOctets, f)
      BY <2>1, FieldOctetsIs, Zenon DEF Writes
    <2>3. validateField(validated, f)
      BY <1>1, <2>1, ValidatedIs, Zenon DEF Judges
    <2>4. Fine(writeField(fieldOctets, f))
      BY <1>1, <2>3, ValidFine, Zenon
    <2> QED BY <2>2, <2>4, Zenon
  <1>2. 0 \in T
    <2>1. 0 \in 0 .. Depth
      BY <1>0
    <2>2. ASSUME NEW f \in Nested[0], validated[f] PROVE Fine(fieldOctets[f])
      <3>1. PartsIn(f, {})
        BY NestedIs, ScalarParts, Zenon
      <3> QED BY <1>1, <2>1, <2>2, <3>1, Zenon
    <2> QED BY <2>2
  <1>3. ASSUME NEW n \in 0 .. Depth - 1, n \in T PROVE n + 1 \in T
    <2>1. n \in Nat /\ n <= Depth /\ n + 1 \in 0 .. Depth /\ n + 1 \in Nat
      BY <1>0
    <2>2. \A e \in Nested[n] : validated[e] => Fine(fieldOctets[e])
      BY <1>3, <2>1, Zenon
    <2>3. ASSUME NEW f \in Nested[n + 1], validated[f] PROVE Fine(fieldOctets[f])
      <3>1. PartsIn(f, Nested[n])
        BY NestedIs, NestParts, Zenon
      <3> QED BY <1>1, <2>1, <2>2, <2>3, <3>1, Zenon
    <2> QED BY <2>1, <2>3, Zenon
  <1>4. Depth \in T
    <2> HIDE DEF T
    <2> QED BY <1>0, <1>2, <1>3, Upwards
  <1>5. Depth <= Depth
    BY <1>0
  <1> QED BY <1>4, <1>5, Zenon DEF Values

\* "Functions taking a table will immediately fail when the table contains a value of an
\* unsupported type": however deep the arrays and tables in it are nested, a table that
\* Validate accepts can be written (Table.Validate, validateField, writeTable, writeField).
THEOREM ValidTableCanBeWritten ==
  ASSUME NEW table \in Tables, Validate(table)
  PROVE  writeTable(table).err # "ErrFieldType"
  <1>1. DOMAIN table \subseteq Nat /\ \A i \in DOMAIN table : table[i] \in Entries(Values)
    BY DEF Tables
  <1>2. \A e \in Entries(Values) : e.val \in Values
    BY DEF Entries
  <1>3. \A i \in DOMAIN table : Fine(fieldOctets[table[i].val])
    BY <1>1, <1>2, ValuesFine, Zenon DEF Validate
  <1>4. Fine(tableWith(fieldOctets, table))
    BY <1>1, <1>3, TableFine, Zenon
  <1> QED BY <1>4, Zenon DEF writeTable, Fine

-----------------------------------------------------------------------------
(***************************************************************************)
(* The methods and headers that hold the tables.                           *)
(***************************************************************************)
LEMMA FieldsFine ==
  ASSUME NEW fields, NEW args, DOMAIN fields \subseteq Nat,
         \A i \in DOMAIN fields : fields[i].type = "table" => Fine(writeTable(args[fields[i].name]))
  PROVE  Fine(writeFields(fields, args))
  <1> DEFINE One(f) == IF f.type = "bits" THEN Out(writeBits([b \in DOMAIN f.bits |-> args[f.bits[b]]]))
                       ELSE writeValue(f.type, args[f.name])
             ws == [i \in DOMAIN fields |-> One(fields[i])]
  <1>1. ASSUME NEW type, NEW v, type = "table" => Fine(writeTable(v)) PROVE Fine(writeValue(type, v))
    <2>1. (writeValue(type, v) = writeTable(v) /\ type = "table") \/ \E o : writeValue(type, v) = Out(o)
      <3>1. CASE type = "shortstr"
        BY <3>1, Zenon DEF writeValue, writeShortstr
      <3>2. CASE type = "longstr"
        BY <3>2, Zenon DEF writeValue, writeLongstr
      <3>3. CASE type = "table"
        BY <3>3, Zenon DEF writeValue
      <3>4. CASE type = "timestamp"
        BY <3>4, Zenon DEF writeValue
      <3>5. CASE type \notin {"shortstr", "longstr", "table", "timestamp"}
        BY <3>5, Zenon DEF writeValue
      <3> QED BY <3>1, <3>2, <3>3, <3>4, <3>5, Zenon
    <2> QED BY <1>1, <2>1, OutFine, Zenon
  <1>2. ASSUME NEW i \in DOMAIN fields PROVE Fine(One(fields[i]))
    <2>1. CASE fields[i].type = "bits"
      BY <2>1, OutFine, Zenon
    <2>2. CASE fields[i].type # "bits"
      BY <1>1, <2>2, Zenon
    <2> QED BY <2>1, <2>2
  <1>3. writeFields(fields, args) = InTurn(ws)
    BY Zenon DEF writeFields
  <1> HIDE DEF One
  <1>4. DOMAIN ws = DOMAIN fields /\ \A i \in DOMAIN ws : Fine(ws[i])
    BY <1>2, Zenon
  <1> HIDE DEF ws
  <1> QED BY <1>3, <1>4, InTurnFine, Zenon

\* The one table among the properties.
LEMMA PropertiesAre ==
  /\ DOMAIN Properties = 1 .. 14
  /\ \A p \in Range(Properties) : p.type = "table" => p.name = "Headers"
  <1>1. DOMAIN Properties = 1 .. 14
    BY DEF Properties
  <1>2. \A n, t : F(n, t).name = n /\ F(n, t).type = t
    BY DEF F
  <1>3. ASSUME NEW i \in 1 .. 14, Properties[i].type = "table" PROVE Properties[i].name = "Headers"
    <2>1. i = 3
      BY <1>3, <1>2 DEF Properties
    <2>2. Properties[3] = F("Headers", "table")
      BY DEF Properties
    <2> QED BY <1>2, <2>1, <2>2, Zenon
  <1> QED BY <1>1, <1>3, Zenon DEF Range

LEMMA FlaggedIs == \A mask : Flagged(mask) \in Seq(Range(Properties))
  <1> SUFFICES ASSUME NEW mask PROVE Flagged(mask) \in Seq(Range(Properties))
    OBVIOUS
  <1> DEFINE X == Range(Properties)
             s == [i \in DOMAIN Properties |-> IF hasProperty(mask, i) THEN <<Properties[i]>> ELSE <<>>]
  <1>1. \A i \in 1 .. 14 : Properties[i] \in X
    BY PropertiesAre, Zenon DEF Range
  <1>2. DOMAIN Properties = 1 .. 14 /\ 14 \in Nat
    BY PropertiesAre
  <1>3. Flagged(mask) = FlattenSeq(s)
    BY Zenon DEF Flagged
  <1> HIDE DEF X
  <1>4. \A x \in X : <<x>> \in Seq(X)
    OBVIOUS
  <1>5. <<>> \in Seq(X)
    OBVIOUS
  <1>6. s \in [1 .. 14 -> Seq(X)]
    BY <1>1, <1>2, <1>4, <1>5, Zenon
  <1> HIDE DEF s
  <1>7. s \in Seq(Seq(X))
    BY <1>2, <1>6, SeqOfFcn
  <1> QED BY <1>3, <1>7, FlattenType DEF X

\* A frame whose tables are valid.
LEMMA PayloadFine ==
  ASSUME NEW c, NEW f, IsFrame(c, f),
         f.type = frameMethod => Named(f.name).fields \in Seq(Range(Named(f.name).fields)),
         \A table \in TablesIn(f) : table \in Tables /\ Validate(table)
  PROVE  Fine(writeFrame(f))
  <1>0. frameMethod # frameHeader /\ frameMethod # frameBody /\ frameHeader # frameBody
        /\ frameHeartbeat \notin {frameMethod, frameHeader, frameBody}
    BY DEF frameMethod, frameHeader, frameBody, frameHeartbeat
  <1>1. \A table \in TablesIn(f) : Fine(writeTable(table))
    BY ValidTableCanBeWritten, Zenon DEF Fine
  <1>2. Fine(payload(f))
    <2>1. CASE f.type = frameMethod
      <3> DEFINE fields == Named(f.name).fields
                 o == Octets(Named(f.name).class, 2) \o Octets(Named(f.name).method, 2)
      <3>1. payload(f) = After(o, writeFields(fields, f.args))
        BY <1>0, <2>1, Zenon DEF payload, methodPayload
      <3>2. TablesIn(f) = {f.args[fields[i].name] : i \in {i \in DOMAIN fields : fields[i].type = "table"}}
        BY <1>0, <2>1, Zenon DEF TablesIn
      <3>3. fields \in Seq(Range(fields))
        BY <2>1
      <3> HIDE DEF fields, o
      <3>4. DOMAIN fields \subseteq Nat
        BY <3>3
      <3>5. \A i \in DOMAIN fields : fields[i].type = "table" => Fine(writeTable(f.args[fields[i].name]))
        BY <1>1, <3>2, Zenon
      <3> DEFINE args == f.args
      <3>6. Fine(writeFields(fields, args))
        <4>1. \A i \in DOMAIN fields : fields[i].type = "table" => Fine(writeTable(args[fields[i].name]))
          BY <3>5
        <4> HIDE DEF args
        <4> QED BY <3>4, <4>1, FieldsFine
      <3> QED BY <3>1, <3>6, AfterFine, Zenon
    <2>2. CASE f.type = frameHeader
      <3> DEFINE mask == Mask(f.props)
                 fields == Flagged(mask)
                 o == Octets(f.class, 2) \o Octets(0, 2) \o Octets(f.size, 8) \o Octets(mask, 2)
                 args == f.props
      <3>1. payload(f) = After(o, writeFields(fields, args))
        BY <1>0, <2>2, Zenon DEF payload, headerPayload
      <3>2. Fine(writeTable(args.Headers))
        <4>1. TablesIn(f) = {f.props.Headers}
          BY <1>0, <2>2, Zenon DEF TablesIn
        <4> QED BY <1>1, <4>1, Zenon
      <3>3. fields \in Seq(Range(Properties))
        BY FlaggedIs, Zenon
      <3> HIDE DEF fields, o, args, mask
      <3>4. DOMAIN fields \subseteq Nat /\ \A i \in DOMAIN fields : fields[i] \in Range(Properties)
        <4> DEFINE X == Range(Properties)
        <4>1. fields \in Seq(X)
          BY <3>3
        <4> HIDE DEF X
        <4>2. DOMAIN fields \subseteq Nat /\ \A i \in DOMAIN fields : fields[i] \in X
          BY <4>1
        <4> QED BY <4>2 DEF X
      <3>5. \A i \in DOMAIN fields : fields[i].type = "table" => Fine(writeTable(args[fields[i].name]))
        <4>1. args["Headers"] = args.Headers
          OBVIOUS
        <4> QED BY <3>2, <3>4, <4>1, PropertiesAre, Zenon
      <3>6. Fine(writeFields(fields, args))
        BY <3>4, <3>5, FieldsFine
      <3> QED BY <3>1, <3>6, AfterFine, Zenon
    <2>3. CASE f.type = frameBody
      <3>1. payload(f) = Out(f.body)
        BY <1>0, <2>3, Zenon DEF payload
      <3> QED BY <3>1, OutFine, Zenon
    <2> QED BY <2>1, <2>2, <2>3, SMT DEF IsFrame
  <1> DEFINE p == payload(f)
             o == <<f.type>> \o Octets(f.channel, 2) \o Octets(Len(p.out), 4) \o p.out \o <<frameEnd>>
  <1>3. writeFrame(f) = IF p.err # "nil" THEN p ELSE Out(o)
    BY Zenon DEF writeFrame
  <1> QED BY <1>2, <1>3, OutFine, Zenon

\* No operation so far failed for the type of a value, and the one under way was checked.
Underway(c) == script.items[c][Len(result[c]) + 1]

CheckedAt(c) ==
  /\ \A i \in 1 .. Len(result[c]) : result[c][i] # "ErrFieldType"
  /\ out[c] # <<>> => \A table \in Checked(Underway(c)) : Validate(table)

CheckedOK == \A c \in Lines : CheckedAt(c)

LEMMA CheckedInit == Init => CheckedOK
  <1> SUFFICES ASSUME Init, NEW c \in Lines PROVE CheckedAt(c)
    BY DEF CheckedOK
  <1>1. out[c] = <<>> /\ result[c] = <<>>
    BY DEF Init
  <1>2. \A i \in 1 .. Len(result[c]) : FALSE
    BY <1>1
  <1> QED BY <1>1, <1>2, Zenon DEF CheckedAt

LEMMA CheckedKeeps ==
  ASSUME NEW c, CheckedAt(c), script' = script, result'[c] = result[c], out'[c] \in {out[c], Tail(out[c])},
         out[c] # <<>> \/ out'[c] = <<>>
  PROVE  CheckedAt(c)'
  <1>1. Underway(c)' = Underway(c)
    BY Zenon DEF Underway
  <1> QED BY <1>1, Zenon DEF CheckedAt

\* An operation is over.
LEMMA CheckedOver ==
  ASSUME NEW c, CheckedAt(c), NEW e, e # "ErrFieldType", result[c] \in Seq(Range(result[c])),
         result'[c] = Append(result[c], e), out'[c] = <<>>
  PROVE  CheckedAt(c)'
  <1> DEFINE r == result[c]
             n == Len(r)
             q == Append(r, e)
  <1>1. r \in Seq(Range(r))
    OBVIOUS
  <1>2. n \in Nat /\ Len(q) = n + 1 /\ q[n + 1] = e /\ \A i \in 1 .. n : q[i] = r[i]
    <2> HIDE DEF r
    <2> QED BY <1>1, AppendSeq
  <1>3. \A i \in 1 .. n : r[i] # "ErrFieldType"
    BY Zenon DEF CheckedAt
  <1>4. result'[c] = q
    OBVIOUS
  <1> HIDE DEF r, n, q
  <1>5. ASSUME NEW i \in 1 .. n + 1 PROVE q[i] # "ErrFieldType"
    <2>1. i = n + 1 \/ i \in 1 .. n
      BY <1>2
    <2> QED BY <1>2, <1>3, <2>1, Zenon
  <1> QED BY <1>2, <1>4, <1>5, Zenon DEF CheckedAt

LEMMA CheckedSend ==
  ASSUME WriterOK, CheckedOK, NEW x \in Lines, Send(x)
  PROVE  CheckedOK'
  <1> SUFFICES ASSUME NEW c \in Lines PROVE CheckedAt(c)'
    BY DEF CheckedOK
  <1> DEFINE item == Head(items[x])
             Bad == \E table \in Checked(item) : ~Validate(table)
  <1>1. CheckedAt(c)
    BY DEF CheckedOK
  <1>2. /\ out[x] = <<>> /\ items[x] # <<>> /\ script' = script
        /\ IF Bad THEN result' = [result EXCEPT ![x] = Append(result[x], "invalid")] /\ out' = out
           ELSE out' = [out EXCEPT ![x] = FramesOf(x, item)] /\ result' = result
    BY Zenon DEF Send
  <1>3. DOMAIN out = Lines /\ DOMAIN result = Lines
    BY Zenon DEF WriterOK
  <1>4. CASE c # x
    <2> HIDE DEF Bad
    <2>1. result'[c] = result[c] /\ out'[c] = out[c]
      BY <1>2, <1>3, <1>4, Zenon
    <2> QED BY <1>1, <1>2, <2>1, CheckedKeeps, Zenon
  <1>5. CASE c = x
    <2>1. result[c] \in Seq(Range(result[c])) /\ item = Underway(c)
      BY <1>2, <1>5, WriterItem, Zenon DEF Underway
    <2>2. CASE Bad
      <3>1. result'[c] = Append(result[c], "invalid") /\ out'[c] = <<>>
        BY <1>2, <1>3, <1>5, <2>2, Zenon
      <3>2. "invalid" # "ErrFieldType"
        OBVIOUS
      <3> QED BY <1>1, <2>1, <3>1, <3>2, CheckedOver
    <2>3. CASE ~Bad
      <3>1. result'[c] = result[c]
        BY <1>2, <2>3, Zenon
      <3>2. Underway(c)' = item
        BY <1>2, <2>1, <3>1, Zenon DEF Underway
      <3> QED BY <1>1, <2>3, <3>1, <3>2, Zenon DEF CheckedAt
    <2> QED BY <2>2, <2>3, Zenon
  <1> QED BY <1>4, <1>5, Zenon

LEMMA CheckedWrites ==
  ASSUME TablesFit, WriterOK, CheckedOK, NEW x \in Lines, WriteFrame(x)
  PROVE  CheckedOK'
  <1> SUFFICES ASSUME NEW c \in Lines PROVE CheckedAt(c)'
    BY DEF CheckedOK
  <1> DEFINE f == Head(out[x])
             e == writeFrame(f).err
             o == Len(out[x])
  <1>1. CheckedAt(c) /\ CheckedAt(x)
    BY DEF CheckedOK
  <1>2. /\ out[x] # <<>> /\ script' = script
        /\ IF e = "nil"
           THEN /\ out' = [out EXCEPT ![x] = Tail(out[x])]
                /\ result' = IF o = 1 THEN [result EXCEPT ![x] = Append(result[x], "nil")] ELSE result
           ELSE out' = [out EXCEPT ![x] = <<>>] /\ result' = [result EXCEPT ![x] = Append(result[x], e)]
    BY Zenon DEF WriteFrame
  <1>3. DOMAIN out = Lines /\ DOMAIN result = Lines /\ script \in Scripts /\ result[x] \in Seq(Range(result[x]))
    BY Zenon DEF WriterOK, WriterAt
  <1>4. e # "ErrFieldType"
    <2> DEFINE n    == Len(result[x])
               item == script.items[x][n + 1]
               fs   == FramesOf(x, item)
               k    == Gone(x) + 1
    <2>1. n + 1 \in DOMAIN script.items[x] /\ k \in 1 .. Len(fs) /\ f = fs[k] /\ fs \in Seq(Frames(x))
      BY <1>2, WriterHead, Zenon DEF Current
    <2>2. k \in DOMAIN fs
      BY <2>1, LenProperties, Zenon
    <2>3. IsFrame(x, f)
      BY <1>3, <2>1, <2>2, ItemFrames, Zenon
    <2>4. /\ f.type = frameMethod => Named(f.name).fields \in Seq(Range(Named(f.name).fields))
          /\ \A table \in TablesIn(f) : table \in Tables /\ (table \in Checked(item) \/ Validate(table))
      BY <1>3, <2>1, <2>2, Zenon DEF TablesFit
    <2>5. \A table \in Checked(item) : Validate(table)
      BY <1>1, <1>2, Zenon DEF CheckedAt, Underway
    <2>6. \A table \in TablesIn(f) : table \in Tables /\ Validate(table)
      BY <2>4, <2>5, Zenon
    <2> HIDE DEF f
    <2>7. Fine(writeFrame(f))
      BY <2>3, <2>4, <2>6, PayloadFine, Zenon
    <2> QED BY <2>7, Zenon DEF Fine
  <1> HIDE DEF e, o
  <1>5. CASE c # x
    <2>1. result'[c] = result[c] /\ out'[c] = out[c]
      BY <1>2, <1>3, <1>5, Zenon
    <2> QED BY <1>1, <1>2, <2>1, CheckedKeeps, Zenon
  <1>6. CASE c = x /\ e # "nil"
    <2>1. result'[c] = Append(result[c], e) /\ out'[c] = <<>>
      BY <1>2, <1>3, <1>6, Zenon
    <2> QED BY <1>1, <1>3, <1>4, <1>6, <2>1, CheckedOver
  <1>7. CASE c = x /\ e = "nil" /\ o = 1
    <2>1. result'[c] = Append(result[c], "nil") /\ out'[c] = Tail(out[c])
      BY <1>2, <1>3, <1>7, Zenon
    <2>2. out'[c] = <<>>
      BY <1>2, <1>7, <2>1, WriterHead, Zenon DEF o
    <2>3. "nil" # "ErrFieldType"
      OBVIOUS
    <2> QED BY <1>1, <1>3, <1>7, <2>1, <2>2, <2>3, CheckedOver
  <1>8. CASE c = x /\ e = "nil" /\ o # 1
    <2>1. result'[c] = result[c] /\ out'[c] = Tail(out[c]) /\ out[c] # <<>>
      BY <1>2, <1>3, <1>8, Zenon
    <2> QED BY <1>1, <1>2, <2>1, CheckedKeeps, Zenon
  <1> QED BY <1>5, <1>6, <1>7, <1>8, Zenon

LEMMA CheckedNext ==
  ASSUME TablesFit, WriterOK, CheckedOK, [Next]_vars
  PROVE  CheckedOK'
  <1>1. ASSUME script' = script, out' = out, result' = result PROVE CheckedOK'
    BY <1>1, Zenon DEF CheckedOK, CheckedAt, Underway
  <1>2. CASE Heartbeat
    BY <1>1, <1>2, Zenon DEF Heartbeat
  <1>3. CASE Cut
    BY <1>1, <1>3 DEF Cut, wVars
  <1>4. CASE reader
    BY <1>1, <1>4 DEF reader, wVars
  <1>5. CASE UNCHANGED vars
    BY <1>1, <1>5 DEF vars, wVars
  <1>6. ASSUME NEW c \in Lines, Send(c) \/ WriteFrame(c) PROVE CheckedOK'
    BY <1>6, CheckedSend, CheckedWrites, Zenon
  <1> QED BY <1>2, <1>3, <1>4, <1>5, <1>6, Zenon DEF Next

\* Whatever is sent, in however deep tables unsupported types are: they are found before the
\* first frame is written, never when a part of a publishing is on the wire
\* (PublishWithDeferredConfirm and the other functions with a table, Table.Validate, writeField);
\* supposed is that the tables which no function checks have none.
THEOREM NothingHalfPublished ==
  ASSUME TablesFit
  PROVE  Spec => []NoHalfPublishing
  <1>1. Init => WriterOK /\ CheckedOK
    BY WriterInit, CheckedInit
  <1>2. WriterOK /\ CheckedOK /\ [Next]_vars => WriterOK' /\ CheckedOK'
    BY WriterNext, CheckedNext
  <1>3. WriterOK /\ CheckedOK => NoHalfPublishing
    <2> SUFFICES ASSUME WriterOK, CheckedOK, NEW c \in Lines, NEW i \in DOMAIN result[c]
                 PROVE  result[c][i] # "ErrFieldType"
      BY Zenon DEF NoHalfPublishing
    <2> DEFINE r == result[c]
    <2>1. r \in Seq(Range(r))
      BY Zenon DEF WriterOK, WriterAt
    <2>2. DOMAIN r = 1 .. Len(r)
      <3> HIDE DEF r
      <3> QED BY <2>1
    <2> QED BY <2>2, Zenon DEF CheckedOK, CheckedAt
  <1> QED BY <1>1, <1>2, <1>3, PTL DEF Spec

=============================================================================
