---------------------------- MODULE PayloadProofs ----------------------------
(***************************************************************************)
(* Theorems about DdsPayload, for every object of every type: what is      *)
(* written stays in what was reserved for it, its size is what was         *)
(* announced, and it is read as it was meant.                              *)
(***************************************************************************)
EXTENDS DdsPayload, SequenceTheorems, FiniteSetTheorems, WellFoundedInduction, TLAPS

-----------------------------------------------------------------------------
\* Induction over the numbers up to N, for a set that holds them.

LEMMA UpToN ==
  ASSUME NEW N \in Nat, NEW S, 0 \in S, \A n \in 1 .. N : n - 1 \in S => n \in S
  PROVE  0 .. N \subseteq S
<1> DEFINE T == {n \in 0 .. N : n \notin S}
<1> SUFFICES ASSUME T # {} PROVE FALSE
  OBVIOUS
<1>1. T \subseteq Nat
  OBVIOUS
<1>2. PICK m \in T : \A k \in T : <<k, m>> \notin OpToRel(<, Nat)
  <2> HIDE DEF T
  <2> QED
    BY <1>1, WFMin, NatLessThanWellFounded, Zenon
<1>3. m \in Nat /\ m # 0 /\ m \in 1 .. N /\ m \notin S
  <2>1. m \in 0 .. N /\ m \notin S
    OBVIOUS
  <2> QED
    BY <2>1
<1>4. m - 1 \in 0 .. N /\ m - 1 < m
  BY <1>3
<1>5. m - 1 \in T
  BY <1>3, <1>4
<1>6. <<m - 1, m>> \in OpToRel(<, Nat)
  BY <1>3, <1>4 DEF OpToRel
<1> QED
  BY <1>2, <1>5, <1>6

\* Two functions that take the same steps are the same.
LEMMA SameSteps ==
  ASSUME NEW N \in Nat, NEW f, NEW g, f[0] = g[0],
         \A n \in 1 .. N : f[n - 1] = g[n - 1] => f[n] = g[n]
  PROVE  \A n \in 0 .. N : f[n] = g[n]
<1> DEFINE S == {n \in 0 .. N : f[n] = g[n]}
<1>1. 0 \in S
  OBVIOUS
<1>2. \A n \in 1 .. N : n - 1 \in S => n \in S
  OBVIOUS
<1>3. 0 .. N \subseteq S
  <2> HIDE DEF S
  <2> QED
    BY <1>1, <1>2, UpToN
<1> QED
  BY <1>3

-----------------------------------------------------------------------------
\* Sums.

\* Sizes of a number of things.
Sizes == Seq(Nat)

IsSum(f, sizes) ==
  f = [n \in 0 .. Len(sizes) |-> IF n = 0 THEN 0 ELSE f[n - 1] + sizes[n]]

\* There is a sum of any number of them.
LEMMA SumExists ==
  ASSUME NEW sizes \in Sizes
  PROVE  \E f \in [0 .. Len(sizes) -> Nat] : IsSum(f, sizes)
<1> DEFINE N == Len(sizes)
           Sum(f, n) == /\ f \in [0 .. N -> Nat]
                        /\ f[0] = 0
                        /\ \A k \in 1 .. n : f[k] = f[k - 1] + sizes[k]
           S == {n \in 0 .. N : \E f : Sum(f, n)}
<1>1. N \in Nat /\ \A n \in 1 .. N : sizes[n] \in Nat
  BY LenProperties, ElementOfSeq DEF Sizes
<1>2. 0 \in S
  <2>1. Sum([n \in 0 .. N |-> 0], 0)
    BY <1>1
  <2> HIDE DEF Sum
  <2> QED
    BY <1>1, <2>1
<1>3. ASSUME NEW n \in 1 .. N, n - 1 \in S PROVE n \in S
  <2>1. PICK f : Sum(f, n - 1)
    BY <1>3
  <2> DEFINE g == [k \in 0 .. N |-> IF k = n THEN f[n - 1] + sizes[n] ELSE f[k]]
  <2>2. g \in [0 .. N -> Nat] /\ g[0] = 0
    <3>1. f \in [0 .. N -> Nat] /\ f[0] = 0 /\ n - 1 \in 0 .. N /\ n # 0 /\ 0 \in 0 .. N
      BY <1>1, <2>1
    <3>2. f[n - 1] + sizes[n] \in Nat
      BY <1>1, <3>1
    <3> QED
      BY <3>1, <3>2
  <2>3. ASSUME NEW k \in 1 .. n PROVE g[k] = g[k - 1] + sizes[k]
    <3>1. CASE k = n
      BY <1>1, <3>1
    <3>2. CASE k # n
      <4>1. k \in 1 .. (n - 1) /\ k - 1 # n /\ k \in 0 .. N /\ k - 1 \in 0 .. N
        BY <1>1, <3>2
      <4>2. g[k] = f[k] /\ g[k - 1] = f[k - 1]
        BY <3>2, <4>1
      <4> QED
        BY <2>1, <4>1, <4>2
    <3> QED
      BY <3>1, <3>2
  <2>4. Sum(g, n)
    BY <2>2, <2>3
  <2> HIDE DEF Sum, g
  <2> QED
    BY <2>4
<1>4. 0 .. N \subseteq S
  <2> HIDE DEF S, N
  <2> QED
    BY <1>1, <1>2, <1>3, UpToN
<1>5. PICK f : Sum(f, N)
  <2> HIDE DEF Sum
  <2>1. N \in S
    <3> HIDE DEF S
    <3> QED
      BY <1>1, <1>4
  <2> QED
    BY <2>1
<1>6. f = [n \in 0 .. N |-> IF n = 0 THEN 0 ELSE f[n - 1] + sizes[n]]
  <2> DEFINE g == [n \in 0 .. N |-> IF n = 0 THEN 0 ELSE f[n - 1] + sizes[n]]
  <2>1. \A n \in 0 .. N : f[n] = g[n]
    BY <1>1, <1>5
  <2> QED
    BY <1>5, <2>1
<1> QED
  BY <1>5, <1>6 DEF IsSum

\* UpTo is it.
LEMMA UpToIsSum ==
  ASSUME NEW sizes \in Sizes
  PROVE  /\ Hello!UpTo(sizes) \in [0 .. Len(sizes) -> Nat]
         /\ Hello!UpTo(sizes)[0] = 0
         /\ \A n \in 1 .. Len(sizes) :
              Hello!UpTo(sizes)[n] = Hello!UpTo(sizes)[n - 1] + sizes[n]
<1> DEFINE N == Len(sizes)
           u == Hello!UpTo(sizes)
<1>1. PICK f \in [0 .. N -> Nat] : IsSum(f, sizes)
  BY SumExists
<1>2. u = CHOOSE g : IsSum(g, sizes)
  BY DEF Hello!UpTo, IsSum
<1>3. IsSum(u, sizes)
  <2> HIDE DEF u
  <2> QED
    BY <1>1, <1>2
<1>4. N \in Nat /\ \A n \in 1 .. N : sizes[n] \in Nat
  BY LenProperties, ElementOfSeq DEF Sizes
<1> HIDE DEF u
<1>5. u = [n \in 0 .. N |-> IF n = 0 THEN 0 ELSE u[n - 1] + sizes[n]]
  BY <1>3 DEF IsSum
<1>6. u[0] = 0 /\ \A n \in 1 .. N : u[n] = u[n - 1] + sizes[n]
  BY <1>4, <1>5
<1> DEFINE S == {n \in 0 .. N : u[n] \in Nat}
<1>7. 0 .. N \subseteq S
  <2>1. 0 \in S
    BY <1>4, <1>6
  <2>2. \A n \in 1 .. N : n - 1 \in S => n \in S
    BY <1>4, <1>6
  <2> HIDE DEF S, N
  <2> QED
    BY <1>4, <2>1, <2>2, UpToN
<1>8. u \in [0 .. N -> Nat]
  <2>1. DOMAIN u = 0 .. N /\ u = [n \in 0 .. N |-> u[n]]
    BY <1>5
  <2> QED
    BY <1>7, <2>1
<1> QED
  BY <1>6, <1>8 DEF u

\* What adds the same is the same.
LEMMA UpToIs ==
  ASSUME NEW sizes \in Sizes, NEW f, f[0] = 0,
         \A n \in 1 .. Len(sizes) : f[n] = f[n - 1] + sizes[n]
  PROVE  \A n \in 0 .. Len(sizes) : Hello!UpTo(sizes)[n] = f[n]
<1>1. Len(sizes) \in Nat
  BY LenProperties DEF Sizes
<1> DEFINE u == Hello!UpTo(sizes)
<1>2. u[0] = f[0] /\ \A n \in 1 .. Len(sizes) : u[n - 1] = f[n - 1] => u[n] = f[n]
  BY UpToIsSum
<1> HIDE DEF u
<1>3. \A n \in 0 .. Len(sizes) : u[n] = f[n]
  <2> DEFINE N == Len(sizes)
  <2>1. N \in Nat /\ u[0] = f[0] /\ \A n \in 1 .. N : u[n - 1] = f[n - 1] => u[n] = f[n]
    BY <1>1, <1>2
  <2> HIDE DEF N
  <2>2. \A n \in 0 .. N : u[n] = f[n]
    BY ONLY <2>1, SameSteps
  <2> QED
    BY <2>2 DEF N
<1> QED
  BY <1>3 DEF u

\* Of sizes that are not 0 only all of them together are as much as all.
LEMMA UpToGrows ==
  ASSUME NEW sizes \in Sizes, \A n \in 1 .. Len(sizes) : sizes[n] > 0
  PROVE  \A n \in 0 .. Len(sizes) :
           Hello!UpTo(sizes)[n] = Hello!UpTo(sizes)[Len(sizes)] => n = Len(sizes)
<1> DEFINE N == Len(sizes)
           u == Hello!UpTo(sizes)
           T == {n \in 0 .. N : \A k \in 0 .. n : u[k] + (n - k) <= u[n]}
<1>1. N \in Nat /\ \A n \in 1 .. N : sizes[n] \in Nat
  BY LenProperties, ElementOfSeq DEF Sizes
<1>2. u \in [0 .. N -> Nat] /\ \A n \in 1 .. N : u[n] = u[n - 1] + sizes[n]
  BY UpToIsSum
<1> HIDE DEF u
<1>3. 0 \in T
  BY <1>1, <1>2
<1>4. ASSUME NEW n \in 1 .. N, n - 1 \in T PROVE n \in T
  <2>1. ASSUME NEW k \in 0 .. n PROVE u[k] + (n - k) <= u[n]
    <3>1. u[n] = u[n - 1] + sizes[n] /\ sizes[n] > 0 /\ sizes[n] \in Nat
          /\ u[n] \in Nat /\ u[n - 1] \in Nat /\ u[k] \in Nat
      <4>1. n \in 0 .. N /\ n - 1 \in 0 .. N /\ k \in 0 .. N
        BY <1>1
      <4> QED
        BY <1>1, <1>2, <4>1
    <3>2. CASE k = n
      BY <3>1, <3>2
    <3>3. CASE k # n
      <4>1. k \in 0 .. (n - 1)
        BY <1>1, <3>3
      <4>2. u[k] + ((n - 1) - k) <= u[n - 1]
        BY <1>4, <4>1
      <4> QED
        BY <3>1, <4>1, <4>2
    <3> QED
      BY <3>2, <3>3
  <2> QED
    BY <2>1, <1>1
<1>5. 0 .. N \subseteq T
  <2> HIDE DEF T, N
  <2> QED
    BY <1>1, <1>3, <1>4, UpToN
<1>6. ASSUME NEW n \in 0 .. N, u[n] = u[N] PROVE n = N
  <2>1. N \in T
    BY <1>1, <1>5
  <2>2. u[n] + (N - n) <= u[N] /\ u[n] \in Nat
    BY <1>2, <2>1
  <2> QED
    BY <1>1, <1>6, <2>2
<1> QED
  BY <1>6 DEF u

-----------------------------------------------------------------------------
\* Fields on the wire.

Field ==
  Hello!Scalar
    \cup [number : 1 .. 15, kind : {"message"}, value : Seq(Hello!Scalar)]

\* Their bytes together.
WireSize(fields) == Hello!UpTo(Hello!FieldSizes(fields))[Len(fields)]

\* Both messages use one library.
LEMMA OneLibrary ==
  /\ \A x : Discovery!UpTo(x) = Hello!UpTo(x)
  /\ \A x : Discovery!VarintSize(x) = Hello!VarintSize(x)
  /\ \A x : Discovery!StringSize(x) = Hello!StringSize(x)
  /\ \A x : Discovery!MessageSize(x) = Hello!MessageSize(x)
  /\ \A x : Discovery!ScalarsSize(x) = Hello!ScalarsSize(x)
  /\ \A x : Discovery!Unknown(x) = Hello!Unknown(x)
  /\ \A x, y : Discovery!FieldsRead(x, y) = Hello!FieldsRead(x, y)
  /\ \A x, y : Discovery!VarintField(x, y) = Hello!VarintField(x, y)
  /\ \A x, y : Discovery!TextField(x, y) = Hello!TextField(x, y)
<1>1. \A x : Discovery!UpTo(x) = Hello!UpTo(x)
  BY DEF Discovery!UpTo, Hello!UpTo
<1>2. /\ \A x : Discovery!VarintSize(x) = Hello!VarintSize(x)
      /\ \A x : Discovery!StringSize(x) = Hello!StringSize(x)
      /\ \A x : Discovery!MessageSize(x) = Hello!MessageSize(x)
  <2>1. \A x : Discovery!VarintSize(x) = Hello!VarintSize(x)
    BY DEF Discovery!VarintSize, Hello!VarintSize, Discovery!Cardinality, Hello!Cardinality
  <2> QED
    BY <2>1 DEF Discovery!StringSize, Hello!StringSize, Discovery!MessageSize,
                Hello!MessageSize
<1>3. \A x : Discovery!ScalarSize(x) = Hello!ScalarSize(x)
  BY <1>2 DEF Discovery!ScalarSize, Hello!ScalarSize
<1>4. \A x : Discovery!ScalarSizes(x) = Hello!ScalarSizes(x)
  BY <1>3 DEF Discovery!ScalarSizes, Hello!ScalarSizes
<1>5. \A x : Discovery!ScalarsSize(x) = Hello!ScalarsSize(x)
  BY <1>1, <1>4 DEF Discovery!ScalarsSize, Hello!ScalarsSize
<1>6. \A x : Discovery!FieldSize(x) = Hello!FieldSize(x)
  BY <1>2, <1>3, <1>5 DEF Discovery!FieldSize, Hello!FieldSize
<1>7. \A x : Discovery!FieldSizes(x) = Hello!FieldSizes(x)
  BY <1>6 DEF Discovery!FieldSizes, Hello!FieldSizes
<1>8. \A x, y : Discovery!FieldsWithin(x, y) = Hello!FieldsWithin(x, y)
  BY <1>1, <1>7 DEF Discovery!FieldsWithin, Hello!FieldsWithin
<1>9. \A x, y : Discovery!FieldsRead(x, y) = Hello!FieldsRead(x, y)
  BY <1>8 DEF Discovery!FieldsRead, Hello!FieldsRead
<1>10. \A x : Discovery!Unknown(x) = Hello!Unknown(x)
  BY DEF Discovery!Unknown, Hello!Unknown, Discovery!Scalar, Hello!Scalar
<1>11. /\ \A x, y : Discovery!VarintField(x, y) = Hello!VarintField(x, y)
       /\ \A x, y : Discovery!TextField(x, y) = Hello!TextField(x, y)
  BY DEF Discovery!VarintField, Hello!VarintField, Discovery!TextField, Hello!TextField
<1> QED
  BY <1>1, <1>2, <1>5, <1>9, <1>10, <1>11

\* A number takes one byte at least.
LEMMA VarintSizeType ==
  ASSUME NEW n
  PROVE  Hello!VarintSize(n) \in 1 .. 10
<1> DEFINE K == {k \in 1 .. 4 : n >= 128 ^ k}
<1>1. IsFiniteSet(1 .. 4) /\ Cardinality(1 .. 4) = 4
  <2>1. 4 \in Int /\ 1 \in Int /\ ~ (1 > 4) /\ 4 - 1 + 1 = 4
    OBVIOUS
  <2> QED
    BY <2>1, FS_Interval
<1>2. K \in SUBSET (1 .. 4)
  OBVIOUS
<1>3. Hello!VarintSize(n) = 10 \/ Hello!VarintSize(n) = 1 + Cardinality(K)
  BY DEF Hello!VarintSize, Hello!Cardinality, Cardinality
<1> HIDE DEF K
<1>4. Cardinality(K) \in Nat /\ Cardinality(K) <= 4
  BY <1>1, <1>2, FS_Subset, FS_CardinalityType
<1> QED
  BY <1>3, <1>4

LEMMA StringSizeType ==
  ASSUME NEW t \in Text
  PROVE  Hello!StringSize(t) \in Nat
BY VarintSizeType, TextAssumption DEF TextAssumption, Hello!StringSize

LEMMA ScalarSizeType ==
  ASSUME NEW f \in Hello!Scalar
  PROVE  Hello!ScalarSize(f) \in Nat /\ Hello!ScalarSize(f) > 0
<1>1. CASE f.kind = "varint"
  BY <1>1, VarintSizeType DEF Hello!ScalarSize
<1>2. CASE f.kind # "varint"
  BY <1>2, StringSizeType DEF Hello!ScalarSize, Hello!Scalar
<1> QED
  BY <1>1, <1>2

LEMMA ScalarSizesType ==
  ASSUME NEW fields \in Seq(Hello!Scalar)
  PROVE  /\ Hello!ScalarSizes(fields) \in Sizes
         /\ Len(Hello!ScalarSizes(fields)) = Len(fields)
         /\ Hello!ScalarsSize(fields) \in Nat
<1>1. Len(fields) \in Nat /\ \A i \in 1 .. Len(fields) : fields[i] \in Hello!Scalar
  BY LenProperties, ElementOfSeq
<1>2. Hello!ScalarSizes(fields) \in [1 .. Len(fields) -> Nat]
  BY <1>1, ScalarSizeType DEF Hello!ScalarSizes
<1>3. Hello!ScalarSizes(fields) \in Sizes /\ Len(Hello!ScalarSizes(fields)) = Len(fields)
  BY <1>1, <1>2 DEF Sizes
<1> QED
  BY <1>1, <1>3, UpToIsSum DEF Hello!ScalarsSize

LEMMA FieldSizeType ==
  ASSUME NEW f \in Field
  PROVE  Hello!FieldSize(f) \in Nat /\ Hello!FieldSize(f) > 0
<1>1. CASE f.kind = "message"
  <2>1. f.value \in Seq(Hello!Scalar)
    BY <1>1 DEF Field, Hello!Scalar
  <2>2. Hello!ScalarsSize(f.value) \in Nat
    BY <2>1, ScalarSizesType
  <2> QED
    BY <1>1, <2>2, VarintSizeType DEF Hello!FieldSize, Hello!MessageSize
<1>2. CASE f.kind # "message"
  BY <1>2, ScalarSizeType DEF Hello!FieldSize, Field
<1> QED
  BY <1>1, <1>2

LEMMA FieldSizesType ==
  ASSUME NEW fields \in Seq(Field)
  PROVE  /\ Hello!FieldSizes(fields) \in Sizes
         /\ Len(Hello!FieldSizes(fields)) = Len(fields)
         /\ Len(fields) \in Nat
         /\ \A i \in 1 .. Len(fields) :
              /\ Hello!FieldSizes(fields)[i] = Hello!FieldSize(fields[i])
              /\ Hello!FieldSizes(fields)[i] > 0
<1>1. Len(fields) \in Nat /\ \A i \in 1 .. Len(fields) : fields[i] \in Field
  BY LenProperties, ElementOfSeq
<1>2. /\ Hello!FieldSizes(fields) \in [1 .. Len(fields) -> Nat]
      /\ \A i \in 1 .. Len(fields) :
              /\ Hello!FieldSizes(fields)[i] = Hello!FieldSize(fields[i])
              /\ Hello!FieldSizes(fields)[i] > 0
  BY <1>1, FieldSizeType DEF Hello!FieldSizes
<1>3. Hello!FieldSizes(fields) \in Sizes /\ Len(Hello!FieldSizes(fields)) = Len(fields)
  BY <1>1, <1>2 DEF Sizes
<1> QED
  BY <1>1, <1>2, <1>3

(***************************************************************************)
(* With the bytes of all its fields a message is read to its end: sizes    *)
(* are not 0, so no fewer fields have as many.                             *)
(***************************************************************************)
LEMMA AllIsRead ==
  ASSUME NEW fields \in Seq(Field)
  PROVE  /\ Hello!CanParse(fields, WireSize(fields))
         /\ Hello!FieldsRead(fields, WireSize(fields)) = fields
<1> DEFINE sizes == Hello!FieldSizes(fields)
           W == Hello!FieldsWithin(fields, WireSize(fields))
<1>1. sizes \in Sizes /\ Len(sizes) = Len(fields) /\ Len(fields) \in Nat
      /\ \A i \in 1 .. Len(fields) : sizes[i] > 0
  BY FieldSizesType
<1>2. \A n \in 0 .. Len(fields) :
        Hello!UpTo(sizes)[n] = Hello!UpTo(sizes)[Len(fields)] => n = Len(fields)
  <2> HIDE DEF sizes
  <2> QED
    BY <1>1, UpToGrows
<1>3. W = {Len(fields)}
  BY <1>1, <1>2 DEF WireSize, Hello!FieldsWithin
<1>4. SubSeq(fields, 1, Len(fields)) = fields
  BY SubSeqFull
<1> QED
  BY <1>3, <1>4 DEF Hello!CanParse, Hello!FieldsRead

LEMMA WireSizeOfNone == WireSize(<<>>) = 0
<1>1. <<>> \in Seq(Field) /\ Len(<<>>) = 0
  BY EmptySeq
<1>2. Hello!FieldSizes(<<>>) \in Sizes
  BY <1>1, FieldSizesType
<1> QED
  BY <1>1, <1>2, UpToIsSum DEF WireSize

LEMMA WireSizeOfOne ==
  ASSUME NEW f \in Field
  PROVE  WireSize(<<f>>) = Hello!FieldSize(f)
<1> DEFINE s == <<f>>
           sizes == Hello!FieldSizes(s)
<1>1. s \in Seq(Field) /\ Len(s) = 1 /\ s[1] = f
  OBVIOUS
<1> HIDE DEF s
<1>2. sizes \in Sizes /\ Len(sizes) = 1 /\ sizes[1] = Hello!FieldSize(f)
  <2>1. 1 \in 1 .. Len(s)
    BY <1>1
  <2> QED
    BY <1>1, <2>1, FieldSizesType
<1>3. Hello!UpTo(sizes)[0] = 0 /\ Hello!UpTo(sizes)[1] = Hello!UpTo(sizes)[0] + sizes[1]
  <2> HIDE DEF sizes
  <2>1. /\ Hello!UpTo(sizes)[0] = 0
        /\ \A n \in 1 .. 1 : Hello!UpTo(sizes)[n] = Hello!UpTo(sizes)[n - 1] + sizes[n]
    BY <1>2, UpToIsSum
  <2>2. 1 \in 1 .. 1 /\ 1 - 1 = 0
    OBVIOUS
  <2> QED
    BY <2>1, <2>2
<1>4. Hello!FieldSize(f) \in Nat
  BY FieldSizeType
<1> QED
  BY <1>1, <1>2, <1>3, <1>4 DEF WireSize, s

LEMMA WireSizeOfBoth ==
  ASSUME NEW s \in Seq(Field), NEW t \in Seq(Field)
  PROVE  WireSize(s \o t) = WireSize(s) + WireSize(t)
<1> DEFINE a == Hello!UpTo(Hello!FieldSizes(s))
           b == Hello!UpTo(Hello!FieldSizes(t))
           sizes == Hello!FieldSizes(s \o t)
           f == [n \in 0 .. (Len(s) + Len(t)) |->
                   IF n <= Len(s) THEN a[n] ELSE a[Len(s)] + b[n - Len(s)]]
<1>1. /\ s \o t \in Seq(Field) /\ Len(s \o t) = Len(s) + Len(t)
      /\ \A i \in 1 .. Len(s) + Len(t) :
           (s \o t)[i] = IF i <= Len(s) THEN s[i] ELSE t[i - Len(s)]
      /\ Len(s) \in Nat /\ Len(t) \in Nat
  BY ConcatProperties, LenProperties
<1>2. sizes \in Sizes /\ Len(sizes) = Len(s) + Len(t)
      /\ \A i \in 1 .. Len(s) + Len(t) : sizes[i] = Hello!FieldSize((s \o t)[i])
  BY <1>1, FieldSizesType
<1>3. /\ a \in [0 .. Len(s) -> Nat] /\ a[0] = 0
      /\ \A n \in 1 .. Len(s) : a[n] = a[n - 1] + Hello!FieldSize(s[n])
  BY FieldSizesType, UpToIsSum
<1>4. /\ b \in [0 .. Len(t) -> Nat] /\ b[0] = 0
      /\ \A n \in 1 .. Len(t) : b[n] = b[n - 1] + Hello!FieldSize(t[n])
  BY FieldSizesType, UpToIsSum
<1> HIDE DEF a, b, sizes
<1>5. f[0] = 0
  BY <1>1, <1>3
<1>6. ASSUME NEW n \in 1 .. (Len(s) + Len(t)) PROVE f[n] = f[n - 1] + sizes[n]
  <2>1. n \in 0 .. (Len(s) + Len(t)) /\ n - 1 \in 0 .. (Len(s) + Len(t))
    BY <1>1
  <2>2. CASE n <= Len(s)
    <3>1. sizes[n] = Hello!FieldSize(s[n]) /\ n \in 1 .. Len(s)
      BY <1>1, <1>2, <2>2
    <3>2. f[n] = a[n] /\ f[n - 1] = a[n - 1]
      BY <1>1, <2>1, <2>2
    <3> QED
      BY <1>3, <3>1, <3>2
  <2>3. CASE n > Len(s)
    <3> DEFINE k == n - Len(s)
    <3>1. sizes[n] = Hello!FieldSize(t[k]) /\ k \in 1 .. Len(t)
      BY <1>1, <1>2, <2>3
    <3>2. f[n] = a[Len(s)] + b[k]
      BY <1>1, <2>1, <2>3
    <3>3. f[n - 1] = a[Len(s)] + b[k - 1]
      <4>1. CASE n - 1 = Len(s)
        <5>1. f[n - 1] = a[Len(s)] /\ k - 1 = 0 /\ a[Len(s)] \in Nat
          BY <1>1, <1>3, <2>1, <4>1
        <5> QED
          BY <1>4, <5>1
      <4>2. CASE n - 1 > Len(s)
        BY <1>1, <2>1, <4>2
      <4> QED
        BY <1>1, <2>3, <4>1, <4>2
    <3>4. b[k] = b[k - 1] + sizes[n] /\ b[k] \in Nat /\ b[k - 1] \in Nat
          /\ a[Len(s)] \in Nat
      <4>1. k - 1 \in 0 .. Len(t) /\ k \in 0 .. Len(t) /\ Len(s) \in 0 .. Len(s)
        BY <1>1, <3>1
      <4> QED
        BY <1>3, <1>4, <3>1, <4>1
    <3> HIDE DEF k
    <3>5. sizes[n] \in Nat
      BY <1>2, ElementOfSeq DEF Sizes
    <3> QED
      BY <3>2, <3>3, <3>4, <3>5
  <2> QED
    BY <1>1, <2>2, <2>3
<1>7. Hello!UpTo(sizes)[Len(s) + Len(t)] = f[Len(s) + Len(t)]
  <2> HIDE DEF f
  <2>1. \A n \in 0 .. Len(sizes) : Hello!UpTo(sizes)[n] = f[n]
    BY <1>2, <1>5, <1>6, UpToIs
  <2> QED
    BY <1>1, <1>2, <2>1
<1>8. f[Len(s) + Len(t)] = a[Len(s)] + b[Len(t)]
  <2>1. CASE Len(t) = 0
    BY <1>1, <1>3, <1>4, <2>1
  <2>2. CASE Len(t) # 0
    BY <1>1, <2>2
  <2> QED
    BY <2>1, <2>2
<1> QED
  BY <1>1, <1>7, <1>8 DEF WireSize, a, b, sizes

-----------------------------------------------------------------------------
\* ByteSizeLong is the size of what is serialized.

LEMMA NumberOnTheWire ==
  ASSUME NEW number \in 1 .. 15, NEW n \in Int
  PROVE  /\ Hello!VarintField(number, n) \in Seq(Hello!Scalar)
         /\ WireSize(Hello!VarintField(number, n))
              = Hello!NonDefault(1 + Hello!VarintSize(n), n, 0)
<1> DEFINE f == [number |-> number, kind |-> "varint", value |-> n]
<1>1. f \in Hello!Scalar /\ f \in Field /\ f.kind = "varint" /\ f.value = n
  BY DEF Hello!Scalar, Field
<1>2. Hello!FieldSize(f) = 1 + Hello!VarintSize(n)
  BY DEF Hello!FieldSize, Hello!ScalarSize
<1> HIDE DEF f
<1>3. CASE n = 0
  BY <1>3, WireSizeOfNone, EmptySeq DEF Hello!VarintField, Hello!NonDefault
<1>4. CASE n # 0
  <2>1. Hello!VarintField(number, n) = <<f>>
    BY <1>4 DEF Hello!VarintField, f
  <2>2. WireSize(<<f>>) = 1 + Hello!VarintSize(n) /\ <<f>> \in Seq(Hello!Scalar)
    BY <1>1, <1>2, WireSizeOfOne
  <2> QED
    BY <1>4, <2>1, <2>2 DEF Hello!NonDefault
<1> QED
  BY <1>3, <1>4

LEMMA TextOnTheWire ==
  ASSUME NEW number \in 1 .. 15, NEW t \in Text
  PROVE  /\ Hello!TextField(number, t) \in Seq(Hello!Scalar)
         /\ WireSize(Hello!TextField(number, t))
              = Hello!NonDefault(1 + Hello!StringSize(t), t, EmptyText)
<1> DEFINE f == [number |-> number, kind |-> "text", value |-> t]
<1>1. f \in Hello!Scalar /\ f \in Field /\ f.kind = "text" /\ f.value = t
  BY DEF Hello!Scalar, Field
<1>2. Hello!FieldSize(f) = 1 + Hello!StringSize(t)
  BY DEF Hello!FieldSize, Hello!ScalarSize
<1> HIDE DEF f
<1>3. CASE t = EmptyText
  BY <1>3, WireSizeOfNone, EmptySeq DEF Hello!TextField, Hello!NonDefault
<1>4. CASE t # EmptyText
  <2>1. Hello!TextField(number, t) = <<f>>
    BY <1>4 DEF Hello!TextField, f
  <2>2. WireSize(<<f>>) = 1 + Hello!StringSize(t) /\ <<f>> \in Seq(Hello!Scalar)
    BY <1>1, <1>2, WireSizeOfOne
  <2> QED
    BY <1>4, <2>1, <2>2 DEF Hello!NonDefault
<1> QED
  BY <1>3, <1>4

\* Scalars are counted alike, as fields of a message and inside of one.
LEMMA ScalarsOnTheWire ==
  ASSUME NEW u \in Seq(Hello!Scalar)
  PROVE  /\ u \in Seq(Field)
         /\ WireSize(u) = Hello!ScalarsSize(u)
         /\ WireSize(u) \in Nat
<1>1. u \in Seq(Field)
  <2>1. Hello!Scalar \subseteq Field
    BY DEF Field
  <2> QED
    BY <2>1, SeqMonotonic
<1>2. \A i \in 1 .. Len(u) : u[i] \in Hello!Scalar
  BY ElementOfSeq
<1>3. \A i \in 1 .. Len(u) : Hello!FieldSize(u[i]) = Hello!ScalarSize(u[i])
  BY <1>2 DEF Hello!FieldSize, Hello!Scalar
<1>4. Hello!FieldSizes(u) = Hello!ScalarSizes(u)
  BY <1>3 DEF Hello!FieldSizes, Hello!ScalarSizes
<1>5. WireSize(u) = Hello!ScalarsSize(u)
  BY <1>4 DEF WireSize, Hello!ScalarsSize
<1> QED
  BY <1>1, <1>5, ScalarSizesType

LEMMA UnknownOnTheWire ==
  ASSUME NEW known, NEW u \in Hello!Unknown(known)
  PROVE  u \in Seq(Hello!Scalar)
<1>1. {f \in Hello!Scalar : f.number \notin known} \subseteq Hello!Scalar
  OBVIOUS
<1> QED
  BY <1>1, SeqMonotonic DEF Hello!Unknown

LEMMA ScalarsTogether ==
  ASSUME NEW s \in Seq(Hello!Scalar), NEW t \in Seq(Hello!Scalar)
  PROVE  s \o t \in Seq(Hello!Scalar) /\ WireSize(s \o t) = WireSize(s) + WireSize(t)
<1>1. s \o t \in Seq(Hello!Scalar)
  BY ConcatProperties
<1>2. s \in Seq(Field) /\ t \in Seq(Field)
  BY ScalarsOnTheWire
<1>3. WireSize(s \o t) = WireSize(s) + WireSize(t)
  BY <1>2, WireSizeOfBoth
<1> QED
  BY <1>1, <1>3

LEMMA HelloSize ==
  ASSUME NEW m \in Hello!Message
  PROVE  /\ Hello!Serialize(m) \in Seq(Hello!Scalar)
         /\ Hello!ByteSizeLong(m) = WireSize(Hello!Serialize(m))
<1> DEFINE A == Hello!VarintField(1, m.index)
           B == Hello!TextField(2, m.message)
           U == m.unknown
<1>1. m.index \in Int /\ m.message \in Text /\ U \in Seq(Hello!Scalar)
  BY UnknownOnTheWire DEF Hello!Message
<1>2. A \in Seq(Hello!Scalar) /\ B \in Seq(Hello!Scalar)
      /\ WireSize(A) = Hello!NonDefault(1 + Hello!VarintSize(m.index), m.index, 0)
      /\ WireSize(B) = Hello!NonDefault(1 + Hello!StringSize(m.message), m.message, EmptyText)
  <2>1. 1 \in 1 .. 15 /\ 2 \in 1 .. 15
    OBVIOUS
  <2> QED
    BY <1>1, <2>1, NumberOnTheWire, TextOnTheWire
<1>3. Hello!Serialize(m) = (A \o B) \o U
  BY DEF Hello!Serialize
<1>4. WireSize(U) = Hello!ScalarsSize(U)
  BY <1>1, ScalarsOnTheWire
<1>5. WireSize(A) \in Nat /\ WireSize(B) \in Nat /\ WireSize(U) \in Nat
  BY <1>1, <1>2, ScalarsOnTheWire
<1> HIDE DEF A, B
<1>6. A \o B \in Seq(Hello!Scalar) /\ WireSize(A \o B) = WireSize(A) + WireSize(B)
  BY <1>2, ScalarsTogether
<1>7. /\ (A \o B) \o U \in Seq(Hello!Scalar)
      /\ WireSize((A \o B) \o U) = WireSize(A) + WireSize(B) + WireSize(U)
  BY <1>1, <1>6, ScalarsTogether
<1>8. Hello!ByteSizeLong(m) = WireSize(B) + WireSize(A) + WireSize(U)
  BY <1>2, <1>4 DEF Hello!ByteSizeLong
<1> QED
  BY <1>3, <1>5, <1>7, <1>8

LEMMA InfoSize ==
  ASSUME NEW i \in Discovery!Info
  PROVE  /\ Discovery!SerializeInfo(i) \in Seq(Hello!Scalar)
         /\ Discovery!InfoByteSize(i) = Hello!ScalarsSize(Discovery!SerializeInfo(i))
<1> DEFINE A == Hello!VarintField(1, i.service_id)
           B == Hello!VarintField(2, i.instance_id)
           C == Hello!TextField(4, i.host_id)
           D == Hello!TextField(5, i.process_id)
           U == i.unknown
<1>1. i.service_id \in Nat /\ i.instance_id \in Nat /\ i.host_id \in Text
      /\ i.process_id \in Text /\ U \in Seq(Hello!Scalar)
  BY UnknownOnTheWire, OneLibrary DEF Discovery!Info
<1>2. /\ A \in Seq(Hello!Scalar) /\ B \in Seq(Hello!Scalar)
      /\ C \in Seq(Hello!Scalar) /\ D \in Seq(Hello!Scalar)
      /\ WireSize(A) = Hello!NonDefault(1 + Hello!VarintSize(i.service_id), i.service_id, 0)
      /\ WireSize(B) = Hello!NonDefault(1 + Hello!VarintSize(i.instance_id), i.instance_id, 0)
      /\ WireSize(C) = Hello!NonDefault(1 + Hello!StringSize(i.host_id), i.host_id, EmptyText)
      /\ WireSize(D) = Hello!NonDefault(1 + Hello!StringSize(i.process_id), i.process_id,
                                        EmptyText)
  <2>1. 1 \in 1 .. 15 /\ 2 \in 1 .. 15 /\ 4 \in 1 .. 15 /\ 5 \in 1 .. 15
    OBVIOUS
  <2>2. i.service_id \in Int /\ i.instance_id \in Int
    BY <1>1
  <2>3. /\ A \in Seq(Hello!Scalar) /\ B \in Seq(Hello!Scalar)
        /\ WireSize(A) = Hello!NonDefault(1 + Hello!VarintSize(i.service_id), i.service_id, 0)
        /\ WireSize(B) = Hello!NonDefault(1 + Hello!VarintSize(i.instance_id),
                                          i.instance_id, 0)
    BY <2>1, <2>2, NumberOnTheWire
  <2>4. /\ C \in Seq(Hello!Scalar) /\ D \in Seq(Hello!Scalar)
        /\ WireSize(C) = Hello!NonDefault(1 + Hello!StringSize(i.host_id), i.host_id, EmptyText)
        /\ WireSize(D) = Hello!NonDefault(1 + Hello!StringSize(i.process_id), i.process_id,
                                          EmptyText)
    BY <1>1, <2>1, TextOnTheWire
  <2> QED
    BY <2>3, <2>4
<1>3. Discovery!SerializeInfo(i) = (((A \o B) \o C) \o D) \o U
  BY OneLibrary DEF Discovery!SerializeInfo
<1>4. WireSize(U) = Hello!ScalarsSize(U)
  BY <1>1, ScalarsOnTheWire
<1>5. WireSize(A) \in Nat /\ WireSize(B) \in Nat /\ WireSize(C) \in Nat
      /\ WireSize(D) \in Nat /\ WireSize(U) \in Nat
  BY <1>1, <1>2, ScalarsOnTheWire
<1>6. Discovery!InfoByteSize(i)
        = WireSize(C) + WireSize(D) + WireSize(A) + WireSize(B) + WireSize(U)
  <2>1. \A x, y, z : Discovery!NonDefault(x, y, z) = Hello!NonDefault(x, y, z)
    BY DEF Discovery!NonDefault, Hello!NonDefault
  <2> QED
    BY <1>2, <1>4, <2>1, OneLibrary DEF Discovery!InfoByteSize
<1> HIDE DEF A, B, C, D
<1>7. A \o B \in Seq(Hello!Scalar) /\ WireSize(A \o B) = WireSize(A) + WireSize(B)
  BY <1>2, ScalarsTogether
<1>8. /\ (A \o B) \o C \in Seq(Hello!Scalar)
      /\ WireSize((A \o B) \o C) = WireSize(A \o B) + WireSize(C)
  BY <1>2, <1>7, ScalarsTogether
<1>9. /\ ((A \o B) \o C) \o D \in Seq(Hello!Scalar)
      /\ WireSize(((A \o B) \o C) \o D) = WireSize((A \o B) \o C) + WireSize(D)
  BY <1>2, <1>8, ScalarsTogether
<1>10. /\ (((A \o B) \o C) \o D) \o U \in Seq(Hello!Scalar)
       /\ WireSize((((A \o B) \o C) \o D) \o U) = WireSize(((A \o B) \o C) \o D) + WireSize(U)
  BY <1>1, <1>9, ScalarsTogether
<1>11. WireSize(Discovery!SerializeInfo(i)) = Discovery!InfoByteSize(i)
  BY <1>3, <1>5, <1>6, <1>7, <1>8, <1>9, <1>10
<1> QED
  BY <1>3, <1>10, <1>11, ScalarsOnTheWire

\* The field of service_info_, if there is one.
InfoField(m) ==
  IF Discovery!has_service_info(m)
  THEN <<[number |-> 2, kind |-> "message",
          value |-> Discovery!SerializeInfo(Discovery!service_info(m))]>>
  ELSE <<>>

LEMMA HasInfo ==
  ASSUME NEW m \in Discovery!Message
  PROVE  /\ Discovery!service_info(m) \in Discovery!Info \/ m.service_info = <<>>
         /\ Discovery!has_service_info(m)
              => m.service_info = <<Discovery!service_info(m)>>
<1>1. m.service_info \in Seq(Discovery!Info) /\ Len(m.service_info) <= 1
  BY DEF Discovery!Message
<1> DEFINE s == m.service_info
<1>2. CASE s = <<>>
  BY <1>2 DEF Discovery!has_service_info
<1>3. CASE s # <<>>
  <2> HIDE DEF s
  <2>1. s \in Seq(Discovery!Info) /\ Len(s) <= 1
    BY <1>1 DEF s
  <2>2. Len(s) = 1
    <3>1. Len(s) \in Nat /\ Len(s) # 0
      BY <1>3, <2>1, EmptySeq, Zenon
    <3>2. \A n \in Nat : n # 0 /\ n <= 1 => n = 1
      OBVIOUS
    <3> QED
      BY <2>1, <3>1, <3>2, Zenon
  <2>3. Head(s) = s[1] /\ s[1] \in Discovery!Info
    BY <2>1, <2>2, ElementOfSeq
  <2>4. s = <<s[1]>>
    BY <2>1, <2>2
  <2> QED
    BY <1>3, <2>3, <2>4 DEF Discovery!service_info, Discovery!has_service_info, s
<1> QED
  BY <1>2, <1>3

LEMMA InfoOnTheWire ==
  ASSUME NEW m \in Discovery!Message
  PROVE  /\ InfoField(m) \in Seq(Field)
         /\ WireSize(InfoField(m)) =
              IF Discovery!has_service_info(m)
              THEN 1 + Hello!MessageSize(Discovery!InfoByteSize(Discovery!service_info(m)))
              ELSE 0
<1> DEFINE i == Discovery!service_info(m)
           f == [number |-> 2, kind |-> "message", value |-> Discovery!SerializeInfo(i)]
<1>1. CASE ~Discovery!has_service_info(m)
  BY <1>1, WireSizeOfNone, EmptySeq DEF InfoField
<1>2. CASE Discovery!has_service_info(m)
  <2>1. i \in Discovery!Info
    BY <1>2, HasInfo DEF Discovery!has_service_info
  <2>2. /\ Discovery!SerializeInfo(i) \in Seq(Hello!Scalar)
        /\ Discovery!InfoByteSize(i) = Hello!ScalarsSize(Discovery!SerializeInfo(i))
    BY <2>1, InfoSize
  <2>3. f \in Field
    BY <2>2 DEF Field
  <2>4. Hello!FieldSize(f) = 1 + Hello!MessageSize(Discovery!InfoByteSize(i))
    BY <2>2 DEF Hello!FieldSize
  <2>5. InfoField(m) = <<f>>
    BY <1>2 DEF InfoField
  <2> HIDE DEF f
  <2>6. WireSize(<<f>>) = Hello!FieldSize(f) /\ <<f>> \in Seq(Field)
    BY <2>3, WireSizeOfOne
  <2> QED
    BY <1>2, <2>4, <2>5, <2>6
<1> QED
  BY <1>1, <1>2

LEMMA DiscoverySize ==
  ASSUME NEW m \in Discovery!Message
  PROVE  /\ Discovery!Serialize(m) \in Seq(Field)
         /\ Discovery!ByteSizeLong(m) = WireSize(Discovery!Serialize(m))
<1> DEFINE A == Hello!VarintField(1, m.operation)
           B == InfoField(m)
           U == m.unknown
<1>1. m.operation \in Int /\ U \in Seq(Hello!Scalar)
  BY UnknownOnTheWire, OneLibrary DEF Discovery!Message
<1>2. /\ A \in Seq(Field)
      /\ WireSize(A) = Hello!NonDefault(1 + Hello!VarintSize(m.operation), m.operation, 0)
      /\ WireSize(A) \in Nat
  <2>1. 1 \in 1 .. 15
    OBVIOUS
  <2>2. /\ A \in Seq(Hello!Scalar)
        /\ WireSize(A) = Hello!NonDefault(1 + Hello!VarintSize(m.operation), m.operation, 0)
    BY <1>1, <2>1, NumberOnTheWire
  <2> QED
    BY <2>2, ScalarsOnTheWire
<1>3. Discovery!Serialize(m) = (A \o B) \o U
  BY OneLibrary DEF Discovery!Serialize, InfoField
<1>4. U \in Seq(Field) /\ WireSize(U) = Hello!ScalarsSize(U) /\ WireSize(U) \in Nat
  BY <1>1, ScalarsOnTheWire
<1>5. B \in Seq(Field)
  BY InfoOnTheWire
<1>6. WireSize(B) \in Nat
  <2>1. Len(B) \in Nat /\ Hello!UpTo(Hello!FieldSizes(B)) \in [0 .. Len(B) -> Nat]
    BY <1>5, FieldSizesType, UpToIsSum
  <2> QED
    BY <2>1 DEF WireSize
<1>7. Discovery!ByteSizeLong(m) = WireSize(B) + WireSize(A) + WireSize(U)
  <2>1. \A x, y, z : Discovery!NonDefault(x, y, z) = Hello!NonDefault(x, y, z)
    BY DEF Discovery!NonDefault, Hello!NonDefault
  <2> QED
    BY <1>2, <1>4, <2>1, InfoOnTheWire, OneLibrary DEF Discovery!ByteSizeLong, Discovery!OFFER
<1> HIDE DEF A, B
<1>8. A \o B \in Seq(Field) /\ WireSize(A \o B) = WireSize(A) + WireSize(B)
  BY <1>2, <1>5, WireSizeOfBoth, ConcatProperties
<1>9. /\ (A \o B) \o U \in Seq(Field)
      /\ WireSize((A \o B) \o U) = WireSize(A) + WireSize(B) + WireSize(U)
  BY <1>4, <1>8, WireSizeOfBoth, ConcatProperties
<1> QED
  BY <1>2, <1>3, <1>4, <1>6, <1>7, <1>9

-----------------------------------------------------------------------------
\* What is parsed.

\* The parsers of the three messages.
Parsed(parser, object, f) ==
  CASE parser = "HelloWorld" -> Hello!ParseField(object, f)
    [] parser = "ServiceInfo" -> Discovery!ParseInfoField(object, f)
    [] parser = "ServiceDiscovery" -> Discovery!ParseField(object, f)

\* Parsing the fields into the object, one after the other, makes it the result.
Reads(parser, object, fields, result) ==
  \E f : /\ f[0] = object /\ f[Len(fields)] = result
         /\ \A n \in 1 .. Len(fields) : f[n] = Parsed(parser, f[n - 1], fields[n])

\* Nothing else is what the parser returns.
LEMMA ReadsTheResult ==
  ASSUME NEW parser, NEW fields, Len(fields) \in Nat, NEW object, NEW result,
         Reads(parser, object, fields, result), NEW p,
         p = [n \in 0 .. Len(fields) |->
                IF n = 0 THEN object ELSE Parsed(parser, p[n - 1], fields[n])]
  PROVE  p[Len(fields)] = result
<1> DEFINE N == Len(fields)
<1>1. PICK f : /\ f[0] = object /\ f[N] = result
               /\ \A n \in 1 .. N : f[n] = Parsed(parser, f[n - 1], fields[n])
  BY DEF Reads
<1>2. p[0] = f[0] /\ \A n \in 1 .. N : p[n - 1] = f[n - 1] => p[n] = f[n]
  BY <1>1
<1>3. \A n \in 0 .. N : p[n] = f[n]
  <2>1. N \in Nat
    OBVIOUS
  <2> HIDE DEF N
  <2> QED
    BY ONLY <2>1, <1>2, SameSteps
<1> QED
  BY <1>1, <1>3

\* The parser returns something.
LEMMA ReadsSomething ==
  ASSUME NEW parser, NEW fields, Len(fields) \in Nat, NEW object, NEW result,
         Reads(parser, object, fields, result)
  PROVE  \E p : p = [n \in 0 .. Len(fields) |->
                       IF n = 0 THEN object ELSE Parsed(parser, p[n - 1], fields[n])]
<1> DEFINE N == Len(fields)
<1>1. PICK f : /\ f[0] = object
               /\ \A n \in 1 .. N : f[n] = Parsed(parser, f[n - 1], fields[n])
  BY DEF Reads
<1> DEFINE p == [n \in 0 .. N |-> f[n]]
<1>2. \A n \in 1 .. N : n - 1 \in 0 .. N /\ n \in 0 .. N
  OBVIOUS
<1>3. 0 \in 0 .. N /\ \A n \in 0 .. N : n # 0 => n \in 1 .. N
  OBVIOUS
<1>4. \A n \in 0 .. N :
        f[n] = IF n = 0 THEN object ELSE Parsed(parser, p[n - 1], fields[n])
  BY <1>1, <1>2, <1>3
<1>5. p = [n \in 0 .. N |-> IF n = 0 THEN object ELSE Parsed(parser, p[n - 1], fields[n])]
  BY <1>4
<1> QED
  BY <1>5

LEMMA HelloParsed ==
  ASSUME NEW fields, Len(fields) \in Nat, NEW object, NEW result,
         Reads("HelloWorld", object, fields, result)
  PROVE  Hello!ParseAll(Hello!ParseField, object, fields) = result
<1> DEFINE N == Len(fields)
           Is(g) == g = [n \in 0 .. N |->
                           IF n = 0 THEN object ELSE Hello!ParseField(g[n - 1], fields[n])]
           p == CHOOSE g : Is(g)
<1>1. Hello!ParseAll(Hello!ParseField, object, fields) = p[N]
  BY DEF Hello!ParseAll
<1>2. \A x, y : Parsed("HelloWorld", x, y) = Hello!ParseField(x, y)
  BY DEF Parsed
<1>3. \E g : Is(g)
  <2>1. PICK g : g = [n \in 0 .. Len(fields) |->
                        IF n = 0 THEN object ELSE Parsed("HelloWorld", g[n - 1], fields[n])]
    BY ReadsSomething
  <2>2. Is(g)
    BY <1>2, <2>1
  <2> HIDE DEF Is
  <2> QED
    BY <2>2
<1>4. Is(p)
  <2> HIDE DEF Is
  <2> QED
    BY <1>3
<1> HIDE DEF p
<1>5. p[N] = result
  BY <1>2, <1>4, ReadsTheResult
<1> QED
  BY <1>1, <1>5

LEMMA InfoParsed ==
  ASSUME NEW fields, Len(fields) \in Nat, NEW object, NEW result,
         Reads("ServiceInfo", object, fields, result)
  PROVE  Discovery!ParseAll(Discovery!ParseInfoField, object, fields) = result
<1> DEFINE N == Len(fields)
           Is(g) == g = [n \in 0 .. N |->
                           IF n = 0 THEN object
                                    ELSE Discovery!ParseInfoField(g[n - 1], fields[n])]
           p == CHOOSE g : Is(g)
<1>1. Discovery!ParseAll(Discovery!ParseInfoField, object, fields) = p[N]
  BY DEF Discovery!ParseAll
<1>2. \A x, y : Parsed("ServiceInfo", x, y) = Discovery!ParseInfoField(x, y)
  BY DEF Parsed
<1>3. \E g : Is(g)
  <2>1. PICK g : g = [n \in 0 .. Len(fields) |->
                        IF n = 0 THEN object ELSE Parsed("ServiceInfo", g[n - 1], fields[n])]
    BY ReadsSomething
  <2>2. Is(g)
    BY <1>2, <2>1
  <2> HIDE DEF Is
  <2> QED
    BY <2>2
<1>4. Is(p)
  <2> HIDE DEF Is
  <2> QED
    BY <1>3
<1> HIDE DEF p
<1>5. p[N] = result
  BY <1>2, <1>4, ReadsTheResult
<1> QED
  BY <1>1, <1>5

LEMMA DiscoveryParsed ==
  ASSUME NEW fields, Len(fields) \in Nat, NEW object, NEW result,
         Reads("ServiceDiscovery", object, fields, result)
  PROVE  Discovery!ParseAll(Discovery!ParseField, object, fields) = result
<1> DEFINE N == Len(fields)
           Is(g) == g = [n \in 0 .. N |->
                           IF n = 0 THEN object
                                    ELSE Discovery!ParseField(g[n - 1], fields[n])]
           p == CHOOSE g : Is(g)
<1>1. Discovery!ParseAll(Discovery!ParseField, object, fields) = p[N]
  BY DEF Discovery!ParseAll
<1>2. \A x, y : Parsed("ServiceDiscovery", x, y) = Discovery!ParseField(x, y)
  BY DEF Parsed
<1>3. \E g : Is(g)
  <2>1. PICK g : g = [n \in 0 .. Len(fields) |->
                        IF n = 0 THEN object ELSE Parsed("ServiceDiscovery", g[n - 1], fields[n])]
    BY ReadsSomething
  <2>2. Is(g)
    BY <1>2, <2>1
  <2> HIDE DEF Is
  <2> QED
    BY <2>2
<1>4. Is(p)
  <2> HIDE DEF Is
  <2> QED
    BY <1>3
<1> HIDE DEF p
<1>5. p[N] = result
  BY <1>2, <1>4, ReadsTheResult
<1> QED
  BY <1>1, <1>5

LEMMA ReadsNone == \A parser, o : Reads(parser, o, <<>>, o)
<1> SUFFICES ASSUME NEW parser, NEW o PROVE Reads(parser, o, <<>>, o)
  OBVIOUS
<1> DEFINE f == [n \in {0} |-> o]
           s == <<>>
<1>1. Len(s) = 0 /\ f[0] = o /\ 1 .. 0 = {}
  OBVIOUS
<1> HIDE DEF f, s
<1>2. Reads(parser, o, s, o)
  BY <1>1 DEF Reads
<1> QED
  BY <1>2 DEF s

LEMMA ReadsOne ==
  ASSUME NEW parser, NEW o, NEW x, NEW r, r = Parsed(parser, o, x)
  PROVE  Reads(parser, o, <<x>>, r)
<1> DEFINE f == [n \in 0 .. 1 |-> IF n = 0 THEN o ELSE r]
           s == <<x>>
<1>1. Len(s) = 1 /\ s[1] = x /\ f[0] = o /\ f[1] = r
  OBVIOUS
<1>2. \A n \in 1 .. 1 : n = 1 /\ n - 1 = 0
  OBVIOUS
<1> HIDE DEF f, s
<1>3. Reads(parser, o, s, r)
  BY <1>1, <1>2 DEF Reads
<1> QED
  BY <1>3 DEF s

LEMMA ReadsBoth ==
  ASSUME NEW parser, NEW o, NEW p, NEW r, NEW s \in Seq(Field), NEW t \in Seq(Field),
         Reads(parser, o, s, p), Reads(parser, p, t, r)
  PROVE  Reads(parser, o, s \o t, r)
<1> DEFINE a == Len(s)
           b == Len(t)
           u == s \o t
<1>1. PICK f : /\ f[0] = o /\ f[a] = p
               /\ \A n \in 1 .. a : f[n] = Parsed(parser, f[n - 1], s[n])
  BY DEF Reads
<1>2. PICK g : /\ g[0] = p /\ g[b] = r
               /\ \A n \in 1 .. b : g[n] = Parsed(parser, g[n - 1], t[n])
  BY DEF Reads
<1>3. /\ Len(u) = a + b /\ a \in Nat /\ b \in Nat
      /\ \A i \in 1 .. a + b : u[i] = IF i <= a THEN s[i] ELSE t[i - a]
  BY ConcatProperties, LenProperties
<1> HIDE DEF a, b, u
<1> DEFINE h == [n \in 0 .. (a + b) |-> IF n <= a THEN f[n] ELSE g[n - a]]
<1>4. h[0] = o
  BY <1>1, <1>3
<1>5. h[a + b] = r
  <2>1. CASE b = 0
    BY <1>1, <1>2, <1>3, <2>1
  <2>2. CASE b # 0
    <3>1. (a + b) - a = b /\ ~ (a + b <= a) /\ a + b \in 0 .. (a + b)
      BY <1>3, <2>2
    <3> QED
      BY <1>2, <3>1
  <2> QED
    BY <2>1, <2>2
<1>6. ASSUME NEW n \in 1 .. (a + b) PROVE h[n] = Parsed(parser, h[n - 1], u[n])
  <2>1. n \in 0 .. (a + b) /\ n - 1 \in 0 .. (a + b)
    BY <1>3
  <2>2. CASE n <= a
    <3>1. h[n] = f[n] /\ h[n - 1] = f[n - 1] /\ u[n] = s[n] /\ n \in 1 .. a
      BY <1>3, <2>1, <2>2
    <3> HIDE DEF h
    <3> QED
      BY <1>1, <3>1
  <2>3. CASE n > a
    <3>1. h[n] = g[n - a] /\ u[n] = t[n - a] /\ n - a \in 1 .. b
      BY <1>3, <2>1, <2>3
    <3>2. h[n - 1] = g[(n - a) - 1]
      <4>1. CASE n - 1 = a
        <5>1. h[n - 1] = p /\ (n - a) - 1 = 0
          BY <1>1, <1>3, <2>1, <4>1
        <5> QED
          BY <1>2, <5>1
      <4>2. CASE n - 1 > a
        <5>1. (n - a) - 1 = (n - 1) - a
          BY <1>3
        <5>2. h[n - 1] = g[(n - 1) - a]
          BY <1>3, <2>1, <4>2
        <5> QED
          BY <5>1, <5>2
      <4> QED
        BY <1>3, <2>3, <4>1, <4>2
    <3> HIDE DEF h
    <3> QED
      BY <1>2, <3>1, <3>2
  <2> QED
    BY <1>3, <2>2, <2>3
<1> HIDE DEF h
<1>7. Reads(parser, o, u, r)
  BY <1>3, <1>4, <1>5, <1>6 DEF Reads
<1> QED
  BY <1>7 DEF u


\* A field that is not on the wire leaves the default, which is its value.
LEMMA ReadsNumber ==
  ASSUME NEW parser, NEW number, NEW n, NEW o, NEW r, n = 0 => r = o,
         n # 0 => r = Parsed(parser, o, [number |-> number, kind |-> "varint", value |-> n])
  PROVE  Reads(parser, o, Hello!VarintField(number, n), r)
<1>1. CASE n = 0
  BY <1>1, ReadsNone DEF Hello!VarintField
<1>2. CASE n # 0
  BY <1>2, ReadsOne DEF Hello!VarintField
<1> QED
  BY <1>1, <1>2

LEMMA ReadsText ==
  ASSUME NEW parser, NEW number, NEW t, NEW o, NEW r, t = EmptyText => r = o,
         t # EmptyText
           => r = Parsed(parser, o, [number |-> number, kind |-> "text", value |-> t])
  PROVE  Reads(parser, o, Hello!TextField(number, t), r)
<1>1. CASE t = EmptyText
  BY <1>1, ReadsNone DEF Hello!TextField
<1>2. CASE t # EmptyText
  BY <1>2, ReadsOne DEF Hello!TextField
<1> QED
  BY <1>1, <1>2

\* Unknown fields are collected one by one.
LEMMA OneMore ==
  ASSUME NEW S, NEW u \in Seq(S), NEW k \in 1 .. Len(u)
  PROVE  Append(SubSeq(u, 1, k - 1), u[k]) = SubSeq(u, 1, k)
<1>1. Len(u) \in Nat /\ \A i \in 1 .. Len(u) : u[i] \in S
  BY LenProperties, ElementOfSeq
<1>2. 1 \in 1 .. Len(u) /\ k \in 1 .. Len(u)
  BY <1>1
<1>3. SubSeq(u, 1, k) = SubSeq(u, 1, k - 1) \o <<u[k]>>
  BY <1>2, SubSeqRecursiveSecond
<1>4. SubSeq(u, 1, k - 1) \in Seq(S)
  <2>1. 1 \in Int /\ k - 1 \in Int /\ \A i \in 1 .. (k - 1) : u[i] \in S
    BY <1>1
  <2> QED
    BY <2>1, SubSeqProperties
<1>5. Append(SubSeq(u, 1, k - 1), u[k]) = SubSeq(u, 1, k - 1) \o <<u[k]>>
  BY <1>1, <1>4, AppendIsConcat
<1> QED
  BY <1>3, <1>5

LEMMA ReadsUnknown ==
  ASSUME NEW parser, NEW known, NEW u \in Hello!Unknown(known), NEW after,
         \A v \in Seq(Hello!Scalar), x \in Hello!Scalar :
           x.number \notin known => after[Append(v, x)] = Parsed(parser, after[v], x)
  PROVE  Reads(parser, after[<<>>], u, after[u])
<1> DEFINE f == [n \in 0 .. Len(u) |-> after[SubSeq(u, 1, n)]]
<1>1. u \in Seq(Hello!Scalar) /\ Len(u) \in Nat
      /\ \A i \in 1 .. Len(u) : u[i] \in Hello!Scalar /\ u[i].number \notin known
  BY UnknownOnTheWire, ElementOfSeq, LenProperties DEF Hello!Unknown
<1>2. SubSeq(u, 1, 0) = <<>> /\ SubSeq(u, 1, Len(u)) = u
  BY <1>1, SubSeqEmpty, SubSeqFull
<1>3. f[0] = after[<<>>] /\ f[Len(u)] = after[u]
  <2>1. 0 \in 0 .. Len(u) /\ Len(u) \in 0 .. Len(u)
    BY <1>1
  <2>2. f[0] = after[SubSeq(u, 1, 0)] /\ f[Len(u)] = after[SubSeq(u, 1, Len(u))]
    BY <2>1, Zenon
  <2> QED
    BY <1>2, <2>2
<1>4. ASSUME NEW n \in 1 .. Len(u) PROVE f[n] = Parsed(parser, f[n - 1], u[n])
  <2> DEFINE v == SubSeq(u, 1, n - 1)
  <2>1. n \in 0 .. Len(u) /\ n - 1 \in 0 .. Len(u)
    BY <1>1
  <2>2. f[n - 1] = after[v] /\ f[n] = after[SubSeq(u, 1, n)]
    BY <2>1
  <2>3. v \in Seq(Hello!Scalar)
    <3>1. 1 \in Int /\ n - 1 \in Int /\ \A i \in 1 .. (n - 1) : u[i] \in Hello!Scalar
      BY <1>1
    <3> QED
      BY <3>1, SubSeqProperties
  <2>4. SubSeq(u, 1, n) = Append(v, u[n])
    BY <1>1, OneMore
  <2> HIDE DEF f, v
  <2> QED
    BY <1>1, <2>2, <2>3, <2>4
<1> HIDE DEF f
<1> QED
  BY <1>3, <1>4 DEF Reads

(***************************************************************************)
(* A HelloWorld is parsed from what it was serialized to.                  *)
(***************************************************************************)
LEMMA HelloIsReadBack ==
  ASSUME NEW m \in Hello!Message
  PROVE  Reads("HelloWorld", Hello!HelloWorld, Hello!Serialize(m), m)
<1> DEFINE A == Hello!VarintField(1, m.index)
           B == Hello!TextField(2, m.message)
           U == m.unknown
           o1 == [index |-> m.index, message |-> EmptyText, unknown |-> <<>>]
           o2 == [index |-> m.index, message |-> m.message, unknown |-> <<>>]
<1>1. /\ m.index \in Int /\ m.message \in Text /\ U \in Hello!Unknown({1, 2})
      /\ m = [index |-> m.index, message |-> m.message, unknown |-> U]
  BY DEF Hello!Message
<1>2. A \in Seq(Field) /\ B \in Seq(Field) /\ U \in Seq(Field) /\ U \in Seq(Hello!Scalar)
  <2>1. 1 \in 1 .. 15 /\ 2 \in 1 .. 15
    OBVIOUS
  <2>2. A \in Seq(Hello!Scalar) /\ B \in Seq(Hello!Scalar)
    BY <1>1, <2>1, NumberOnTheWire, TextOnTheWire
  <2>3. U \in Seq(Hello!Scalar)
    BY <1>1, UnknownOnTheWire
  <2> QED
    BY <2>2, <2>3, ScalarsOnTheWire
<1>3. Reads("HelloWorld", Hello!HelloWorld, A, o1)
  <2>1. m.index = 0 => o1 = Hello!HelloWorld
    BY DEF Hello!HelloWorld
  <2>2. o1 = Parsed("HelloWorld", Hello!HelloWorld,
                    [number |-> 1, kind |-> "varint", value |-> m.index])
    BY DEF Parsed, Hello!ParseField, Hello!set_index, Hello!HelloWorld
  <2> HIDE DEF o1
  <2> QED
    BY <2>1, <2>2, ReadsNumber
<1>4. Reads("HelloWorld", o1, B, o2)
  <2>1. m.message = EmptyText => o2 = o1
    OBVIOUS
  <2>2. o2 = Parsed("HelloWorld", o1,
                    [number |-> 2, kind |-> "text", value |-> m.message])
    BY DEF Parsed, Hello!ParseField, Hello!set_message
  <2> HIDE DEF o1, o2
  <2> QED
    BY <2>1, <2>2, ReadsText
<1>5. Reads("HelloWorld", o2, U, m)
  <2> DEFINE after == [u \in Seq(Hello!Scalar) |->
                         [index |-> m.index, message |-> m.message, unknown |-> u]]
  <2>1. ASSUME NEW v \in Seq(Hello!Scalar), NEW x \in Hello!Scalar, x.number \notin {1, 2}
        PROVE  after[Append(v, x)] = Parsed("HelloWorld", after[v], x)
    <3>1. Append(v, x) \in Seq(Hello!Scalar)
      BY AppendProperties
    <3> QED
      BY <2>1, <3>1 DEF Parsed, Hello!ParseField
  <2>2. after[<<>>] = o2 /\ after[U] = m
    BY <1>1, <1>2
  <2> HIDE DEF after, o2
  <2>3. Reads("HelloWorld", after[<<>>], U, after[U])
    BY <1>1, <2>1, ReadsUnknown
  <2> QED
    BY <2>2, <2>3
<1> HIDE DEF A, B, U, o1, o2
<1>6. A \o B \in Seq(Field) /\ Reads("HelloWorld", Hello!HelloWorld, A \o B, o2)
  BY <1>2, <1>3, <1>4, ReadsBoth, ConcatProperties
<1>7. Reads("HelloWorld", Hello!HelloWorld, (A \o B) \o U, m)
  BY <1>2, <1>5, <1>6, ReadsBoth
<1> QED
  BY <1>7 DEF Hello!Serialize, A, B, U


\* So is a ServiceInfo, ...
LEMMA InfoIsReadBack ==
  ASSUME NEW i \in Discovery!Info
  PROVE  Reads("ServiceInfo", Discovery!EmptyInfo, Discovery!SerializeInfo(i), i)
<1> DEFINE A == Hello!VarintField(1, i.service_id)
           B == Hello!VarintField(2, i.instance_id)
           C == Hello!TextField(4, i.host_id)
           D == Hello!TextField(5, i.process_id)
           U == i.unknown
           With(s, n, h, p, u) == [service_id |-> s, instance_id |-> n, host_id |-> h,
                                   process_id |-> p, unknown |-> u]
           o1 == With(i.service_id, 0, EmptyText, EmptyText, <<>>)
           o2 == With(i.service_id, i.instance_id, EmptyText, EmptyText, <<>>)
           o3 == With(i.service_id, i.instance_id, i.host_id, EmptyText, <<>>)
           o4 == With(i.service_id, i.instance_id, i.host_id, i.process_id, <<>>)
<1>1. /\ i.service_id \in Nat /\ i.instance_id \in Nat
      /\ i.host_id \in Text /\ i.process_id \in Text /\ U \in Hello!Unknown({1, 2, 4, 5})
      /\ i = With(i.service_id, i.instance_id, i.host_id, i.process_id, U)
  BY OneLibrary DEF Discovery!Info
<1>2. /\ A \in Seq(Field) /\ B \in Seq(Field) /\ C \in Seq(Field) /\ D \in Seq(Field)
      /\ U \in Seq(Field) /\ U \in Seq(Hello!Scalar)
  <2>1. 1 \in 1 .. 15 /\ 2 \in 1 .. 15 /\ 4 \in 1 .. 15 /\ 5 \in 1 .. 15
    OBVIOUS
  <2>2. A \in Seq(Hello!Scalar) /\ B \in Seq(Hello!Scalar)
    BY <1>1, <2>1, NumberOnTheWire
  <2>3. C \in Seq(Hello!Scalar) /\ D \in Seq(Hello!Scalar)
    BY <1>1, <2>1, TextOnTheWire
  <2>4. U \in Seq(Hello!Scalar)
    BY <1>1, UnknownOnTheWire
  <2> QED
    BY <2>2, <2>3, <2>4, ScalarsOnTheWire
<1>3. Reads("ServiceInfo", Discovery!EmptyInfo, A, o1)
  <2>1. i.service_id = 0 => o1 = Discovery!EmptyInfo
    BY DEF Discovery!EmptyInfo
  <2>2. o1 = Parsed("ServiceInfo", Discovery!EmptyInfo,
                    [number |-> 1, kind |-> "varint", value |-> i.service_id])
    BY DEF Parsed, Discovery!ParseInfoField, Discovery!set_service_id, Discovery!EmptyInfo
  <2> HIDE DEF o1
  <2> QED
    BY <2>1, <2>2, ReadsNumber
<1>4. Reads("ServiceInfo", o1, B, o2)
  <2>1. i.instance_id = 0 => o2 = o1
    OBVIOUS
  <2>2. o2 = Parsed("ServiceInfo", o1,
                    [number |-> 2, kind |-> "varint", value |-> i.instance_id])
    BY DEF Parsed, Discovery!ParseInfoField, Discovery!set_instance_id
  <2> HIDE DEF o1, o2
  <2> QED
    BY <2>1, <2>2, ReadsNumber
<1>5. Reads("ServiceInfo", o2, C, o3)
  <2>1. i.host_id = EmptyText => o3 = o2
    OBVIOUS
  <2>2. o3 = Parsed("ServiceInfo", o2,
                    [number |-> 4, kind |-> "text", value |-> i.host_id])
    BY DEF Parsed, Discovery!ParseInfoField, Discovery!set_host_id
  <2> HIDE DEF o2, o3
  <2> QED
    BY <2>1, <2>2, ReadsText
<1>6. Reads("ServiceInfo", o3, D, o4)
  <2>1. i.process_id = EmptyText => o4 = o3
    OBVIOUS
  <2>2. o4 = Parsed("ServiceInfo", o3,
                    [number |-> 5, kind |-> "text", value |-> i.process_id])
    BY DEF Parsed, Discovery!ParseInfoField, Discovery!set_process_id
  <2> HIDE DEF o3, o4
  <2> QED
    BY <2>1, <2>2, ReadsText
<1>7. Reads("ServiceInfo", o4, U, i)
  <2> DEFINE after == [u \in Seq(Hello!Scalar) |->
                         With(i.service_id, i.instance_id, i.host_id, i.process_id, u)]
  <2>1. ASSUME NEW v \in Seq(Hello!Scalar), NEW x \in Hello!Scalar,
               x.number \notin {1, 2, 4, 5}
        PROVE  after[Append(v, x)] = Parsed("ServiceInfo", after[v], x)
    <3>1. Append(v, x) \in Seq(Hello!Scalar)
      BY AppendProperties
    <3> QED
      BY <2>1, <3>1 DEF Parsed, Discovery!ParseInfoField
  <2>2. after[<<>>] = o4 /\ after[U] = i
    BY <1>1, <1>2
  <2> HIDE DEF after, o4
  <2>3. Reads("ServiceInfo", after[<<>>], U, after[U])
    BY <1>1, <2>1, ReadsUnknown
  <2> QED
    BY <2>2, <2>3
<1> HIDE DEF A, B, C, D, U, o1, o2, o3, o4
<1>8. A \o B \in Seq(Field) /\ Reads("ServiceInfo", Discovery!EmptyInfo, A \o B, o2)
  BY <1>2, <1>3, <1>4, ReadsBoth, ConcatProperties
<1>9. /\ (A \o B) \o C \in Seq(Field)
      /\ Reads("ServiceInfo", Discovery!EmptyInfo, (A \o B) \o C, o3)
  BY <1>2, <1>5, <1>8, ReadsBoth, ConcatProperties
<1>10. /\ ((A \o B) \o C) \o D \in Seq(Field)
       /\ Reads("ServiceInfo", Discovery!EmptyInfo, ((A \o B) \o C) \o D, o4)
  BY <1>2, <1>6, <1>9, ReadsBoth, ConcatProperties
<1>11. Reads("ServiceInfo", Discovery!EmptyInfo, (((A \o B) \o C) \o D) \o U, i)
  BY <1>2, <1>7, <1>10, ReadsBoth
<1> QED
  BY <1>11, OneLibrary DEF Discovery!SerializeInfo, A, B, C, D, U

\* ... and a ServiceDiscovery with it.
LEMMA DiscoveryIsReadBack ==
  ASSUME NEW m \in Discovery!Message
  PROVE  Reads("ServiceDiscovery", Discovery!EmptyDiscovery, Discovery!Serialize(m), m)
<1> DEFINE A == Hello!VarintField(1, m.operation)
           B == InfoField(m)
           U == m.unknown
           o1 == [operation |-> m.operation, service_info |-> <<>>, unknown |-> <<>>]
           o2 == [operation |-> m.operation, service_info |-> m.service_info,
                  unknown |-> <<>>]
<1>1. /\ m.operation \in Int /\ U \in Hello!Unknown({1, 2})
      /\ m = [operation |-> m.operation, service_info |-> m.service_info, unknown |-> U]
  BY OneLibrary DEF Discovery!Message
<1>2. A \in Seq(Field) /\ B \in Seq(Field) /\ U \in Seq(Field) /\ U \in Seq(Hello!Scalar)
  <2>1. 1 \in 1 .. 15
    OBVIOUS
  <2>2. A \in Seq(Hello!Scalar)
    BY <1>1, <2>1, NumberOnTheWire
  <2>3. U \in Seq(Hello!Scalar)
    BY <1>1, UnknownOnTheWire
  <2> QED
    BY <2>2, <2>3, ScalarsOnTheWire, InfoOnTheWire
<1>3. Reads("ServiceDiscovery", Discovery!EmptyDiscovery, A, o1)
  <2>1. m.operation = 0 => o1 = Discovery!EmptyDiscovery
    BY DEF Discovery!EmptyDiscovery, Discovery!OFFER
  <2>2. o1 = Parsed("ServiceDiscovery", Discovery!EmptyDiscovery,
                    [number |-> 1, kind |-> "varint", value |-> m.operation])
    BY DEF Parsed, Discovery!ParseField, Discovery!set_operation, Discovery!EmptyDiscovery
  <2> HIDE DEF o1
  <2> QED
    BY <2>1, <2>2, ReadsNumber
<1>4. Reads("ServiceDiscovery", o1, B, o2)
  <2>1. CASE ~Discovery!has_service_info(m)
    <3>1. B = <<>> /\ o2 = o1
      BY <2>1 DEF InfoField, Discovery!has_service_info
    <3> QED
      BY <3>1, ReadsNone
  <2>2. CASE Discovery!has_service_info(m)
    <3> DEFINE i == Discovery!service_info(m)
               x == [number |-> 2, kind |-> "message",
                     value |-> Discovery!SerializeInfo(i)]
    <3>1. i \in Discovery!Info /\ m.service_info = <<i>>
      BY <2>2, HasInfo DEF Discovery!has_service_info
    <3>2. Discovery!service_info(o1) = Discovery!EmptyInfo
      BY DEF Discovery!service_info, Discovery!has_service_info
    <3>3. Discovery!ParseAll(Discovery!ParseInfoField, Discovery!EmptyInfo, x.value) = i
      <4>1. Reads("ServiceInfo", Discovery!EmptyInfo, Discovery!SerializeInfo(i), i)
        BY <3>1, InfoIsReadBack
      <4>2. Len(Discovery!SerializeInfo(i)) \in Nat
        BY <3>1, InfoSize, LenProperties
      <4> QED
        BY <4>1, <4>2, InfoParsed
    <3>4. Discovery!ParseField(o1, x)
            = Discovery!WithServiceInfo(o1,
                Discovery!ParseAll(Discovery!ParseInfoField, Discovery!service_info(o1),
                                   x.value))
      BY DEF Discovery!ParseField
    <3>5. Discovery!WithServiceInfo(o1, i) = o2
      BY <3>1 DEF Discovery!WithServiceInfo
    <3>6. o2 = Parsed("ServiceDiscovery", o1, x)
      BY <3>2, <3>3, <3>4, <3>5 DEF Parsed
    <3>7. B = <<x>>
      BY <2>2 DEF InfoField
    <3> HIDE DEF x, o1, o2, B
    <3> QED
      BY <3>6, <3>7, ReadsOne
  <2> QED
    BY <2>1, <2>2
<1>5. Reads("ServiceDiscovery", o2, U, m)
  <2> DEFINE after == [u \in Seq(Hello!Scalar) |->
                         [operation |-> m.operation, service_info |-> m.service_info,
                          unknown |-> u]]
  <2>1. ASSUME NEW v \in Seq(Hello!Scalar), NEW x \in Hello!Scalar, x.number \notin {1, 2}
        PROVE  after[Append(v, x)] = Parsed("ServiceDiscovery", after[v], x)
    <3>1. Append(v, x) \in Seq(Hello!Scalar)
      BY AppendProperties
    <3> QED
      BY <2>1, <3>1 DEF Parsed, Discovery!ParseField
  <2>2. after[<<>>] = o2 /\ after[U] = m
    BY <1>1, <1>2
  <2> HIDE DEF after, o2
  <2>3. Reads("ServiceDiscovery", after[<<>>], U, after[U])
    BY <1>1, <2>1, ReadsUnknown
  <2> QED
    BY <2>2, <2>3
<1> HIDE DEF A, B, U, o1, o2
<1>6. A \o B \in Seq(Field) /\ Reads("ServiceDiscovery", Discovery!EmptyDiscovery, A \o B, o2)
  BY <1>2, <1>3, <1>4, ReadsBoth, ConcatProperties
<1>7. Reads("ServiceDiscovery", Discovery!EmptyDiscovery, (A \o B) \o U, m)
  BY <1>2, <1>5, <1>6, ReadsBoth
<1> QED
  BY <1>7, OneLibrary DEF Discovery!Serialize, InfoField, A, B, U


-----------------------------------------------------------------------------
\* Objects and payloads.

LEMMA CreatedData ==
  ASSUME NEW type \in Type
  PROVE  createData(type) \in Message(type)
<1>1. Discovery!EmptyDiscovery \in Discovery!Message
  <2> DEFINE S == {s \in Seq(Discovery!Info) : Len(s) <= 1}
             nothing == <<>>
  <2>1. nothing \in Discovery!Unknown({1, 2})
    BY OneLibrary, EmptySeq DEF Hello!Unknown
  <2>2. nothing \in Seq(Discovery!Info) /\ Len(nothing) = 0
    BY EmptySeq
  <2>3. nothing \in S
    BY <2>2
  <2> HIDE DEF S
  <2>4. [operation |-> 0, service_info |-> nothing, unknown |-> nothing]
          \in [operation : Int, service_info : S, unknown : Discovery!Unknown({1, 2})]
    BY <2>1, <2>3
  <2> QED
    BY <2>4 DEF Discovery!EmptyDiscovery, Discovery!Message, Discovery!OFFER, S
<1>2. Hello!HelloWorld \in Hello!Message
  BY TextAssumption, EmptySeq
  DEF TextAssumption, Hello!HelloWorld, Hello!Message, Hello!Unknown
<1>3. HelloIdl!HelloWorld \in HelloIdl!Message
  BY TextAssumption DEF TextAssumption, HelloIdl!HelloWorld, HelloIdl!Message
<1> QED
  BY <1>1, <1>2, <1>3 DEF Type, createData, Message

(***************************************************************************)
(* An assigned object is what was assigned to it, whatever it was before:  *)
(* a default does not replace a value, but all is cleared first.           *)
(***************************************************************************)
THEOREM AssignedIsCopied ==
  ASSUME NEW type \in Type, NEW to \in Message(type), NEW from \in Message(type)
  PROVE  Assign(type, to, from) = from
<1>1. CASE type = "HelloWorld"
  <2>1. from \in Hello!Message
    BY <1>1 DEF Message
  <2>2. /\ from = [index |-> from.index, message |-> from.message, unknown |-> from.unknown]
        /\ <<>> \o from.unknown = from.unknown
    BY <2>1, ConcatEmptySeq DEF Hello!Message, Hello!Unknown
  <2>3. Assign(type, to, from) = Hello!MergeFrom(Hello!HelloWorld, from)
    BY <1>1 DEF Assign, Hello!Assign, Hello!CopyFrom, Hello!Clear
  <2> QED
    BY <2>2, <2>3 DEF Hello!MergeFrom, Hello!Merged, Hello!HelloWorld
<1>2. CASE type = "ServiceDiscovery"
  <2>1. from \in Discovery!Message
    BY <1>2 DEF Message
  <2>2. /\ from = [operation |-> from.operation, service_info |-> from.service_info,
                   unknown |-> from.unknown]
        /\ <<>> \o from.unknown = from.unknown
    BY <2>1, ConcatEmptySeq DEF Discovery!Message, Discovery!Unknown
  <2>3. Assign(type, to, from) = Discovery!MergeFrom(Discovery!EmptyDiscovery, from)
    BY <1>2 DEF Assign, Discovery!Assign, Discovery!CopyFrom, Discovery!Clear
  <2>4. (IF Discovery!has_service_info(from)
         THEN <<Discovery!MergeInfo(Discovery!service_info(Discovery!EmptyDiscovery),
                                    Discovery!service_info(from))>>
         ELSE <<>>) = from.service_info
    <3>1. CASE ~Discovery!has_service_info(from)
      BY <3>1 DEF Discovery!has_service_info
    <3>2. CASE Discovery!has_service_info(from)
      <4> DEFINE i == Discovery!service_info(from)
      <4>1. i \in Discovery!Info /\ from.service_info = <<i>>
        BY <2>1, <3>2, HasInfo DEF Discovery!has_service_info
      <4>2. /\ i = [service_id |-> i.service_id, instance_id |-> i.instance_id,
                    host_id |-> i.host_id, process_id |-> i.process_id,
                    unknown |-> i.unknown]
            /\ <<>> \o i.unknown = i.unknown
        BY <4>1, ConcatEmptySeq DEF Discovery!Info, Discovery!Unknown
      <4>3. Discovery!service_info(Discovery!EmptyDiscovery) = Discovery!EmptyInfo
        BY DEF Discovery!service_info, Discovery!has_service_info, Discovery!EmptyDiscovery
      <4> HIDE DEF i
      <4>4. Discovery!MergeInfo(Discovery!EmptyInfo, i) = i
        BY <4>2 DEF Discovery!MergeInfo, Discovery!Merged, Discovery!EmptyInfo
      <4> QED
        BY <3>2, <4>1, <4>3, <4>4 DEF i
    <3> QED
      BY <3>1, <3>2
  <2> QED
    BY <2>2, <2>3, <2>4
    DEF Discovery!MergeFrom, Discovery!Merged, Discovery!EmptyDiscovery, Discovery!OFFER
<1>3. CASE type = "IdlHelloWorld"
  BY <1>3 DEF Assign, Message, HelloIdl!Message, HelloIdl!Assign, HelloIdl!set_index,
              HelloIdl!set_message
<1> QED
  BY <1>1, <1>2, <1>3 DEF Type

\* Sizes of the IDL type: 13 bytes and the text.
LEMMA IdlSizes ==
  ASSUME NEW m \in HelloIdl!Message
  PROVE  /\ TextLength[m.message] \in Nat
         /\ HelloIdl!m_typeSize = 268
         /\ HelloIdl!CdrWritten(m) = 9 + TextLength[m.message]
         /\ HelloIdl!getSerializedSizeProvider(m) = 13 + TextLength[m.message]
         /\ HelloIdl!Fits(m, HelloIdl!m_typeSize) <=> TextLength[m.message] <= 255
<1>1. TextLength[m.message] \in Nat
  BY TextAssumption DEF TextAssumption, HelloIdl!Message
<1>2. HelloIdl!alignment(0, 4) = 0 /\ HelloIdl!alignment(4, 4) = 0
  BY DEF HelloIdl!alignment
<1>3. \A n \in Nat : HelloIdl!Aligned4(HelloIdl!Aligned4(0, 0), n) = 8 + n
  BY <1>2 DEF HelloIdl!Aligned4
<1>4. HelloIdl!m_typeSize = 268
  BY <1>3 DEF HelloIdl!m_typeSize, HelloIdl!getMaxCdrSerializedSize, HelloIdl!MaxString,
              HelloIdl!EncapsulationSize
<1>5. HelloIdl!getSerializedSizeProvider(m) = 13 + TextLength[m.message]
  BY <1>1, <1>3 DEF HelloIdl!getSerializedSizeProvider, HelloIdl!getCdrSerializedSize,
                    HelloIdl!EncapsulationSize
<1>6. HelloIdl!CdrWritten(m) = 9 + TextLength[m.message]
  BY <1>1 DEF HelloIdl!CdrWritten
<1> QED
  BY <1>1, <1>4, <1>5, <1>6 DEF HelloIdl!Fits, HelloIdl!EncapsulationSize

\* The protobuf messages: the size is that of the body, which is read to its end.
LEMMA ProtobufBody ==
  ASSUME NEW type \in Type, ~UsesIdl(type), NEW m \in Message(type)
  PROVE  /\ Serialize(type, m) \in Seq(Field)
         /\ ByteSizeLong(type, m) = WireSize(Serialize(type, m))
         /\ ByteSizeLong(type, m) \in Nat
         /\ ParseFromArray(type, Serialize(type, m), ByteSizeLong(type, m)) = m
<1>1. CASE type = "HelloWorld"
  <2> DEFINE F == Serialize(type, m)
  <2>1. m \in Hello!Message /\ F = Hello!Serialize(m)
        /\ ByteSizeLong(type, m) = Hello!ByteSizeLong(m)
    BY <1>1 DEF Message, Serialize, ByteSizeLong
  <2>2. F \in Seq(Hello!Scalar) /\ ByteSizeLong(type, m) = WireSize(F)
    BY <2>1, HelloSize
  <2>3. F \in Seq(Field) /\ WireSize(F) \in Nat /\ Len(F) \in Nat
    BY <2>2, ScalarsOnTheWire, LenProperties
  <2>4. Hello!ParseAll(Hello!ParseField, Hello!HelloWorld, F) = m
    BY <2>1, <2>3, HelloIsReadBack, HelloParsed
  <2>5. Hello!FieldsRead(F, WireSize(F)) = F
    BY <2>3, AllIsRead
  <2>6. ParseFromArray(type, F, WireSize(F)) = m
    BY <1>1, <2>4, <2>5 DEF ParseFromArray, Hello!ParseFromArray
  <2> QED
    BY <2>2, <2>3, <2>6
<1>2. CASE type = "ServiceDiscovery"
  <2> DEFINE F == Serialize(type, m)
  <2>1. m \in Discovery!Message /\ F = Discovery!Serialize(m)
        /\ ByteSizeLong(type, m) = Discovery!ByteSizeLong(m)
    BY <1>2 DEF Message, Serialize, ByteSizeLong
  <2>2. F \in Seq(Field) /\ ByteSizeLong(type, m) = WireSize(F)
    BY <2>1, DiscoverySize
  <2>3. WireSize(F) \in Nat /\ Len(F) \in Nat
    <3>1. Len(F) \in Nat /\ Hello!UpTo(Hello!FieldSizes(F)) \in [0 .. Len(F) -> Nat]
      BY <2>2, FieldSizesType, UpToIsSum
    <3> QED
      BY <3>1 DEF WireSize
  <2>4. Discovery!ParseAll(Discovery!ParseField, Discovery!EmptyDiscovery, F) = m
    BY <2>1, <2>3, DiscoveryIsReadBack, DiscoveryParsed
  <2>5. Discovery!FieldsRead(F, WireSize(F)) = F
    BY <2>2, AllIsRead, OneLibrary
  <2>6. ParseFromArray(type, F, WireSize(F)) = m
    BY <1>2, <2>4, <2>5 DEF ParseFromArray, Discovery!ParseFromArray
  <2> QED
    BY <2>2, <2>3, <2>6
<1> QED
  BY <1>1, <1>2 DEF Type, UsesIdl

(***************************************************************************)
(* serialize() stays in what the size provider made FastDDS reserve: it    *)
(* says at least the header and the object, and the IDL serializer, which  *)
(* writes to a buffer of the type's maximal size, never fills more of it.  *)
(***************************************************************************)
THEOREM RoomForAll ==
  ASSUME NEW type \in Type, NEW m \in Message(type)
  PROVE  Touched(type, m) <= Reserved(type, m)
<1>1. \A n \in Nat : Pad(n) \in Nat
  BY DEF Pad, HelloIdl!alignment
<1>2. CASE UsesIdl(type)
  <2>1. m \in HelloIdl!Message
    BY <1>2 DEF UsesIdl, Message
  <2>2. /\ TextLength[m.message] \in Nat
        /\ Touched(type, m) <= 8 + HelloIdl!m_typeSize /\ Touched(type, m) \in Nat
    BY <1>2, <2>1, IdlSizes
    DEF Touched, SerializeWith, IdlSerialize, HelloIdl!serialize, HelloIdl!EncapsulationSize,
        HeaderSize, CDR_VECTOR_LEN_SIZE, CDR_ENCAPSULATION_SIZE
  <2>3. m_typeSize(type) = 8 + HelloIdl!m_typeSize /\ HelloIdl!m_typeSize = 268
    BY <1>2, <2>1, IdlSizes
    DEF m_typeSize, getMaxSize, HeaderSize, CDR_VECTOR_LEN_SIZE, CDR_ENCAPSULATION_SIZE
  <2>4. getSerializedSizeProvider(type, m) \in Nat
    BY <1>1, <1>2, <2>1, IdlSizes
    DEF getSerializedSizeProvider, getSize, CDR_VECTOR_LEN_SIZE, CDR_ENCAPSULATION_SIZE
  <2> QED
    BY <2>2, <2>3, <2>4 DEF Reserved
<1>3. CASE ~UsesIdl(type)
  <2>1. ByteSizeLong(type, m) \in Nat
    BY <1>3, ProtobufBody
  <2>2. Touched(type, m) = 8 + ByteSizeLong(type, m)
    BY <1>3, <2>1
    DEF Touched, SerializeWith, ProtobufSerialize, HeaderSize, CDR_VECTOR_LEN_SIZE,
        CDR_ENCAPSULATION_SIZE
  <2>3. /\ getSerializedSizeProvider(type, m) \in Nat
        /\ getSerializedSizeProvider(type, m) >= 8 + ByteSizeLong(type, m)
    BY <1>1, <1>3, <2>1
    DEF getSerializedSizeProvider, getSize, CDR_VECTOR_LEN_SIZE, CDR_ENCAPSULATION_SIZE
  <2>4. m_typeSize(type) = 264
    BY <1>3 DEF m_typeSize, getMaxSize, PB_DEFAULT_MAX_SIZE, HeaderSize,
                CDR_VECTOR_LEN_SIZE, CDR_ENCAPSULATION_SIZE
  <2> QED
    BY <2>1, <2>2, <2>3, <2>4 DEF Reserved
<1> QED
  BY <1>2, <1>3

(***************************************************************************)
(* serialize() fails for a text that is longer than an IDL string may be,  *)
(* and for nothing else.                                                   *)
(***************************************************************************)
THEOREM FailsIfTooLong ==
  ASSUME NEW type \in Type, NEW m \in Message(type)
  PROVE  serialize(type, m).result
           = ~(UsesIdl(type) /\ TextLength[m.message] > HelloIdl!MaxString)
<1>1. CASE UsesIdl(type)
  <2>1. m \in HelloIdl!Message
    BY <1>1 DEF UsesIdl, Message
  <2>2. /\ TextLength[m.message] \in Nat
        /\ HelloIdl!Fits(m, HelloIdl!m_typeSize) <=> TextLength[m.message] <= 255
    BY <2>1, IdlSizes
  <2>3. serialize(type, m).result
          = IF HelloIdl!Fits(m, HelloIdl!m_typeSize) THEN TRUE ELSE FALSE
    BY <1>1 DEF serialize, SerializeWith, IdlSerialize, HelloIdl!serialize
  <2>4. TextLength[m.message] <= 255 <=> ~(TextLength[m.message] > HelloIdl!MaxString)
    BY <2>2 DEF HelloIdl!MaxString
  <2> QED
    BY <1>1, <2>2, <2>3, <2>4, Zenon
<1>2. CASE ~UsesIdl(type)
  BY <1>2 DEF serialize, SerializeWith, ProtobufSerialize
<1> QED
  BY <1>1, <1>2

(***************************************************************************)
(* What was serialized is deserialized to the same object, with the fields *)
(* this version does not know, for every type and every object.            *)
(***************************************************************************)
THEOREM ReadBack ==
  ASSUME NEW type \in Type, NEW m \in Message(type), serialize(type, m).result
  PROVE  deserialize(type, serialize(type, m)) = [result |-> TRUE, data |-> m]
<1>1. CASE UsesIdl(type)
  <2>1. m \in HelloIdl!Message /\ type = "IdlHelloWorld"
    BY <1>1 DEF UsesIdl, Message
  <2>2. HelloIdl!Fits(m, HelloIdl!m_typeSize)
    BY <1>1, <2>1 DEF serialize, SerializeWith, IdlSerialize, HelloIdl!serialize
  <2>3. /\ serialize(type, m).body = <<m>>
        /\ serialize(type, m).size = HelloIdl!getSerializedSizeProvider(m)
    BY <1>1, <2>2 DEF serialize, SerializeWith, IdlSerialize, HelloIdl!serialize, getSize
  <2>4. HelloIdl!CanDeserialize(<<m>>, HelloIdl!getSerializedSizeProvider(m))
    BY <2>1, IdlSizes DEF HelloIdl!CanDeserialize, HelloIdl!EncapsulationSize
  <2>5. HelloIdl!deserialize(<<m>>) = m
    <3>1. HelloIdl!HelloWorld \in Message(type)
      BY <2>1, CreatedData DEF createData, Type
    <3>2. Assign(type, HelloIdl!HelloWorld, m) = m
      BY <3>1, AssignedIsCopied
    <3> QED
      BY <2>1, <3>2 DEF Assign, HelloIdl!deserialize
  <2> QED
    BY <1>1, <2>3, <2>4, <2>5 DEF deserialize, IdlDeserialize
<1>2. CASE ~UsesIdl(type)
  <2> DEFINE F == Serialize(type, m)
             n == ByteSizeLong(type, m)
  <2>1. serialize(type, m).body = F /\ serialize(type, m).size = n
    BY <1>2 DEF serialize, SerializeWith, ProtobufSerialize, getSize
  <2>2. Hello!CanParse(F, n) /\ ParseFromArray(type, F, n) = m
    BY <1>2, ProtobufBody, AllIsRead
  <2> HIDE DEF F, n
  <2> QED
    BY <1>2, <2>1, <2>2 DEF deserialize, ProtobufDeserialize
<1> QED
  BY <1>1, <1>2

=============================================================================
