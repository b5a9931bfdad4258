------------------------ MODULE ManifestFormatProofs ------------------------
(***************************************************************************)
(* Facts about the manifest on the wire and in the host, for ManifestStream *)
(* and HubStart.  Induction goes by the least counterexample (WFMin).      *)
(***************************************************************************)
EXTENDS ManifestFormat, SequenceTheorems, WellFoundedInduction, TLAPS

-----------------------------------------------------------------------------
(***************************************************************************)
(* Least elements.                                                         *)
(***************************************************************************)
Less == {ss \in Nat \X Nat : ss[1] < ss[2]}

(* A nonempty set of naturals has a least element.                          *)
LEMMA LeastNatural ==
  ASSUME NEW S, S \subseteq Nat, S # {}
  PROVE  \E n \in S : \A m \in S : n <= m
<1>1. IsWellFoundedOn(Less, Nat)
  BY NatLessThanWellFounded DEF OpToRel, Less
<1>2. PICK n \in S : \A m \in S : ~(<<m, n>> \in Less)
  BY <1>1, WFMin
<1>3. \A m \in S : ~(m < n)
  BY <1>2 DEF Less
<1>4. QED
  BY <1>3

LEMMA MinIsLeast ==
  ASSUME NEW S, S \subseteq Nat, S # {}
  PROVE  Min(S) \in S /\ \A m \in S : Min(S) <= m
BY LeastNatural DEF Min

(* Induction: a set of the naturals from a to b that a is in, and the next  *)
(* of each but the last, is all of them.                                    *)
LEMMA Induction ==
  ASSUME NEW a \in Nat, NEW b \in Nat, NEW S, a \in S,
         \A n \in a..b - 1 : n \in S => n + 1 \in S
  PROVE  \A n \in a..b : n \in S
<1> SUFFICES ASSUME NEW n \in a..b, n \notin S
             PROVE  FALSE
  OBVIOUS
<1> DEFINE Bad == {m \in a..b : m \notin S}
<1>1. Bad \subseteq Nat /\ n \in Bad
  OBVIOUS
<1>2. PICK m \in Bad : \A k \in Bad : m <= k
  BY <1>1, LeastNatural
<1>3. m \in a..b /\ m # a /\ m - 1 \notin Bad
  BY <1>2
<1>4. m - 1 \in a..b - 1 /\ m - 1 \in S
  BY <1>3
<1>5. m - 1 + 1 \in S /\ m - 1 + 1 = m
  BY <1>3, <1>4
<1>6. QED
  BY <1>2, <1>5

-----------------------------------------------------------------------------
(***************************************************************************)
(* FlattenSeq.                                                             *)
(***************************************************************************)
FlatUpTo(ss, n, f) == f = [i \in 1..n |-> IF i = 1 THEN ss[i] ELSE f[i - 1] \o ss[i]]
IsFlattening(ss, f) == FlatUpTo(ss, Len(ss), f)

LEMMA FlatAt ==
  ASSUME NEW ss, NEW n, NEW f, FlatUpTo(ss, n, f), NEW i \in 1..n
  PROVE  f[i] = IF i = 1 THEN ss[i] ELSE f[i - 1] \o ss[i]
BY DEF FlatUpTo

LEMMA FlatteningExists ==
  ASSUME NEW ss, Len(ss) \in Nat
  PROVE  \E f : IsFlattening(ss, f)
<1> DEFINE S == {n \in Nat : \E f : FlatUpTo(ss, n, f)}
<1>1. 0 \in S
  <2>1. FlatUpTo(ss, 0, [i \in 1..0 |-> <<>>])
    BY DEF FlatUpTo
  <2>2. QED
    BY <2>1
<1>2. ASSUME NEW n \in 0..Len(ss) - 1, n \in S
      PROVE  n + 1 \in S
  <2>1. PICK f : FlatUpTo(ss, n, f)
    BY <1>2
  <2> DEFINE g == [i \in 1..n + 1 |-> IF i = n + 1
                     THEN IF i = 1 THEN ss[i] ELSE f[i - 1] \o ss[i]
                     ELSE f[i]]
  <2>2. \A i \in 1..n : g[i] = f[i] /\ f[i] = IF i = 1 THEN ss[i] ELSE f[i - 1] \o ss[i]
    BY <2>1, FlatAt
  <2>3. \A i \in 1..n + 1 : g[i] = IF i = 1 THEN ss[i] ELSE g[i - 1] \o ss[i]
    <3> SUFFICES ASSUME NEW i \in 1..n + 1
                 PROVE  g[i] = IF i = 1 THEN ss[i] ELSE g[i - 1] \o ss[i]
      OBVIOUS
    <3>1. i # 1 => i - 1 \in 1..n
      OBVIOUS
    <3>2. i # 1 => g[i - 1] = f[i - 1]
      BY <3>1, <2>2
    <3>3. CASE i = n + 1
      BY <3>2, <3>3
    <3>4. CASE i \in 1..n
      BY <3>2, <3>4, <2>2
    <3>5. QED
      BY <3>3, <3>4
  <2>4. g = [i \in 1..n + 1 |-> g[i]]
    OBVIOUS
  <2>5. FlatUpTo(ss, n + 1, g)
    <3> HIDE DEF g
    <3>1. QED
      BY <2>3, <2>4 DEF FlatUpTo
  <2>6. QED
    BY <2>5
<1>3. Len(ss) \in S
  <2> HIDE DEF S
  <2>1. \A n \in 0..Len(ss) : n \in S
    BY <1>1, <1>2, Induction
  <2>2. QED
    BY <2>1
<1>4. QED
  BY <1>3 DEF IsFlattening

Begins(ss, tt) ==
  /\ Len(ss) \in Nat /\ Len(tt) \in Nat /\ Len(ss) <= Len(tt)
  /\ \A i \in 1..Len(ss) : ss[i] = tt[i]

LEMMA FlatteningUnique ==
  ASSUME NEW ss, NEW tt, Begins(ss, tt),
         NEW f, NEW g, IsFlattening(ss, f), IsFlattening(tt, g)
  PROVE  \A i \in 1..Len(ss) : f[i] = g[i]
<1> USE DEF Begins
<1> DEFINE S == {i \in Nat : i \in 1..Len(ss) => f[i] = g[i]}
<1>1. \A i \in 1..Len(ss) : f[i] = IF i = 1 THEN ss[i] ELSE f[i - 1] \o ss[i]
  BY FlatAt DEF IsFlattening
<1>2. \A i \in 1..Len(ss) : g[i] = IF i = 1 THEN ss[i] ELSE g[i - 1] \o ss[i]
  <2> TAKE i \in 1..Len(ss)
  <2>1. i \in 1..Len(tt)
    OBVIOUS
  <2>2. g[i] = IF i = 1 THEN tt[i] ELSE g[i - 1] \o tt[i]
    BY <2>1, FlatAt DEF IsFlattening
  <2>3. QED
    BY <2>2
<1>3. 0 \in S
  OBVIOUS
<1>4. ASSUME NEW i \in 0..Len(ss) - 1, i \in S
      PROVE  i + 1 \in S
  <2>1. i # 0 => f[i] = g[i]
    BY <1>4
  <2>2. i + 1 \in 1..Len(ss) /\ i + 1 - 1 = i
    OBVIOUS
  <2>3. f[i + 1] = g[i + 1]
    BY <2>1, <2>2, <1>1, <1>2
  <2>4. QED
    BY <2>3
<1>5. \A i \in 0..Len(ss) : i \in S
  <2> HIDE DEF S
  <2>1. QED
    BY <1>3, <1>4, Induction
<1>6. QED
  BY <1>5

LEMMA FlattenIs ==
  ASSUME NEW ss, Len(ss) \in Nat \ {0}
  PROVE  \E f : IsFlattening(ss, f) /\ FlattenSeq(ss) = f[Len(ss)]
<1> DEFINE flatten == CHOOSE f : IsFlattening(ss, f)
<1>1. IsFlattening(ss, flatten)
  BY FlatteningExists
<1>2. FlattenSeq(ss) = flatten[Len(ss)]
  BY DEF FlattenSeq, IsFlattening, FlatUpTo
<1>3. QED
  BY <1>1, <1>2

LEMMA FlattenEmpty == FlattenSeq(<<>>) = <<>>
BY DEF FlattenSeq

LEMMA FlattenType ==
  ASSUME NEW S, NEW ss \in Seq(Seq(S))
  PROVE  FlattenSeq(ss) \in Seq(S)
<1>1. CASE ss = <<>>
  <2>1. FlattenSeq(ss) = <<>>
    BY <1>1, FlattenEmpty
  <2>2. QED
    BY <2>1
<1>2. CASE ss # <<>>
  <2>1. Len(ss) \in Nat \ {0}
    BY <1>2
  <2>2. PICK f : IsFlattening(ss, f) /\ FlattenSeq(ss) = f[Len(ss)]
    BY <2>1, FlattenIs
  <2> DEFINE T == {i \in Nat : i = 0 \/ f[i] \in Seq(S)}
  <2>3. \A i \in 1..Len(ss) : f[i] = IF i = 1 THEN ss[i] ELSE f[i - 1] \o ss[i]
    BY <2>2, FlatAt DEF IsFlattening
  <2>4. \A i \in 1..Len(ss) : ss[i] \in Seq(S)
    OBVIOUS
  <2>5. 0 \in T
    OBVIOUS
  <2>6. ASSUME NEW i \in 0..Len(ss) - 1, i \in T
        PROVE  i + 1 \in T
    <3>1. i + 1 \in 1..Len(ss) /\ i + 1 - 1 = i
      OBVIOUS
    <3>2. f[i + 1] = IF i + 1 = 1 THEN ss[i + 1] ELSE f[i] \o ss[i + 1]
      BY <3>1, <2>3
    <3>3. ss[i + 1] \in Seq(S) /\ (i = 0 \/ f[i] \in Seq(S))
      BY <3>1, <2>4, <2>6
    <3>4. CASE i = 0
      BY <3>2, <3>3, <3>4
    <3>5. CASE i # 0
      <4>0. i + 1 # 1
        BY <3>5
      <4>1. f[i + 1] = f[i] \o ss[i + 1]
        BY <4>0, <3>2
      <4>2. f[i + 1] \in Seq(S)
        BY <4>1, <3>3, <3>5
      <4>3. QED
        BY <4>2
    <3>6. QED
      BY <3>4, <3>5
  <2>7. \A i \in 0..Len(ss) : i \in T
    <3> HIDE DEF T
    <3>1. QED
      BY <2>1, <2>5, <2>6, Induction
  <2>8. Len(ss) \in T
    <3> HIDE DEF T
    <3>1. QED
      BY <2>1, <2>7
  <2>9. QED
    BY <2>1, <2>2, <2>8
<1>3. QED
  BY <1>1, <1>2

LEMMA FlattenAppend ==
  ASSUME NEW S, NEW ss \in Seq(Seq(S)), NEW s \in Seq(S)
  PROVE  FlattenSeq(Append(ss, s)) = FlattenSeq(ss) \o s
<1> DEFINE tt == Append(ss, s)
<1>1. /\ tt \in Seq(Seq(S)) /\ Len(tt) = Len(ss) + 1 /\ Len(ss) \in Nat
      /\ \A i \in 1..Len(ss) : tt[i] = ss[i]
      /\ tt[Len(tt)] = s
  OBVIOUS
<1> HIDE DEF tt
<1>2. PICK g : IsFlattening(tt, g) /\ FlattenSeq(tt) = g[Len(tt)]
  BY <1>1, FlattenIs
<1>3. g[Len(tt)] = IF Len(tt) = 1 THEN tt[Len(tt)] ELSE g[Len(tt) - 1] \o tt[Len(tt)]
  BY <1>1, <1>2, FlatAt DEF IsFlattening
<1>4. CASE ss = <<>>
  BY <1>1, <1>2, <1>3, <1>4, FlattenEmpty DEF tt
<1>5. CASE ss # <<>>
  <2>1. Len(ss) \in Nat \ {0}
    BY <1>5
  <2>2. PICK f : IsFlattening(ss, f) /\ FlattenSeq(ss) = f[Len(ss)]
    BY <2>1, FlattenIs
  <2>3. f[Len(ss)] = g[Len(ss)]
    <3>1. Begins(ss, tt)
      <4>1. Len(ss) \in Nat /\ Len(tt) = Len(ss) + 1
        BY <1>1
      <4>2. Len(ss) \in Nat /\ Len(tt) \in Nat /\ Len(ss) <= Len(tt)
        BY <4>1
      <4>3. \A i \in 1..Len(ss) : ss[i] = tt[i]
        BY <1>1
      <4>4. QED
        BY <4>2, <4>3 DEF Begins
    <3>2. \A i \in 1..Len(ss) : f[i] = g[i]
      BY <3>1, <2>2, <1>2, FlatteningUnique
    <3>3. QED
      BY <3>2, <2>1
  <2>4. QED
    BY <2>1, <2>2, <2>3, <1>1, <1>2, <1>3 DEF tt
<1>6. QED
  BY <1>4, <1>5

LEMMA FunctionIsSequence ==
  ASSUME NEW T, NEW n \in Nat, NEW g \in [1..n -> T]
  PROVE  g \in Seq(T) /\ Len(g) = n
OBVIOUS

(* One sequence more.                                                       *)
LEMMA FlattenGrow ==
  ASSUME NEW S, NEW n \in Nat,
         NEW f, f = [k \in 1..n + 1 |-> f[k]], \A k \in 1..n + 1 : f[k] \in Seq(S),
         NEW g, g = [k \in 1..n |-> f[k]]
  PROVE  FlattenSeq(f) = FlattenSeq(g) \o f[n + 1]
<1>1. g \in Seq(Seq(S)) /\ Len(g) = n
  <2>1. \A k \in 1..n : f[k] \in Seq(S)
    OBVIOUS
  <2>2. g \in [1..n -> Seq(S)]
    BY <2>1
  <2>3. QED
    BY <2>2, FunctionIsSequence
<1>2. f[n + 1] \in Seq(S)
  OBVIOUS
<1>3. f = Append(g, f[n + 1])
  <2>1. f \in Seq(Seq(S)) /\ Len(f) = n + 1
    OBVIOUS
  <2>2. Append(g, f[n + 1]) \in Seq(Seq(S)) /\ Len(Append(g, f[n + 1])) = n + 1
    BY <1>1, <1>2
  <2>3. \A k \in 1..n + 1 : f[k] = Append(g, f[n + 1])[k]
    BY <1>1, <1>2
  <2>4. QED
    BY <2>1, <2>2, <2>3, SeqEqual
<1>4. QED
  BY <1>1, <1>2, <1>3, FlattenAppend

(* Induction on a sequence, by the last element.                            *)
LEMMA SequenceInduction ==
  ASSUME NEW S, NEW T, <<>> \in T, \A s \in Seq(S), e \in S : s \in T => Append(s, e) \in T
  PROVE  \A s \in Seq(S) : s \in T
<1> SUFFICES ASSUME NEW t \in Seq(S)
             PROVE  t \in T
  OBVIOUS
<1> DEFINE N == {n \in Nat : \A s \in Seq(S) : Len(s) = n => s \in T}
<1>1. 0 \in N
  <2>1. \A s \in Seq(S) : Len(s) = 0 => s = <<>>
    OBVIOUS
  <2>2. QED
    BY <2>1
<1>2. ASSUME NEW n \in 0..Len(t) - 1, n \in N
      PROVE  n + 1 \in N
  <2> SUFFICES ASSUME NEW s \in Seq(S), Len(s) = n + 1
               PROVE  s \in T
    OBVIOUS
  <2>1. PICK r \in Seq(S), e \in S : s = Append(r, e)
    <3>1. s # <<>>
      OBVIOUS
    <3>2. QED
      BY <3>1, SequenceEmptyOrAppend
  <2>2. Len(r) = n
    BY <2>1
  <2>3. QED
    BY <1>2, <2>1, <2>2
<1>3. \A n \in 0..Len(t) : n \in N
  <2> HIDE DEF N
  <2>1. Len(t) \in Nat
    OBVIOUS
  <2>2. QED
    BY <1>1, <1>2, <2>1, Induction
<1>4. Len(t) \in N
  <2> HIDE DEF N
  <2>1. Len(t) \in 0..Len(t)
    OBVIOUS
  <2>2. QED
    BY <1>3, <2>1
<1>5. QED
  BY <1>4

-----------------------------------------------------------------------------
(***************************************************************************)
(* Types.                                                                  *)
(***************************************************************************)
Bits(s) == {NUL} \cup ToSet(Bytes(s))
AnyByte == {NUL} \cup (Strings \X Nat)

(* What may travel for a manifest: parts of its entries, and other reports. *)
Parts(m) ==
  {r \in [type : {"MANIFEST_ENTRY"}, seq : Nat, more : BOOLEAN, last : BOOLEAN,
          header : {"capability", "config id", "name"}, body : Seq(AnyByte)] :
     r.seq + 1 \in DOMAIN m /\ r.body \in Seq(Bits(m[r.seq + 1]))}
Other == [type |-> "other"]
Wire(m) == Parts(m) \cup {Other}

LEMMA BitsAreBytes ==
  ASSUME NEW s \in Strings
  PROVE  /\ Length[s] \in Nat
         /\ ToSet(Bytes(s)) = {<<s, k>> : k \in 1..Length[s]}
         /\ Bits(s) \subseteq AnyByte /\ NUL \notin ToSet(Bytes(s))
<1>1. Length[s] \in Nat
  BY FormatAssumption
<1>2. ToSet(Bytes(s)) = {<<s, k>> : k \in 1..Length[s]}
  BY DEF ToSet, Bytes
<1>3. ToSet(Bytes(s)) \subseteq Strings \X Nat
  BY <1>1, <1>2
<1>4. \A k \in 1..Length[s] : NUL # <<s, k>>
  BY DEF NUL
<1>5. QED
  BY <1>1, <1>2, <1>3, <1>4 DEF Bits, AnyByte

LEMMA BytesType ==
  ASSUME NEW s \in Strings
  PROVE  Bytes(s) \in Seq(AnyByte) /\ Len(Bytes(s)) = Length[s] /\ Length[s] \in Nat
<1>1. Length[s] \in Nat
  BY FormatAssumption
<1>2. \A k \in 1..Length[s] : <<s, k>> \in AnyByte
  BY <1>1 DEF AnyByte
<1>3. Bytes(s) \in [1..Length[s] -> AnyByte]
  BY <1>2 DEF Bytes
<1>4. QED
  BY <1>1, <1>3, FunctionIsSequence

LEMMA BodyType ==
  ASSUME NEW s \in Strings, NEW from \in Nat
  PROVE  Body(s, from) \in Seq(Bits(s)) /\ Len(Body(s, from)) = ChunkSize
<1>1. Length[s] \in Nat /\ ChunkSize \in Nat
  BY FormatAssumption
<1>2. \A k \in 1..ChunkSize : (IF from + k <= Length[s] THEN <<s, from + k>> ELSE NUL) \in Bits(s)
  <2> TAKE k \in 1..ChunkSize
  <2>1. CASE from + k <= Length[s]
    <3>1. from + k \in 1..Length[s]
      BY <2>1, <1>1
    <3>2. <<s, from + k>> \in ToSet(Bytes(s))
      BY <3>1, BitsAreBytes
    <3>3. QED
      BY <3>2, <2>1 DEF Bits
  <2>2. CASE ~(from + k <= Length[s])
    BY <2>2 DEF Bits
  <2>3. QED
    BY <2>1, <2>2
<1>3. QED
  BY <1>1, <1>2 DEF Body

LEMMA ChunkType ==
  ASSUME NEW m \in Seq(Strings), NEW i \in DOMAIN m, NEW from \in Nat, NEW isLast \in BOOLEAN
  PROVE  Chunk(i - 1, m[i], from, isLast) \in Parts(m)
<1> DEFINE s == m[i]
           r == Chunk(i - 1, s, from, isLast)
<1>1. s \in Strings /\ i - 1 \in Nat /\ i - 1 + 1 = i
  OBVIOUS
<1>2. Body(s, from) \in Seq(Bits(s))
  BY <1>1, BodyType
<1>3. Body(s, from) \in Seq(AnyByte)
  BY <1>1, <1>2, BitsAreBytes, SeqMonotonic
<1>4. /\ (IF from = 0 THEN Header(s) ELSE ZeroHeader) \in {"capability", "config id", "name"}
      /\ More(s, from) \in BOOLEAN /\ (isLast /\ ~More(s, from)) \in BOOLEAN
  BY DEF Header, ZeroHeader, More
<1>5. r \in [type : {"MANIFEST_ENTRY"}, seq : Nat, more : BOOLEAN, last : BOOLEAN,
             header : {"capability", "config id", "name"}, body : Seq(AnyByte)]
  BY <1>1, <1>3, <1>4 DEF Chunk
<1>6. r.seq + 1 \in DOMAIN m /\ r.body \in Seq(Bits(m[r.seq + 1]))
  <2>1. r.seq = i - 1 /\ r.body = Body(s, from)
    BY DEF Chunk
  <2> HIDE DEF r
  <2>2. QED
    BY <1>1, <1>2, <2>1
<1>7. QED
  BY <1>5, <1>6 DEF Parts

LEMMA Products ==
  ASSUME NEW a \in Nat, NEW b \in Nat
  PROVE  a * b \in Nat /\ (a + 1) * b = a * b + b
OBVIOUS

LEMMA Quotient ==
  ASSUME NEW a \in Nat, NEW b \in Nat \ {0}
  PROVE  /\ a \div b \in Nat
         /\ (a \div b) * b <= a /\ a < (a \div b) * b + b
OBVIOUS

(* The last chunk is the one that ends the string.                          *)
LEMMA CountProperties ==
  ASSUME NEW s \in Strings
  PROVE  /\ Count(s) \in Nat \ {0}
         /\ \A k \in 1..Count(s) : /\ (k - 1) * ChunkSize \in Nat
                                   /\ More(s, (k - 1) * ChunkSize) <=> k < Count(s)
<1>1. Length[s] \in Nat /\ ChunkSize \in Nat \ {0}
  BY FormatAssumption
<1>2. CASE Length[s] = 0
  BY <1>1, <1>2 DEF Count, More
<1>3. CASE Length[s] # 0
  <2> DEFINE q == Count(s)
  <2>1. q = (Length[s] + ChunkSize - 1) \div ChunkSize /\ Length[s] + ChunkSize - 1 \in Nat
    BY <1>1, <1>3 DEF Count
  <2>2. q \in Nat /\ q * ChunkSize <= Length[s] + ChunkSize - 1 /\ Length[s] - 1 < q * ChunkSize
    BY <1>1, <2>1, Quotient
  <2> HIDE DEF q
  <2>3. q # 0
    BY <1>1, <1>3, <2>2
  <2>4. ASSUME NEW k \in 1..q
        PROVE  /\ (k - 1) * ChunkSize \in Nat
               /\ More(s, (k - 1) * ChunkSize) <=> k < q
    <3>1. (k - 1) * ChunkSize \in Nat
      BY <1>1
    <3>2. (k - 1) * ChunkSize + ChunkSize = k * ChunkSize /\ k * ChunkSize \in Nat
      BY <1>1, <2>2
    <3>3. CASE k = q
      BY <3>2, <3>3, <2>2, <1>1, <1>3 DEF More
    <3>4. CASE k < q
      <4>1. k * ChunkSize + ChunkSize = (k + 1) * ChunkSize
        BY <1>1, <2>2
      <4>2. (k + 1) * ChunkSize <= q * ChunkSize
        BY <1>1, <2>2, <3>4
      <4>3. QED
        BY <4>1, <4>2, <3>1, <3>2, <3>4, <2>2, <1>1 DEF More
    <3>5. QED
      BY <3>1, <3>3, <3>4, <2>2
  <2>5. QED
    BY <2>2, <2>3, <2>4 DEF q
<1>4. QED
  BY <1>2, <1>3

LEMMA ChunksType ==
  ASSUME NEW m \in Seq(Strings), NEW i \in DOMAIN m, NEW isLast \in BOOLEAN
  PROVE  Chunks(i - 1, m[i], isLast) \in Seq(Parts(m)) /\ Len(Chunks(i - 1, m[i], isLast)) = Count(m[i])
<1>1. m[i] \in Strings
  OBVIOUS
<1>2. Count(m[i]) \in Nat
  BY <1>1, CountProperties
<1>3. \A k \in 1..Count(m[i]) : Chunk(i - 1, m[i], (k - 1) * ChunkSize, isLast) \in Parts(m)
  BY <1>1, CountProperties, ChunkType
<1>4. Chunks(i - 1, m[i], isLast) \in [1..Count(m[i]) -> Parts(m)]
  BY <1>3 DEF Chunks
<1>5. QED
  BY <1>2, <1>4, FunctionIsSequence

LEMMA StreamType ==
  ASSUME NEW m \in Seq(Strings), NEW start \in Nat
  PROVE  StreamFrom(m, start) \in Seq(Parts(m))
<1> DEFINE f == [k \in DOMAIN m |->
                  IF k - 1 >= start THEN Chunks(k - 1, m[k], k = Len(m)) ELSE <<>>]
<1>1. DOMAIN m = 1..Len(m) /\ Len(m) \in Nat
  OBVIOUS
<1>2. \A k \in DOMAIN m : (IF k - 1 >= start THEN Chunks(k - 1, m[k], k = Len(m)) ELSE <<>>) \in Seq(Parts(m))
  <2> TAKE k \in DOMAIN m
  <2>1. Chunks(k - 1, m[k], k = Len(m)) \in Seq(Parts(m))
    <3>1. (k = Len(m)) \in BOOLEAN
      OBVIOUS
    <3>2. QED
      BY <3>1, ChunksType
  <2>2. <<>> \in Seq(Parts(m))
    OBVIOUS
  <2>3. QED
    BY <2>1, <2>2
<1>3. f \in [1..Len(m) -> Seq(Parts(m))]
  BY <1>1, <1>2
<1>4. f \in Seq(Seq(Parts(m)))
  BY <1>1, <1>3, FunctionIsSequence
<1>5. QED
  BY <1>4, FlattenType DEF StreamFrom

-----------------------------------------------------------------------------
(***************************************************************************)
(* What the host makes of it.                                              *)
(***************************************************************************)
(* A string ends before its first NUL.                                      *)
LEMMA UpToNulIs ==
  ASSUME NEW S, NEW bytes \in Seq(S), NEW e \in 0..Len(bytes),
         \A k \in 1..e : bytes[k] # NUL, e < Len(bytes) => bytes[e + 1] = NUL
  PROVE  UpToNul(bytes) = SubSeq(bytes, 1, e)
<1> DEFINE I == {i \in 1..Len(bytes) : bytes[i] = NUL}
           end == SelectInSeq(bytes, LAMBDA b : b = NUL)
<1>1. Len(bytes) \in Nat
  OBVIOUS
<1>2. end = IF I # {} THEN Min(I) ELSE 0
  BY DEF SelectInSeq
<1>0. UpToNul(bytes) = IF end = 0 THEN bytes ELSE SubSeq(bytes, 1, end - 1)
  BY DEF UpToNul
<1> HIDE DEF end
<1>3. CASE e = Len(bytes)
  <2>1. I = {}
    BY <1>3
  <2>2. UpToNul(bytes) = bytes
    BY <1>0, <1>2, <2>1
  <2>3. QED
    BY <2>2, <1>3, SubSeqFull
<1>4. CASE e < Len(bytes)
  <2>1. e + 1 \in I /\ I \subseteq Nat
    BY <1>1, <1>4
  <2>2. Min(I) \in I /\ \A i \in I : Min(I) <= i
    BY <2>1, MinIsLeast
  <2>3. ~(Min(I) \in 1..e)
    BY <2>2
  <2>4. Min(I) = e + 1
    BY <2>1, <2>2, <2>3
  <2>5. end = e + 1
    <3> HIDE DEF I
    <3>1. QED
      BY <1>2, <2>1, <2>4
  <2>6. e + 1 # 0 /\ e + 1 - 1 = e
    OBVIOUS
  <2>7. QED
    BY <1>0, <2>5, <2>6
<1>5. QED
  BY <1>1, <1>3, <1>4

LEMMA StringEnd ==
  ASSUME NEW S, NEW bytes \in Seq(S)
  PROVE  \E e \in 0..Len(bytes) : /\ \A k \in 1..e : bytes[k] # NUL
                                  /\ e < Len(bytes) => bytes[e + 1] = NUL
<1> DEFINE I == {i \in 1..Len(bytes) : bytes[i] = NUL}
<1>1. Len(bytes) \in Nat
  OBVIOUS
<1>2. CASE I = {}
  <2>1. \A k \in 1..Len(bytes) : bytes[k] # NUL
    BY <1>2
  <2>2. QED
    BY <1>1, <2>1
<1>3. CASE I # {}
  <2>1. PICK n \in I : \A i \in I : n <= i
    <3>1. I \subseteq Nat
      BY <1>1
    <3> HIDE DEF I
    <3>2. QED
      BY <3>1, <1>3, LeastNatural
  <2>2. n - 1 \in 0..Len(bytes) /\ bytes[n - 1 + 1] = NUL
    BY <1>1
  <2>3. \A k \in 1..n - 1 : bytes[k] # NUL
    BY <1>1, <2>1
  <2>4. QED
    BY <2>2, <2>3
<1>4. QED
  BY <1>2, <1>3

LEMMA UpToNulType ==
  ASSUME NEW S, NEW bytes \in Seq(S)
  PROVE  UpToNul(bytes) \in Seq(S \ {NUL}) /\ ToSet(UpToNul(bytes)) \subseteq S \ {NUL}
<1>1. PICK e \in 0..Len(bytes) : /\ \A k \in 1..e : bytes[k] # NUL
                                 /\ e < Len(bytes) => bytes[e + 1] = NUL
  BY StringEnd
<1>2. UpToNul(bytes) = SubSeq(bytes, 1, e)
  BY <1>1, UpToNulIs
<1>3. e \in Nat /\ \A k \in 1..e : bytes[k] \in S \ {NUL}
  BY <1>1
<1>4. SubSeq(bytes, 1, e) \in Seq(S \ {NUL})
  BY <1>3, SubSeqProperties
<1>5. \A t \in Seq(S \ {NUL}) : ToSet(t) \subseteq S \ {NUL}
  BY DEF ToSet
<1>6. QED
  BY <1>2, <1>4, <1>5

LEMMA PartBody ==
  ASSUME NEW m, NEW r \in Wire(m), NEW n
  PROVE  /\ IsPart(r, n) => n \in Nat /\ n + 1 \in DOMAIN m /\ r.body \in Seq(Bits(m[n + 1]))
         /\ (IF IsPart(r, n) THEN r.body ELSE <<>>) \in Seq(AnyByte)
<1>1. CASE r \in Parts(m)
  <2>1. r.type = "MANIFEST_ENTRY" /\ r.seq \in Nat /\ r.body \in Seq(AnyByte)
    BY <1>1 DEF Parts
  <2>2. r.seq + 1 \in DOMAIN m /\ r.body \in Seq(Bits(m[r.seq + 1]))
    BY <1>1 DEF Parts
  <2>3. QED
    BY <2>1, <2>2 DEF IsPart
<1>2. CASE r = Other
  BY <1>2 DEF Other, IsPart
<1>3. QED
  BY <1>1, <1>2 DEF Wire

LEMMA AssembledType ==
  ASSUME NEW m, NEW reports \in Seq(Wire(m)), NEW n
  PROVE  /\ Assembled(reports, n) \in Seq(AnyByte)
         /\ n + 1 \in DOMAIN m => Assembled(reports, n) \in Seq(Bits(m[n + 1]))
<1> DEFINE f == [k \in DOMAIN reports |-> IF IsPart(reports[k], n) THEN reports[k].body ELSE <<>>]
<1>1. DOMAIN reports = 1..Len(reports) /\ Len(reports) \in Nat
  OBVIOUS
<1>2. \A k \in DOMAIN reports : reports[k] \in Wire(m)
  OBVIOUS
<1>3. Assembled(reports, n) = FlattenSeq(f)
  BY DEF Assembled
<1>4. Assembled(reports, n) \in Seq(AnyByte)
  <2>1. \A k \in DOMAIN reports : (IF IsPart(reports[k], n) THEN reports[k].body ELSE <<>>) \in Seq(AnyByte)
    BY <1>2, PartBody
  <2>2. f \in [1..Len(reports) -> Seq(AnyByte)]
    BY <2>1, <1>1
  <2>3. f \in Seq(Seq(AnyByte))
    BY <2>2, <1>1, FunctionIsSequence
  <2> HIDE DEF f
  <2>4. QED
    BY <2>3, <1>3, FlattenType
<1>5. ASSUME n + 1 \in DOMAIN m
      PROVE  Assembled(reports, n) \in Seq(Bits(m[n + 1]))
  <2> DEFINE S == Bits(m[n + 1])
  <2>1. \A k \in DOMAIN reports : (IF IsPart(reports[k], n) THEN reports[k].body ELSE <<>>) \in Seq(S)
    <3> TAKE k \in DOMAIN reports
    <3>1. IsPart(reports[k], n) => reports[k].body \in Seq(S)
      BY <1>2, PartBody
    <3> HIDE DEF S
    <3>2. QED
      BY <3>1
  <2> HIDE DEF S
  <2>2. f \in [1..Len(reports) -> Seq(S)]
    BY <2>1, <1>1
  <2>3. f \in Seq(Seq(S))
    BY <2>2, <1>1, FunctionIsSequence
  <2> HIDE DEF f
  <2>4. Assembled(reports, n) \in Seq(S)
    BY <2>3, <1>3, FlattenType
  <2>5. QED
    BY <2>4 DEF S
<1>6. QED
  BY <1>4, <1>5

LEMMA AssembledAppend ==
  ASSUME NEW m, NEW reports \in Seq(Wire(m)), NEW r \in Wire(m), NEW n
  PROVE  Assembled(Append(reports, r), n) =
           Assembled(reports, n) \o (IF IsPart(r, n) THEN r.body ELSE <<>>)
<1> DEFINE more == Append(reports, r)
           part(q) == IF IsPart(q, n) THEN q.body ELSE <<>>
           f == [k \in 1..Len(reports) + 1 |-> part(more[k])]
           g == [k \in 1..Len(reports) |-> f[k]]
<1>1. /\ Len(reports) \in Nat /\ DOMAIN reports = 1..Len(reports)
      /\ DOMAIN more = 1..Len(reports) + 1
      /\ \A k \in 1..Len(reports) : more[k] = reports[k]
      /\ more[Len(reports) + 1] = r
      /\ \A k \in 1..Len(reports) + 1 : more[k] \in Wire(m)
  OBVIOUS
<1> HIDE DEF more
<1>2. \A k \in 1..Len(reports) + 1 : part(more[k]) \in Seq(AnyByte)
  BY <1>1, PartBody
<1>3. /\ Assembled(more, n) = FlattenSeq(f)
      /\ f = [k \in 1..Len(reports) + 1 |-> f[k]]
      /\ \A k \in 1..Len(reports) + 1 : f[k] \in Seq(AnyByte)
      /\ f[Len(reports) + 1] = part(r)
  <2>1. Assembled(more, n) = FlattenSeq(f)
    BY <1>1 DEF Assembled
  <2>2. f[Len(reports) + 1] = part(r)
    BY <1>1
  <2>3. QED
    BY <1>2, <2>1, <2>2
<1>4. Assembled(reports, n) = FlattenSeq(g)
  <2>1. \A k \in 1..Len(reports) : f[k] = part(reports[k])
    BY <1>1
  <2>2. g = [k \in 1..Len(reports) |-> part(reports[k])]
    BY <2>1
  <2>3. QED
    BY <2>2, <1>1 DEF Assembled
<1> HIDE DEF f
<1>5. FlattenSeq(f) = FlattenSeq(g) \o f[Len(reports) + 1]
  BY <1>1, <1>3, FlattenGrow
<1>6. QED
  BY <1>3, <1>4, <1>5 DEF more

LEMMA InNumbers ==
  ASSUME NEW reports, NEW n
  PROVE  n \in Numbers(reports) <=> \E k \in DOMAIN reports : IsPart(reports[k], n)
BY DEF Numbers, ToSet, IsPart

LEMMA NumbersAppend ==
  ASSUME NEW m, NEW reports \in Seq(Wire(m)), NEW r \in Wire(m), NEW n
  PROVE  n \in Numbers(Append(reports, r)) <=> n \in Numbers(reports) \/ IsPart(r, n)
<1> DEFINE more == Append(reports, r)
<1>1. /\ Len(reports) \in Nat /\ DOMAIN reports = 1..Len(reports)
      /\ DOMAIN more = 1..Len(reports) + 1
      /\ \A k \in 1..Len(reports) : more[k] = reports[k]
      /\ more[Len(reports) + 1] = r
  OBVIOUS
<1> HIDE DEF more
<1>2. (\E k \in DOMAIN more : IsPart(more[k], n)) <=>
        (\E k \in DOMAIN reports : IsPart(reports[k], n)) \/ IsPart(r, n)
  BY <1>1
<1>3. QED
  BY <1>2, InNumbers DEF more

(* The first part of an entry, whose header counts.                         *)
LEMMA FirstPart ==
  ASSUME NEW m, NEW reports \in Seq(Wire(m)), NEW n, NEW i \in DOMAIN reports,
         IsPart(reports[i], n), \A k \in 1..i - 1 : ~IsPart(reports[k], n)
  PROVE  HostHeader(reports, n) = reports[i].header
<1> DEFINE I == {k \in 1..Len(reports) : IsPart(reports[k], n)}
           first == SelectInSeq(reports, LAMBDA r : IsPart(r, n))
<1>1. Len(reports) \in Nat /\ DOMAIN reports = 1..Len(reports)
  OBVIOUS
<1>2. first = IF I # {} THEN Min(I) ELSE 0
  BY DEF SelectInSeq
<1>3. HostHeader(reports, n) = reports[first].header
  BY DEF HostHeader
<1> HIDE DEF first
<1>4. i \in I /\ I \subseteq Nat
  BY <1>1
<1>5. Min(I) \in I /\ \A k \in I : Min(I) <= k
  BY <1>4, MinIsLeast
<1>6. ~(Min(I) \in 1..i - 1) /\ Min(I) \in Nat /\ Min(I) >= 1 /\ Min(I) <= i
  BY <1>1, <1>4, <1>5
<1>7. Min(I) = i
  BY <1>1, <1>6
<1>8. first = i
  <2> HIDE DEF I
  <2>1. QED
    BY <1>2, <1>4, <1>7
<1>9. QED
  BY <1>3, <1>8

LEMMA FirstPartExists ==
  ASSUME NEW m, NEW reports \in Seq(Wire(m)), NEW n \in Numbers(reports)
  PROVE  \E i \in DOMAIN reports : /\ IsPart(reports[i], n)
                                   /\ \A k \in 1..i - 1 : ~IsPart(reports[k], n)
<1> DEFINE I == {k \in 1..Len(reports) : IsPart(reports[k], n)}
<1>1. Len(reports) \in Nat /\ DOMAIN reports = 1..Len(reports)
  OBVIOUS
<1>2. I \subseteq Nat /\ I # {}
  BY <1>1, InNumbers
<1>3. PICK i \in I : \A k \in I : i <= k
  <2> HIDE DEF I
  <2>1. QED
    BY <1>2, LeastNatural
<1>4. \A k \in 1..i - 1 : ~IsPart(reports[k], n)
  <2> TAKE k \in 1..i - 1
  <2>1. k \in 1..Len(reports) /\ ~(i <= k)
    BY <1>1
  <2>2. QED
    BY <2>1, <1>3
<1>5. QED
  BY <1>1, <1>4

LEMMA HeaderAppend ==
  ASSUME NEW m, NEW reports \in Seq(Wire(m)), NEW r \in Wire(m), NEW n
  PROVE  /\ n \in Numbers(reports) => HostHeader(Append(reports, r), n) = HostHeader(reports, n)
         /\ n \notin Numbers(reports) /\ IsPart(r, n) => HostHeader(Append(reports, r), n) = r.header
<1> DEFINE more == Append(reports, r)
<1>1. /\ Len(reports) \in Nat /\ DOMAIN reports = 1..Len(reports)
      /\ DOMAIN more = 1..Len(reports) + 1 /\ more \in Seq(Wire(m))
      /\ \A k \in 1..Len(reports) : more[k] = reports[k]
      /\ more[Len(reports) + 1] = r
  OBVIOUS
<1> HIDE DEF more
<1>2. ASSUME n \in Numbers(reports)
      PROVE  HostHeader(more, n) = HostHeader(reports, n)
  <2>1. PICK i \in DOMAIN reports : /\ IsPart(reports[i], n)
                                    /\ \A k \in 1..i - 1 : ~IsPart(reports[k], n)
    BY <1>2, FirstPartExists
  <2>2. i \in DOMAIN more /\ more[i] = reports[i] /\ \A k \in 1..i - 1 : more[k] = reports[k]
    BY <1>1
  <2>3. HostHeader(reports, n) = reports[i].header
    BY <2>1, FirstPart
  <2>4. HostHeader(more, n) = more[i].header
    BY <1>1, <2>1, <2>2, FirstPart
  <2>5. QED
    BY <2>2, <2>3, <2>4
<1>3. ASSUME n \notin Numbers(reports), IsPart(r, n)
      PROVE  HostHeader(more, n) = r.header
  <2>1. \A k \in 1..Len(reports) : ~IsPart(reports[k], n)
    BY <1>1, <1>3, InNumbers
  <2> DEFINE i == Len(reports) + 1
  <2>2. i \in DOMAIN more /\ more[i] = r /\ i - 1 = Len(reports)
    BY <1>1
  <2> HIDE DEF i
  <2>3. \A k \in 1..i - 1 : ~IsPart(more[k], n)
    BY <1>1, <2>1, <2>2
  <2>4. HostHeader(more, n) = more[i].header
    BY <1>1, <1>3, <2>2, <2>3, FirstPart
  <2>5. QED
    BY <2>2, <2>4
<1>4. QED
  BY <1>2, <1>3 DEF more

LEMMA ConcatAppend ==
  ASSUME NEW S, NEW s \in Seq(S), NEW t \in Seq(S), NEW e \in S
  PROVE  s \o Append(t, e) = Append(s \o t, e)
<1>1. Append(t, e) = t \o <<e>> /\ <<e>> \in Seq(S)
  BY AppendIsConcat
<1>2. s \o t \in Seq(S)
  OBVIOUS
<1>3. Append(s \o t, e) = (s \o t) \o <<e>>
  BY <1>2, AppendIsConcat
<1>4. QED
  BY <1>1, <1>3, ConcatAssociative

LEMMA EmptyReports ==
  ASSUME NEW n
  PROVE  Assembled(<<>>, n) = <<>> /\ n \notin Numbers(<<>>)
<1>1. DOMAIN <<>> = {}
  OBVIOUS
<1>2. [k \in DOMAIN <<>> |-> IF IsPart(<<>>[k], n) THEN <<>>[k].body ELSE <<>>] = <<>>
  BY <1>1
<1>3. Assembled(<<>>, n) = <<>>
  BY <1>2, FlattenEmpty DEF Assembled
<1>4. QED
  BY <1>1, <1>3, InNumbers

(* Reports read one after the other.                                        *)
ReadTogether(p, q, n) ==
  /\ Assembled(p \o q, n) = Assembled(p, n) \o Assembled(q, n)
  /\ n \in Numbers(p \o q) <=> n \in Numbers(p) \/ n \in Numbers(q)
  /\ n \in Numbers(p) => HostHeader(p \o q, n) = HostHeader(p, n)
  /\ n \notin Numbers(p) /\ n \in Numbers(q) => HostHeader(p \o q, n) = HostHeader(q, n)

LEMMA ReadingConcat ==
  ASSUME NEW m, NEW p \in Seq(Wire(m)), NEW n
  PROVE  \A q \in Seq(Wire(m)) : ReadTogether(p, q, n)
<1> DEFINE W == Wire(m)
           T == {q \in Seq(W) : ReadTogether(p, q, n)}
<1>1. <<>> \in T
  <2>1. p \o <<>> = p
    BY ConcatEmptySeq
  <2>2. Assembled(p, n) \o <<>> = Assembled(p, n)
    BY AssembledType, ConcatEmptySeq
  <2>3. <<>> \in Seq(W)
    OBVIOUS
  <2>4. QED
    BY <2>1, <2>2, <2>3, EmptyReports DEF ReadTogether
<1>2. ASSUME NEW q \in Seq(W), NEW r \in W, q \in T
      PROVE  Append(q, r) \in T
  <2> DEFINE body == IF IsPart(r, n) THEN r.body ELSE <<>>
  <2>1. p \o Append(q, r) = Append(p \o q, r) /\ p \o q \in Seq(W)
    BY ConcatAppend
  <2>2. ReadTogether(p, q, n)
    BY <1>2
  <2>3. Assembled(Append(q, r), n) = Assembled(q, n) \o body
    BY AssembledAppend
  <2>4. Assembled(Append(p \o q, r), n) = Assembled(p \o q, n) \o body
    BY <2>1, AssembledAppend
  <2>5. body \in Seq(AnyByte) /\ Assembled(p, n) \in Seq(AnyByte) /\ Assembled(q, n) \in Seq(AnyByte)
    BY PartBody, AssembledType
  <2>6. Assembled(p \o Append(q, r), n) = Assembled(p, n) \o Assembled(Append(q, r), n)
    <3> HIDE DEF body
    <3>1. (Assembled(p, n) \o Assembled(q, n)) \o body = Assembled(p, n) \o (Assembled(q, n) \o body)
      BY <2>5, ConcatAssociative
    <3>2. QED
      BY <3>1, <2>1, <2>2, <2>3, <2>4 DEF ReadTogether
  <2>7. /\ n \in Numbers(Append(q, r)) <=> n \in Numbers(q) \/ IsPart(r, n)
        /\ n \in Numbers(Append(p \o q, r)) <=> n \in Numbers(p \o q) \/ IsPart(r, n)
    BY <2>1, NumbersAppend
  <2>8. /\ n \in Numbers(q) => HostHeader(Append(q, r), n) = HostHeader(q, n)
        /\ n \notin Numbers(q) /\ IsPart(r, n) => HostHeader(Append(q, r), n) = r.header
        /\ n \in Numbers(p \o q) => HostHeader(Append(p \o q, r), n) = HostHeader(p \o q, n)
        /\ n \notin Numbers(p \o q) /\ IsPart(r, n) => HostHeader(Append(p \o q, r), n) = r.header
    <3>1. /\ n \in Numbers(q) => HostHeader(Append(q, r), n) = HostHeader(q, n)
          /\ n \notin Numbers(q) /\ IsPart(r, n) => HostHeader(Append(q, r), n) = r.header
      BY HeaderAppend
    <3> DEFINE pq == p \o q
    <3>2. pq \in Seq(W)
      BY <2>1
    <3> HIDE DEF pq
    <3>3. /\ n \in Numbers(pq) => HostHeader(Append(pq, r), n) = HostHeader(pq, n)
          /\ n \notin Numbers(pq) /\ IsPart(r, n) => HostHeader(Append(pq, r), n) = r.header
      BY <3>2, HeaderAppend
    <3>4. QED
      BY <3>1, <3>3 DEF pq
  <2>9. ReadTogether(p, Append(q, r), n)
    BY <2>1, <2>2, <2>6, <2>7, <2>8 DEF ReadTogether
  <2>10. QED
    BY <2>9
<1> HIDE DEF T
<1>3. \A q \in Seq(W) : q \in T
  BY <1>1, <1>2, SequenceInduction
<1>4. QED
  BY <1>3 DEF T

(* The reports that are parts of the manifest: the hub passes over others.  *)
Kept(reports) == FlattenSeq([k \in DOMAIN reports |-> IF reports[k] = Other THEN <<>> ELSE <<reports[k]>>])

LEMMA KeptEmpty == Kept(<<>>) = <<>>
<1>1. DOMAIN <<>> = {}
  OBVIOUS
<1>2. [k \in DOMAIN <<>> |-> IF <<>>[k] = Other THEN <<>> ELSE << <<>>[k] >>] = <<>>
  BY <1>1
<1>3. QED
  BY <1>2, FlattenEmpty DEF Kept

LEMMA KeptOne ==
  ASSUME NEW m, NEW r \in Wire(m)
  PROVE  /\ (IF r = Other THEN <<>> ELSE <<r>>) \in Seq(Parts(m))
         /\ r \in Parts(m) => r # Other
<1>1. r \in Parts(m) => r.type # "other"
  BY DEF Parts
<1>2. r = Other => r.type = "other"
  BY DEF Other
<1>3. QED
  BY <1>1, <1>2 DEF Wire

LEMMA KeptType ==
  ASSUME NEW m, NEW reports \in Seq(Wire(m))
  PROVE  Kept(reports) \in Seq(Parts(m))
<1> DEFINE f == [k \in DOMAIN reports |-> IF reports[k] = Other THEN <<>> ELSE <<reports[k]>>]
<1>1. DOMAIN reports = 1..Len(reports) /\ Len(reports) \in Nat
  OBVIOUS
<1>2. \A k \in DOMAIN reports : (IF reports[k] = Other THEN <<>> ELSE <<reports[k]>>) \in Seq(Parts(m))
  <2> TAKE k \in DOMAIN reports
  <2>1. reports[k] \in Wire(m)
    OBVIOUS
  <2>2. QED
    BY <2>1, KeptOne
<1>3. f \in [1..Len(reports) -> Seq(Parts(m))]
  BY <1>1, <1>2
<1>4. f \in Seq(Seq(Parts(m)))
  BY <1>1, <1>3, FunctionIsSequence
<1> HIDE DEF f
<1>5. FlattenSeq(f) \in Seq(Parts(m))
  BY <1>4, FlattenType
<1>6. QED
  BY <1>5 DEF f, Kept

LEMMA KeptAppend ==
  ASSUME NEW m, NEW reports \in Seq(Wire(m)), NEW r \in Wire(m)
  PROVE  /\ r = Other => Kept(Append(reports, r)) = Kept(reports)
         /\ r \in Parts(m) => Kept(Append(reports, r)) = Append(Kept(reports), r)
<1> DEFINE more == Append(reports, r)
           one(q) == IF q = Other THEN <<>> ELSE <<q>>
           f == [k \in 1..Len(reports) + 1 |-> one(more[k])]
           g == [k \in 1..Len(reports) |-> f[k]]
<1>1. /\ Len(reports) \in Nat /\ DOMAIN reports = 1..Len(reports)
      /\ DOMAIN more = 1..Len(reports) + 1
      /\ \A k \in 1..Len(reports) : more[k] = reports[k]
      /\ more[Len(reports) + 1] = r
      /\ \A k \in 1..Len(reports) + 1 : more[k] \in Wire(m)
  OBVIOUS
<1> HIDE DEF more
<1>2. \A k \in 1..Len(reports) + 1 : one(more[k]) \in Seq(Parts(m))
  BY <1>1, KeptOne
<1>3. /\ Kept(more) = FlattenSeq(f)
      /\ f = [k \in 1..Len(reports) + 1 |-> f[k]]
      /\ \A k \in 1..Len(reports) + 1 : f[k] \in Seq(Parts(m))
      /\ f[Len(reports) + 1] = one(r)
  <2>1. Kept(more) = FlattenSeq(f)
    BY <1>1 DEF Kept
  <2>2. f[Len(reports) + 1] = one(r)
    BY <1>1
  <2>3. QED
    BY <1>2, <2>1, <2>2
<1>4. Kept(reports) = FlattenSeq(g)
  <2>1. \A k \in 1..Len(reports) : f[k] = one(reports[k])
    BY <1>1
  <2>2. g = [k \in 1..Len(reports) |-> one(reports[k])]
    BY <2>1
  <2>3. QED
    BY <2>2, <1>1 DEF Kept
<1> HIDE DEF f
<1>5. FlattenSeq(f) = FlattenSeq(g) \o f[Len(reports) + 1]
  BY <1>1, <1>3, FlattenGrow
<1>6. Kept(more) = Kept(reports) \o one(r) /\ Kept(reports) \in Seq(Parts(m))
  BY <1>3, <1>4, <1>5, KeptType
<1>7. CASE r = Other
  <2>1. one(r) = <<>>
    BY <1>7
  <2>2. QED
    BY <2>1, <1>6, <1>7, KeptOne, ConcatEmptySeq DEF more
<1>8. CASE r \in Parts(m)
  <2>1. r # Other
    BY <1>8, KeptOne
  <2>2. Kept(more) = Kept(reports) \o <<r>>
    BY <2>1, <1>6
  <2>3. QED
    BY <2>1, <2>2, <1>6, <1>8, AppendIsConcat DEF more
<1>9. QED
  BY <1>7, <1>8 DEF Wire

LEMMA KeptConcat ==
  ASSUME NEW m, NEW p \in Seq(Wire(m))
  PROVE  \A q \in Seq(Wire(m)) : Kept(p \o q) = Kept(p) \o Kept(q)
<1> DEFINE W == Wire(m)
           T == {q \in Seq(W) : Kept(p \o q) = Kept(p) \o Kept(q)}
<1>1. <<>> \in T
  <2>1. p \o <<>> = p /\ Kept(p) \o <<>> = Kept(p)
    BY KeptType, ConcatEmptySeq
  <2>2. Kept(p \o <<>>) = Kept(p) \o Kept(<<>>)
    BY <2>1, KeptEmpty
  <2>3. <<>> \in Seq(W)
    OBVIOUS
  <2>4. QED
    BY <2>2, <2>3
<1>2. ASSUME NEW q \in Seq(W), NEW r \in W, q \in T
      PROVE  Append(q, r) \in T
  <2> SUFFICES Kept(p \o Append(q, r)) = Kept(p) \o Kept(Append(q, r))
    OBVIOUS
  <2>1. p \o Append(q, r) = Append(p \o q, r) /\ p \o q \in Seq(W)
    BY ConcatAppend
  <2>2. Kept(p \o q) = Kept(p) \o Kept(q)
    BY <1>2
  <2>3. Kept(p) \in Seq(Parts(m)) /\ Kept(q) \in Seq(Parts(m))
    BY KeptType
  <2>4. CASE r = Other
    <3>1. Kept(Append(q, r)) = Kept(q)
      BY <2>4, KeptAppend
    <3>2. Kept(Append(p \o q, r)) = Kept(p \o q)
      BY <2>1, <2>4, KeptAppend
    <3>3. QED
      BY <3>1, <3>2, <2>1, <2>2
  <2>5. CASE r \in Parts(m)
    <3>1. Kept(Append(q, r)) = Append(Kept(q), r)
      BY <2>5, KeptAppend
    <3>2. Kept(Append(p \o q, r)) = Append(Kept(p \o q), r)
      BY <2>1, <2>5, KeptAppend
    <3>3. Kept(p) \o Append(Kept(q), r) = Append(Kept(p) \o Kept(q), r)
      BY <2>3, <2>5, ConcatAppend
    <3>4. QED
      BY <3>1, <3>2, <3>3, <2>1, <2>2
  <2>6. QED
    BY <2>4, <2>5 DEF Wire
<1> HIDE DEF T
<1>3. \A q \in Seq(W) : q \in T
  BY <1>1, <1>2, SequenceInduction
<1>4. QED
  BY <1>3 DEF T

(* The hub reads the parts alone as it does what it received.               *)
ReadAsKept(p, n) ==
  /\ Assembled(p, n) = Assembled(Kept(p), n)
  /\ n \in Numbers(p) <=> n \in Numbers(Kept(p))
  /\ n \in Numbers(p) => HostHeader(p, n) = HostHeader(Kept(p), n)

LEMMA ReadingKept ==
  ASSUME NEW m, NEW n
  PROVE  \A p \in Seq(Wire(m)) : ReadAsKept(p, n)
<1> DEFINE W == Wire(m)
           T == {p \in Seq(W) : ReadAsKept(p, n)}
<1>1. <<>> \in T
  BY KeptEmpty, EmptyReports DEF ReadAsKept
<1>2. ASSUME NEW p \in Seq(W), NEW r \in W, p \in T
      PROVE  Append(p, r) \in T
  <2> SUFFICES ReadAsKept(Append(p, r), n)
    OBVIOUS
  <2> DEFINE k == Kept(p)
  <2>1. ReadAsKept(p, n)
    BY <1>2
  <2>2. k \in Seq(Parts(m))
    BY KeptType
  <2>3. k \in Seq(W)
    BY <2>2, SeqMonotonic DEF Wire
  <2>4. /\ Assembled(Append(p, r), n) = Assembled(p, n) \o (IF IsPart(r, n) THEN r.body ELSE <<>>)
        /\ n \in Numbers(Append(p, r)) <=> n \in Numbers(p) \/ IsPart(r, n)
        /\ n \in Numbers(p) => HostHeader(Append(p, r), n) = HostHeader(p, n)
        /\ n \notin Numbers(p) /\ IsPart(r, n) => HostHeader(Append(p, r), n) = r.header
    BY AssembledAppend, NumbersAppend, HeaderAppend
  <2>5. CASE r = Other
    <3>1. ~IsPart(r, n)
      BY <2>5 DEF Other, IsPart
    <3>2. Kept(Append(p, r)) = k
      BY <2>5, KeptAppend
    <3>3. Assembled(p, n) \o <<>> = Assembled(p, n)
      BY AssembledType, ConcatEmptySeq
    <3>4. QED
      BY <3>1, <3>2, <3>3, <2>1, <2>4 DEF ReadAsKept
  <2>6. CASE r \in Parts(m)
    <3>1. Kept(Append(p, r)) = Append(k, r)
      BY <2>6, KeptAppend
    <3> HIDE DEF k
    <3>2. /\ Assembled(Append(k, r), n) = Assembled(k, n) \o (IF IsPart(r, n) THEN r.body ELSE <<>>)
          /\ n \in Numbers(Append(k, r)) <=> n \in Numbers(k) \/ IsPart(r, n)
          /\ n \in Numbers(k) => HostHeader(Append(k, r), n) = HostHeader(k, n)
          /\ n \notin Numbers(k) /\ IsPart(r, n) => HostHeader(Append(k, r), n) = r.header
      BY <2>3, AssembledAppend, NumbersAppend, HeaderAppend
    <3>3. ReadAsKept(Append(p, r), n)
      BY <3>1, <3>2, <2>1, <2>4 DEF ReadAsKept, k
    <3>4. QED
      BY <3>3
  <2>7. QED
    BY <2>5, <2>6 DEF Wire
<1> HIDE DEF T
<1>3. \A p \in Seq(W) : p \in T
  BY <1>1, <1>2, SequenceInduction
<1>4. QED
  BY <1>3 DEF T

-----------------------------------------------------------------------------
(***************************************************************************)
(* A stream, read.                                                         *)
(***************************************************************************)
(* The first l bytes that the chunks of a string carry.                     *)
Padded(s, l) == [i \in 1..l |-> IF i <= Length[s] THEN <<s, i>> ELSE NUL]

LEMMA PaddedType ==
  ASSUME NEW s \in Strings, NEW l \in Nat
  PROVE  Padded(s, l) \in Seq(AnyByte) /\ Len(Padded(s, l)) = l
<1>1. \A i \in 1..l : (IF i <= Length[s] THEN <<s, i>> ELSE NUL) \in AnyByte
  BY DEF AnyByte
<1>2. Padded(s, l) \in [1..l -> AnyByte]
  BY <1>1 DEF Padded
<1>3. QED
  BY <1>2, FunctionIsSequence

LEMMA PaddedGrows ==
  ASSUME NEW s \in Strings, NEW l \in Nat
  PROVE  Padded(s, l) \o Body(s, l) = Padded(s, l + ChunkSize)
<1> DEFINE p == Padded(s, l)
           b == Body(s, l)
           q == Padded(s, l + ChunkSize)
<1>1. ChunkSize \in Nat /\ l + ChunkSize \in Nat /\ Length[s] \in Nat
  BY FormatAssumption
<1>2. p \in Seq(AnyByte) /\ Len(p) = l /\ q \in Seq(AnyByte) /\ Len(q) = l + ChunkSize
  BY <1>1, PaddedType
<1>3. b \in Seq(AnyByte) /\ Len(b) = ChunkSize
  BY BodyType, BitsAreBytes, SeqMonotonic
<1>4. /\ \A i \in 1..l : p[i] = IF i <= Length[s] THEN <<s, i>> ELSE NUL
      /\ \A i \in 1..ChunkSize : b[i] = IF l + i <= Length[s] THEN <<s, l + i>> ELSE NUL
      /\ \A i \in 1..l + ChunkSize : q[i] = IF i <= Length[s] THEN <<s, i>> ELSE NUL
  BY DEF Padded, Body
<1> HIDE DEF p, b, q
<1>5. /\ p \o b \in Seq(AnyByte) /\ Len(p \o b) = l + ChunkSize
      /\ \A i \in 1..l + ChunkSize : (p \o b)[i] = IF i <= l THEN p[i] ELSE b[i - l]
  BY <1>2, <1>3, ConcatProperties
<1>6. \A i \in 1..l + ChunkSize : (p \o b)[i] = q[i]
  <2> TAKE i \in 1..l + ChunkSize
  <2>1. CASE i <= l
    <3>1. i \in 1..l
      BY <2>1
    <3>2. p[i] = IF i <= Length[s] THEN <<s, i>> ELSE NUL
      BY <3>1, <1>4
    <3>3. q[i] = IF i <= Length[s] THEN <<s, i>> ELSE NUL
      BY <1>4
    <3>4. (p \o b)[i] = p[i]
      BY <2>1, <1>5
    <3>5. QED
      BY <3>2, <3>3, <3>4
  <2>2. CASE ~(i <= l)
    <3>1. i - l \in 1..ChunkSize /\ l + (i - l) = i
      BY <2>2, <1>1
    <3>2. b[i - l] = IF i <= Length[s] THEN <<s, i>> ELSE NUL
      BY <3>1, <1>4
    <3>3. (p \o b)[i] = b[i - l]
      BY <2>2, <1>5
    <3>4. QED
      BY <3>2, <3>3, <1>4
  <2>3. QED
    BY <2>1, <2>2
<1>7. p \o b = q
  BY <1>2, <1>5, <1>6, SeqEqual
<1>8. QED
  BY <1>7 DEF p, b, q

(* The string the host reads in them.                                       *)
LEMMA PaddedRead ==
  ASSUME NEW s \in Strings, NEW l \in Nat
  PROVE  /\ l >= Length[s] => UpToNul(Padded(s, l)) = Bytes(s)
         /\ IsPrefix(UpToNul(Padded(s, l)), Bytes(s))
<1> DEFINE p == Padded(s, l)
           e == IF l <= Length[s] THEN l ELSE Length[s]
<1>1. p \in Seq(AnyByte) /\ Len(p) = l
  BY PaddedType
<1>2. Length[s] \in Nat
  BY FormatAssumption
<1>3. \A i \in 1..l : p[i] = IF i <= Length[s] THEN <<s, i>> ELSE NUL
  BY DEF Padded
<1> HIDE DEF p
<1>4. e \in 0..Len(p) /\ e \in 0..Length[s]
  BY <1>1, <1>2
<1>5. \A i \in 1..e : p[i] = <<s, i>>
  <2> TAKE i \in 1..e
  <2>1. i \in 1..l /\ i <= Length[s]
    BY <1>2
  <2>2. QED
    BY <2>1, <1>3
<1>6. \A i \in 1..e : p[i] # NUL
  BY <1>5 DEF NUL
<1>7. e < Len(p) => p[e + 1] = NUL
  BY <1>1, <1>2, <1>3
<1> HIDE DEF e
<1>8. UpToNul(p) = SubSeq(p, 1, e)
  BY <1>1, <1>4, <1>6, <1>7, UpToNulIs
<1>9. Bytes(s) \in Seq(AnyByte) /\ Len(Bytes(s)) = Length[s] /\ \A i \in 1..Length[s] : Bytes(s)[i] = <<s, i>>
  <2>1. \A i \in 1..Length[s] : <<s, i>> \in AnyByte
    BY <1>2 DEF AnyByte
  <2>2. Bytes(s) \in [1..Length[s] -> AnyByte]
    BY <2>1 DEF Bytes
  <2>3. QED
    BY <2>2, <1>2, FunctionIsSequence DEF Bytes
<1>10. SubSeq(p, 1, e) = SubSeq(Bytes(s), 1, e)
  <2>1. \A i \in 1..e : p[i] \in AnyByte /\ Bytes(s)[i] \in AnyByte
    BY <1>1, <1>4, <1>9
  <2>2. /\ SubSeq(p, 1, e) \in Seq(AnyByte) /\ Len(SubSeq(p, 1, e)) = IF 1 <= e THEN e - 1 + 1 ELSE 0
        /\ \A i \in 1..e - 1 + 1 : SubSeq(p, 1, e)[i] = p[1 + i - 1]
    BY <2>1, <1>4, SubSeqProperties
  <2>3. /\ SubSeq(Bytes(s), 1, e) \in Seq(AnyByte) /\ Len(SubSeq(Bytes(s), 1, e)) = IF 1 <= e THEN e - 1 + 1 ELSE 0
        /\ \A i \in 1..e - 1 + 1 : SubSeq(Bytes(s), 1, e)[i] = Bytes(s)[1 + i - 1]
    BY <2>1, <1>4, SubSeqProperties
  <2>4. \A i \in 1..e : SubSeq(p, 1, e)[i] = SubSeq(Bytes(s), 1, e)[i]
    <3> TAKE i \in 1..e
    <3>1. i \in 1..e - 1 + 1 /\ 1 + i - 1 = i /\ i \in 1..Length[s]
      BY <1>2, <1>4
    <3>2. SubSeq(p, 1, e)[i] = p[i] /\ SubSeq(Bytes(s), 1, e)[i] = Bytes(s)[i]
      BY <3>1, <2>2, <2>3
    <3>3. QED
      BY <3>1, <3>2, <1>5, <1>9
  <2>5. Len(SubSeq(p, 1, e)) = e /\ Len(SubSeq(Bytes(s), 1, e)) = e
    BY <2>2, <2>3, <1>4
  <2>6. QED
    BY <2>2, <2>3, <2>4, <2>5, SeqEqual
<1>11. l >= Length[s] => UpToNul(p) = Bytes(s)
  <2>1. l >= Length[s] => e = Length[s]
    BY <1>2 DEF e
  <2>2. SubSeq(Bytes(s), 1, Length[s]) = Bytes(s)
    BY <1>9, SubSeqFull
  <2>3. QED
    BY <2>1, <2>2, <1>8, <1>10
<1>12. IsPrefix(UpToNul(p), Bytes(s))
  <2> DEFINE t == SubSeq(Bytes(s), 1, e)
  <2>1. t \in Seq(AnyByte) /\ Len(t) = e
    <3>1. \A i \in 1..e : Bytes(s)[i] \in AnyByte
      BY <1>4, <1>9
    <3>2. t \in Seq(AnyByte) /\ Len(t) = IF 1 <= e THEN e - 1 + 1 ELSE 0
      BY <3>1, <1>4, SubSeqProperties
    <3>3. QED
      BY <3>2, <1>4
  <2> HIDE DEF t
  <2>2. SubSeq(t, 1, Len(t)) = t /\ Len(t) <= Len(Bytes(s))
    BY <2>1, <1>4, <1>9, SubSeqFull
  <2>3. IsPrefix(t, Bytes(s))
    BY <2>1, <2>2 DEF IsPrefix, t
  <2>4. QED
    BY <2>3, <1>8, <1>10 DEF t
<1>13. QED
  BY <1>11, <1>12 DEF p

LEMMA CountCovers ==
  ASSUME NEW s \in Strings
  PROVE  Count(s) * ChunkSize \in Nat /\ Count(s) * ChunkSize >= Length[s]
<1>1. Length[s] \in Nat /\ ChunkSize \in Nat \ {0} /\ Count(s) \in Nat
  BY FormatAssumption, CountProperties
<1>2. CASE Length[s] = 0
  BY <1>1, <1>2
<1>3. CASE Length[s] # 0
  <2>1. Count(s) = (Length[s] + ChunkSize - 1) \div ChunkSize /\ Length[s] + ChunkSize - 1 \in Nat
    BY <1>1, <1>3 DEF Count
  <2>2. Length[s] + ChunkSize - 1 < Count(s) * ChunkSize + ChunkSize
    BY <1>1, <2>1, Quotient
  <2>3. Count(s) * ChunkSize \in Nat
    BY <1>1
  <2>4. QED
    BY <2>2, <2>3, <1>1
<1>4. QED
  BY <1>2, <1>3

(* Some of an entry's chunks, from the first.                               *)
ChunksSoFar(m, i, isLast, j) == SubSeq(Chunks(i - 1, m[i], isLast), 1, j)

LEMMA ChunksStep ==
  ASSUME NEW m \in Seq(Strings), NEW i \in DOMAIN m, NEW isLast \in BOOLEAN
  PROVE  /\ ChunksSoFar(m, i, isLast, 0) = <<>>
         /\ \A j \in 0..Count(m[i]) : ChunksSoFar(m, i, isLast, j) \in Seq(Parts(m))
         /\ \A j \in 0..Count(m[i]) - 1 :
              ChunksSoFar(m, i, isLast, j + 1) =
                Append(ChunksSoFar(m, i, isLast, j), Chunk(i - 1, m[i], j * ChunkSize, isLast))
         /\ ChunksSoFar(m, i, isLast, Count(m[i])) = Chunks(i - 1, m[i], isLast)
<1> DEFINE c == Chunks(i - 1, m[i], isLast)
<1>1. m[i] \in Strings /\ Count(m[i]) \in Nat \ {0}
  BY CountProperties
<1>2. c \in Seq(Parts(m)) /\ Len(c) = Count(m[i])
  BY ChunksType
<1>3. \A j \in 0..Count(m[i]) - 1 : c[j + 1] = Chunk(i - 1, m[i], j * ChunkSize, isLast)
  <2> TAKE j \in 0..Count(m[i]) - 1
  <2>1. j + 1 \in 1..Count(m[i]) /\ j + 1 - 1 = j
    BY <1>1
  <2>2. QED
    BY <2>1 DEF Chunks
<1> HIDE DEF c
<1>4. \A j \in 0..Count(m[i]) : SubSeq(c, 1, j) \in Seq(Parts(m))
  <2> TAKE j \in 0..Count(m[i])
  <2>1. \A k \in 1..j : c[k] \in Parts(m)
    BY <1>1, <1>2
  <2>2. QED
    BY <2>1, SubSeqProperties
<1>5. \A j \in 0..Count(m[i]) - 1 : SubSeq(c, 1, j + 1) = Append(SubSeq(c, 1, j), c[j + 1])
  <2> TAKE j \in 0..Count(m[i]) - 1
  <2>1. 1 \in 1..Len(c) /\ j + 1 \in 1..Len(c) /\ j + 1 - 1 = j /\ j \in 0..Count(m[i])
    BY <1>1, <1>2
  <2>2. SubSeq(c, 1, j + 1) = SubSeq(c, 1, j) \o <<c[j + 1]>>
    BY <2>1, <1>2, SubSeqRecursiveSecond
  <2>3. SubSeq(c, 1, j) \in Seq(Parts(m)) /\ c[j + 1] \in Parts(m)
    BY <2>1, <1>2, <1>4
  <2>4. QED
    BY <2>2, <2>3, AppendIsConcat
<1>6. SubSeq(c, 1, 0) = <<>> /\ SubSeq(c, 1, Count(m[i])) = c
  BY <1>2, SubSeqEmpty, SubSeqFull
<1>7. QED
  BY <1>3, <1>4, <1>5, <1>6 DEF ChunksSoFar, c

(* What the host makes of j chunks of entry i: its string so far, and the   *)
(* header of the first.                                                     *)
ReadsChunks(m, i, p, j, n) ==
  /\ n = i - 1 => Assembled(p, n) = Padded(m[i], j * ChunkSize)
  /\ n # i - 1 => Assembled(p, n) = <<>>
  /\ n \in Numbers(p) <=> n = i - 1 /\ j > 0
  /\ n \in Numbers(p) => HostHeader(p, n) = Header(m[i])

LEMMA ChunksRead ==
  ASSUME NEW m \in Seq(Strings), NEW i \in DOMAIN m, NEW isLast \in BOOLEAN, NEW n
  PROVE  \A j \in 0..Count(m[i]) : ReadsChunks(m, i, ChunksSoFar(m, i, isLast, j), j, n)
<1> DEFINE p(j) == ChunksSoFar(m, i, isLast, j)
           S == {j \in Nat : ReadsChunks(m, i, p(j), j, n)}
<1>1. m[i] \in Strings /\ Count(m[i]) \in Nat \ {0} /\ ChunkSize \in Nat
  BY CountProperties, FormatAssumption
<1>2. 0 \in S
  <2>1. p(0) = <<>>
    BY ChunksStep
  <2>2. Padded(m[i], 0 * ChunkSize) = <<>>
    <3>1. 0 * ChunkSize = 0
      BY <1>1
    <3>2. Len(Padded(m[i], 0)) = 0 /\ Padded(m[i], 0) \in Seq(AnyByte)
      BY <1>1, PaddedType
    <3>3. QED
      BY <3>1, <3>2
  <2>3. Assembled(p(0), n) = <<>> /\ n \notin Numbers(p(0))
    BY <2>1, EmptyReports
  <2>4. QED
    BY <2>2, <2>3 DEF ReadsChunks
<1>3. ASSUME NEW j \in 0..Count(m[i]) - 1, j \in S
      PROVE  j + 1 \in S
  <2> DEFINE r == Chunk(i - 1, m[i], j * ChunkSize, isLast)
             q == p(j)
  <2>1. ReadsChunks(m, i, q, j, n)
    BY <1>3
  <2>2. j * ChunkSize \in Nat /\ (j + 1) * ChunkSize = j * ChunkSize + ChunkSize /\ j + 1 > 0 /\ j + 1 \in Nat
    BY <1>1
  <2>3. r \in Wire(m)
    BY <2>2, ChunkType DEF Wire
  <2>4. q \in Seq(Wire(m))
    <3>1. q \in Seq(Parts(m))
      BY <1>1, ChunksStep
    <3> HIDE DEF q
    <3>2. QED
      BY <3>1, SeqMonotonic DEF Wire
  <2>5. p(j + 1) = Append(q, r)
    BY ChunksStep
  <2>6. /\ IsPart(r, n) <=> n = i - 1
        /\ r.body = Body(m[i], j * ChunkSize)
        /\ r.header = IF j * ChunkSize = 0 THEN Header(m[i]) ELSE ZeroHeader
    BY DEF Chunk, IsPart
  <2> HIDE DEF r, q
  <2>7. /\ Assembled(Append(q, r), n) = Assembled(q, n) \o (IF IsPart(r, n) THEN r.body ELSE <<>>)
        /\ n \in Numbers(Append(q, r)) <=> n \in Numbers(q) \/ IsPart(r, n)
        /\ n \in Numbers(q) => HostHeader(Append(q, r), n) = HostHeader(q, n)
        /\ n \notin Numbers(q) /\ IsPart(r, n) => HostHeader(Append(q, r), n) = r.header
    BY <2>3, <2>4, AssembledAppend, NumbersAppend, HeaderAppend
  <2>8. CASE n = i - 1
    <3>1. Assembled(Append(q, r), n) = Padded(m[i], (j + 1) * ChunkSize)
      BY <2>1, <2>2, <2>6, <2>7, <2>8, <1>1, PaddedGrows DEF ReadsChunks
    <3>2. n \in Numbers(Append(q, r))
      BY <2>6, <2>7, <2>8
    <3>3. HostHeader(Append(q, r), n) = Header(m[i])
      <4>1. CASE n \in Numbers(q)
        BY <4>1, <2>1, <2>7 DEF ReadsChunks
      <4>2. CASE n \notin Numbers(q)
        <5>1. j = 0
          BY <4>2, <2>1, <2>8 DEF ReadsChunks
        <5>2. j * ChunkSize = 0
          BY <5>1, <1>1
        <5>3. QED
          BY <5>2, <4>2, <2>6, <2>7, <2>8
      <4>3. QED
        BY <4>1, <4>2
    <3>4. ReadsChunks(m, i, Append(q, r), j + 1, n)
      BY <3>1, <3>2, <3>3, <2>2, <2>8 DEF ReadsChunks
    <3>5. QED
      BY <3>4, <2>2, <2>5
  <2>9. CASE n # i - 1
    <3>1. ~IsPart(r, n)
      BY <2>6, <2>9
    <3>2. n \notin Numbers(q) /\ Assembled(q, n) = <<>>
      BY <2>1, <2>9 DEF ReadsChunks
    <3>3. Assembled(Append(q, r), n) = <<>> /\ n \notin Numbers(Append(q, r))
      BY <3>1, <3>2, <2>7
    <3>4. ReadsChunks(m, i, Append(q, r), j + 1, n)
      BY <3>3, <2>9 DEF ReadsChunks
    <3>5. QED
      BY <3>4, <2>2, <2>5
  <2>10. QED
    BY <2>8, <2>9
<1>4. \A j \in 0..Count(m[i]) : j \in S
  <2> HIDE DEF S
  <2>1. QED
    BY <1>1, <1>2, <1>3, Induction
<1>5. QED
  BY <1>4

(* The stream of the first k entries, with the flag on the one numbered     *)
(* last.                                                                    *)
EntryChunks(m, start, last, i) == IF i - 1 >= start THEN Chunks(i - 1, m[i], i - 1 = last) ELSE <<>>
StreamTo(m, start, last, k) == FlattenSeq([i \in 1..k |-> EntryChunks(m, start, last, i)])

LEMMA EntryChunksType ==
  ASSUME NEW m \in Seq(Strings), NEW start, NEW last, NEW i \in DOMAIN m
  PROVE  EntryChunks(m, start, last, i) \in Seq(Parts(m))
<1>1. (i - 1 = last) \in BOOLEAN
  OBVIOUS
<1>2. Chunks(i - 1, m[i], i - 1 = last) \in Seq(Parts(m))
  BY <1>1, ChunksType
<1>3. QED
  BY <1>2 DEF EntryChunks

LEMMA StreamSteps ==
  ASSUME NEW m \in Seq(Strings), NEW start \in Nat, NEW last
  PROVE  /\ StreamTo(m, start, last, 0) = <<>>
         /\ \A k \in 0..Len(m) : StreamTo(m, start, last, k) \in Seq(Parts(m))
         /\ \A k \in 0..Len(m) - 1 :
              StreamTo(m, start, last, k + 1) = StreamTo(m, start, last, k) \o EntryChunks(m, start, last, k + 1)
         /\ last = Len(m) - 1 => StreamTo(m, start, last, Len(m)) = StreamFrom(m, start)
<1>1. Len(m) \in Nat /\ DOMAIN m = 1..Len(m)
  OBVIOUS
<1>2. StreamTo(m, start, last, 0) = <<>>
  <2>1. [i \in 1..0 |-> EntryChunks(m, start, last, i)] = <<>>
    OBVIOUS
  <2>2. QED
    BY <2>1, FlattenEmpty DEF StreamTo
<1>3. \A i \in 1..Len(m) : EntryChunks(m, start, last, i) \in Seq(Parts(m))
  BY <1>1, EntryChunksType
<1>4. ASSUME NEW k \in 0..Len(m)
      PROVE  StreamTo(m, start, last, k) \in Seq(Parts(m))
  <2> DEFINE f == [i \in 1..k |-> EntryChunks(m, start, last, i)]
  <2>1. f \in [1..k -> Seq(Parts(m))]
    BY <1>1, <1>3
  <2>2. f \in Seq(Seq(Parts(m)))
    BY <2>1, FunctionIsSequence
  <2> HIDE DEF f
  <2>3. QED
    BY <2>2, FlattenType DEF StreamTo, f
<1>5. ASSUME NEW k \in 0..Len(m) - 1
      PROVE  StreamTo(m, start, last, k + 1) = StreamTo(m, start, last, k) \o EntryChunks(m, start, last, k + 1)
  <2> DEFINE f == [i \in 1..k + 1 |-> EntryChunks(m, start, last, i)]
             g == [i \in 1..k |-> f[i]]
  <2>1. f = [i \in 1..k + 1 |-> f[i]] /\ k \in Nat
    OBVIOUS
  <2>2. \A i \in 1..k + 1 : f[i] \in Seq(Parts(m))
    BY <1>1, <1>3
  <2>3. g = [i \in 1..k |-> EntryChunks(m, start, last, i)]
    OBVIOUS
  <2>4. f[k + 1] = EntryChunks(m, start, last, k + 1)
    OBVIOUS
  <2> HIDE DEF f
  <2>5. FlattenSeq(f) = FlattenSeq(g) \o f[k + 1]
    BY <2>1, <2>2, FlattenGrow
  <2> HIDE DEF g
  <2>6. QED
    BY <2>3, <2>4, <2>5 DEF StreamTo, f
<1>6. ASSUME last = Len(m) - 1
      PROVE  StreamTo(m, start, last, Len(m)) = StreamFrom(m, start)
  <2>1. \A k \in DOMAIN m : (k - 1 = last) = (k = Len(m))
    BY <1>1, <1>6
  <2>2. \A k \in DOMAIN m : EntryChunks(m, start, last, k) =
          IF k - 1 >= start THEN Chunks(k - 1, m[k], k = Len(m)) ELSE <<>>
    BY <2>1 DEF EntryChunks
  <2>3. [k \in DOMAIN m |-> EntryChunks(m, start, last, k)] =
          [k \in DOMAIN m |-> IF k - 1 >= start THEN Chunks(k - 1, m[k], k = Len(m)) ELSE <<>>]
    BY <2>2
  <2>4. QED
    BY <2>3, <1>1 DEF StreamTo, StreamFrom
<1>7. QED
  BY <1>2, <1>4, <1>5, <1>6

(* What the host makes of a stream of k entries.                            *)
ReadsEntries(m, start, p, k, n) ==
  /\ n \in Numbers(p) <=> n \in start..k - 1
  /\ n \in start..k - 1 => /\ Assembled(p, n) = Padded(m[n + 1], Count(m[n + 1]) * ChunkSize)
                           /\ HostHeader(p, n) = Header(m[n + 1])
  /\ n \notin start..k - 1 => Assembled(p, n) = <<>>

LEMMA StreamRead ==
  ASSUME NEW m \in Seq(Strings), NEW start \in Nat, NEW last, NEW n
  PROVE  \A k \in 0..Len(m) : ReadsEntries(m, start, StreamTo(m, start, last, k), k, n)
<1> DEFINE p(k) == StreamTo(m, start, last, k)
           S == {k \in Nat : ReadsEntries(m, start, p(k), k, n)}
<1>1. Len(m) \in Nat /\ DOMAIN m = 1..Len(m) /\ \A i \in 1..Len(m) : m[i] \in Strings
  OBVIOUS
<1>2. 0 \in S
  <2>1. p(0) = <<>>
    BY StreamSteps
  <2>2. Assembled(p(0), n) = <<>> /\ n \notin Numbers(p(0))
    BY <2>1, EmptyReports
  <2>3. n \notin start..0 - 1
    OBVIOUS
  <2>4. QED
    BY <2>2, <2>3 DEF ReadsEntries
<1>3. ASSUME NEW k \in 0..Len(m) - 1, k \in S
      PROVE  k + 1 \in S
  <2> SUFFICES ReadsEntries(m, start, p(k + 1), k + 1, n)
    OBVIOUS
  <2> DEFINE q == p(k)
             c == EntryChunks(m, start, last, k + 1)
             j == Count(m[k + 1])
  <2>1. ReadsEntries(m, start, q, k, n)
    BY <1>3
  <2>2. k + 1 \in DOMAIN m /\ k + 1 - 1 = k /\ k \in Nat /\ k \in 0..Len(m)
    BY <1>1
  <2>3. p(k + 1) = q \o c
    BY StreamSteps
  <2>4. q \in Seq(Wire(m)) /\ c \in Seq(Wire(m))
    <3>1. q \in Seq(Parts(m)) /\ c \in Seq(Parts(m))
      BY <2>2, StreamSteps, EntryChunksType
    <3> HIDE DEF q, c
    <3>2. QED
      BY <3>1, SeqMonotonic DEF Wire
  <2>5. CASE k < start
    <3>1. c = <<>>
      BY <2>2, <2>5 DEF EntryChunks
    <3> HIDE DEF c, q
    <3>2. p(k + 1) = q
      BY <3>1, <2>3, <2>4, ConcatEmptySeq
    <3>3. n \notin start..k - 1 /\ n \notin start..k + 1 - 1
      BY <2>2, <2>5
    <3> HIDE DEF p
    <3>4. QED
      BY <3>2, <3>3, <2>1 DEF ReadsEntries
  <2>6. CASE k >= start
    <3> DEFINE isLast == (k = last)
    <3>1. isLast \in BOOLEAN
      OBVIOUS
    <3>2. c = Chunks(k, m[k + 1], isLast)
      BY <2>2, <2>6 DEF EntryChunks
    <3> HIDE DEF isLast
    <3>3. c = ChunksSoFar(m, k + 1, isLast, j) /\ j \in Nat \ {0}
      <4>1. ChunksSoFar(m, k + 1, isLast, j) = Chunks(k + 1 - 1, m[k + 1], isLast)
        BY <2>2, <3>1, ChunksStep
      <4>2. QED
        BY <4>1, <3>2, <2>2, <1>1, CountProperties
    <3>4. ReadsChunks(m, k + 1, c, j, n)
      <4>1. j \in 0..Count(m[k + 1])
        BY <3>3
      <4>2. ReadsChunks(m, k + 1, ChunksSoFar(m, k + 1, isLast, j), j, n)
        BY <4>1, <2>2, <3>1, ChunksRead
      <4>3. QED
        BY <4>2, <3>3
    <3>5. ReadTogether(q, c, n)
      BY <2>4, ReadingConcat
    <3>6. /\ n \in start..k + 1 - 1 <=> n \in start..k - 1 \/ n = k
          /\ n = k => n \notin start..k - 1 /\ n + 1 = k + 1
      BY <2>2, <2>6
    <3>7. Assembled(q, n) \in Seq(AnyByte) /\ Assembled(c, n) \in Seq(AnyByte)
      BY <2>4, AssembledType
    <3> HIDE DEF c, q, p
    <3>8. CASE n = k
      <4>1. /\ n \notin Numbers(q) /\ Assembled(q, n) = <<>>
            /\ n \in Numbers(c) /\ Assembled(c, n) = Padded(m[n + 1], Count(m[n + 1]) * ChunkSize)
            /\ HostHeader(c, n) = Header(m[n + 1])
        BY <3>3, <3>4, <3>6, <3>8, <2>1, <2>2 DEF ReadsEntries, ReadsChunks
      <4>2. <<>> \o Assembled(c, n) = Assembled(c, n)
        BY <3>7, ConcatEmptySeq
      <4>3. /\ n \in Numbers(q \o c) /\ HostHeader(q \o c, n) = Header(m[n + 1])
            /\ Assembled(q \o c, n) = Padded(m[n + 1], Count(m[n + 1]) * ChunkSize)
        BY <4>1, <4>2, <3>5 DEF ReadTogether
      <4>4. ReadsEntries(m, start, q \o c, k + 1, n)
        BY <4>3, <3>6, <3>8 DEF ReadsEntries
      <4>5. QED
        BY <4>4, <2>3
    <3>9. CASE n # k
      <4>1. n \notin Numbers(c) /\ Assembled(c, n) = <<>>
        BY <3>4, <3>9, <2>2 DEF ReadsChunks
      <4>2. Assembled(q, n) \o <<>> = Assembled(q, n)
        BY <3>7, ConcatEmptySeq
      <4>3. /\ n \in Numbers(q \o c) <=> n \in Numbers(q)
            /\ n \in Numbers(q) => HostHeader(q \o c, n) = HostHeader(q, n)
            /\ Assembled(q \o c, n) = Assembled(q, n)
        BY <4>1, <4>2, <3>5 DEF ReadTogether
      <4>4. n \in start..k + 1 - 1 <=> n \in start..k - 1
        BY <3>6, <3>9
      <4>5. ReadsEntries(m, start, q \o c, k + 1, n)
        BY <4>3, <4>4, <2>1 DEF ReadsEntries
      <4>6. QED
        BY <4>5, <2>3
    <3>10. QED
      BY <3>8, <3>9
  <2>7. QED
    BY <2>2, <2>5, <2>6
<1>4. \A k \in 0..Len(m) : k \in S
  <2> HIDE DEF S
  <2>1. QED
    BY <1>1, <1>2, <1>3, Induction
<1>5. QED
  BY <1>4
=============================================================================
