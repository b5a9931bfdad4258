------------------------ MODULE ManifestStreamProofs ------------------------
(***************************************************************************)
(* The manifest that is streamed is the one the section's rows make, for   *)
(* any rows, any length of the list of seen ids, any strings and chunks.   *)
(***************************************************************************)
EXTENDS ManifestStream, ManifestFormatProofs, FiniteSetTheorems

-----------------------------------------------------------------------------
(***************************************************************************)
(* The list of seen ids, after n entries of the section.                   *)
(***************************************************************************)
Upto(table, n) == {table[k] : k \in 1..n}
SeenAfter(table, n) == {table[k] : k \in {i \in 1..n : Recorded(table, i)}}

LEMMA UptoIs ==
  ASSUME NEW table \in Seq(Ids), NEW n \in 0..Len(table)
  PROVE  /\ ToSet(SubSeq(table, 1, n)) = Upto(table, n)
         /\ Upto(table, 0) = {}
         /\ n < Len(table) => Upto(table, n + 1) = Upto(table, n) \cup {table[n + 1]}
         /\ Upto(table, n) \subseteq Ids
<1>1. Len(SubSeq(table, 1, n)) = n /\ \A k \in 1..n : SubSeq(table, 1, n)[k] = table[k]
  BY SubSeqProperties
<1>2. ToSet(SubSeq(table, 1, n)) = Upto(table, n)
  <2> DEFINE s == SubSeq(table, 1, n)
  <2>1. DOMAIN s = 1..n
    BY <1>1
  <2>2. \A k \in 1..n : s[k] = table[k]
    BY <1>1
  <2> HIDE DEF s
  <2>3. ToSet(s) = {s[k] : k \in 1..n}
    BY <2>1 DEF ToSet
  <2>4. {s[k] : k \in 1..n} = Upto(table, n)
    BY <2>2 DEF Upto
  <2>5. QED
    BY <2>3, <2>4 DEF s
<1>3. n < Len(table) => 1..n + 1 = 1..n \cup {n + 1}
  OBVIOUS
<1>4. n < Len(table) => Upto(table, n + 1) = Upto(table, n) \cup {table[n + 1]}
  BY <1>3 DEF Upto
<1>5. Upto(table, 0) = {} /\ Upto(table, n) \subseteq Ids
  BY DEF Upto
<1>6. QED
  BY <1>2, <1>4, <1>5

LEMMA UptoFinite ==
  ASSUME NEW table \in Seq(Ids)
  PROVE  \A n \in 0..Len(table) : IsFiniteSet(Upto(table, n))
<1> DEFINE S == {n \in Nat : IsFiniteSet(Upto(table, n))}
<1>0. Len(table) \in Nat
  OBVIOUS
<1>1. 0 \in S
  BY <1>0, UptoIs, FS_EmptySet
<1>2. ASSUME NEW n \in 0..Len(table) - 1, n \in S
      PROVE  n + 1 \in S
  <2>1. n \in 0..Len(table) /\ n < Len(table) /\ n \in Nat
    BY <1>0
  <2>2. Upto(table, n + 1) = Upto(table, n) \cup {table[n + 1]}
    BY <2>1, UptoIs
  <2>3. IsFiniteSet(Upto(table, n + 1))
    BY <1>2, <2>2, FS_AddElement
  <2>4. QED
    BY <2>1, <2>3
<1>3. \A n \in 0..Len(table) : n \in S
  <2> HIDE DEF S
  <2>1. QED
    BY <1>0, <1>1, <1>2, Induction
<1>4. QED
  BY <1>3

LEMMA RecordedIs ==
  ASSUME NEW table \in Seq(Ids), NEW n \in 0..Len(table) - 1
  PROVE  Recorded(table, n + 1) <=> Cardinality(Upto(table, n)) < MaxCaps
<1>1. n + 1 - 1 = n /\ n \in 0..Len(table)
  OBVIOUS
<1>2. ToSet(SubSeq(table, 1, n)) = Upto(table, n)
  BY <1>1, UptoIs
<1>3. QED
  BY <1>1, <1>2 DEF Recorded

(* The list holds every id so far until it is full.                         *)
ListHolds(table, n) ==
  /\ Cardinality(SeenAfter(table, n)) <= MaxCaps
  /\ Cardinality(Upto(table, n)) < MaxCaps => SeenAfter(table, n) = Upto(table, n)
  /\ Cardinality(Upto(table, n)) >= MaxCaps => Cardinality(SeenAfter(table, n)) = MaxCaps

LEMMA SeenNext ==
  ASSUME NEW table \in Seq(Ids), NEW n \in 0..Len(table) - 1
  PROVE  /\ Recorded(table, n + 1) =>
              SeenAfter(table, n + 1) = SeenAfter(table, n) \cup {table[n + 1]}
         /\ ~Recorded(table, n + 1) => SeenAfter(table, n + 1) = SeenAfter(table, n)
<1>1. Recorded(table, n + 1) =>
        {i \in 1..n + 1 : Recorded(table, i)} = {i \in 1..n : Recorded(table, i)} \cup {n + 1}
  OBVIOUS
<1>2. ~Recorded(table, n + 1) =>
        {i \in 1..n + 1 : Recorded(table, i)} = {i \in 1..n : Recorded(table, i)}
  OBVIOUS
<1>3. QED
  BY <1>1, <1>2 DEF SeenAfter

LEMMA ListHoldsAll ==
  ASSUME NEW table \in Seq(Ids)
  PROVE  \A n \in 0..Len(table) : ListHolds(table, n)
<1> DEFINE S == {n \in Nat : ListHolds(table, n)}
<1>0. Len(table) \in Nat
  OBVIOUS
<1>1. 0 \in S
  <2>1. SeenAfter(table, 0) = {} /\ Upto(table, 0) = {}
    BY DEF SeenAfter, Upto
  <2>2. Cardinality({}) = 0
    BY FS_EmptySet
  <2>3. /\ Cardinality(SeenAfter(table, 0)) = 0 /\ Cardinality(Upto(table, 0)) = 0
        /\ SeenAfter(table, 0) = Upto(table, 0)
    BY <2>1, <2>2, Zenon
  <2>5. ListHolds(table, 0)
    BY <2>3, StreamAssumption DEF ListHolds
  <2>4. QED
    BY <2>5
<1>2. ASSUME NEW n \in 0..Len(table) - 1, n \in S
      PROVE  n + 1 \in S
  <2> DEFINE u == Upto(table, n)
             e == table[n + 1]
  <2>1. ListHolds(table, n) /\ n \in 0..Len(table) /\ n + 1 \in 0..Len(table) /\ n < Len(table)
    BY <1>0, <1>2
  <2>2. IsFiniteSet(u) /\ Upto(table, n + 1) = u \cup {e}
    BY <2>1, UptoFinite, UptoIs
  <2> DEFINE c == Cardinality(u)
             d == Cardinality(Upto(table, n + 1))
  <2>3. c \in Nat /\ (d = c \/ d = c + 1)
    <3>1. c \in Nat /\ (Cardinality(u \cup {e}) = c \/ Cardinality(u \cup {e}) = c + 1)
      <4> HIDE DEF u, e
      <4>1. QED
        BY <2>2, FS_AddElement, FS_CardinalityType
    <3>2. d = Cardinality(u \cup {e})
      BY <2>2, Zenon
    <3> HIDE DEF c, d, u, e
    <3>3. QED
      BY <3>1, <3>2
  <2>4. CASE c >= MaxCaps
    <3>1. ~Recorded(table, n + 1) /\ d >= MaxCaps /\ ~(d < MaxCaps)
      <4>1. ~(c < MaxCaps) /\ d >= MaxCaps /\ ~(d < MaxCaps)
        <5> HIDE DEF c, d
        <5>1. QED
          BY <2>3, <2>4, StreamAssumption
      <4>2. QED
        BY <4>1, RecordedIs
    <3>2. Cardinality(SeenAfter(table, n)) = MaxCaps
      BY <2>1, <2>4 DEF ListHolds
    <3>3. SeenAfter(table, n + 1) = SeenAfter(table, n)
      BY <3>1, SeenNext
    <3>4. Cardinality(SeenAfter(table, n + 1)) = MaxCaps
      BY <3>2, <3>3, Zenon
    <3>5. ListHolds(table, n + 1)
      BY <3>1, <3>4, StreamAssumption DEF ListHolds
    <3>6. QED
      BY <1>0, <3>5
  <2>5. CASE c < MaxCaps
    <3>1. Recorded(table, n + 1)
      BY <2>5, RecordedIs
    <3>2. SeenAfter(table, n) = u
      BY <2>1, <2>5 DEF ListHolds
    <3>3. SeenAfter(table, n + 1) = SeenAfter(table, n) \cup {e}
      BY <3>1, SeenNext
    <3>4. SeenAfter(table, n + 1) = Upto(table, n + 1)
      BY <3>2, <3>3, <2>2, Zenon
    <3>5. Cardinality(SeenAfter(table, n + 1)) = d /\ d \in Nat /\ d <= MaxCaps
      <4>1. Cardinality(SeenAfter(table, n + 1)) = d
        BY <3>4, Zenon
      <4> HIDE DEF c, d
      <4>2. QED
        BY <4>1, <2>3, <2>5, StreamAssumption
    <3>6. d >= MaxCaps => Cardinality(SeenAfter(table, n + 1)) = MaxCaps
      <4> HIDE DEF c, d
      <4>1. QED
        BY <3>5, StreamAssumption
    <3>7. Cardinality(SeenAfter(table, n + 1)) <= MaxCaps
      BY <3>5
    <3>8. ListHolds(table, n + 1)
      BY <3>4, <3>6, <3>7 DEF ListHolds
    <3>9. QED
      BY <1>0, <3>8
  <2>6. c >= MaxCaps \/ c < MaxCaps
    <3> HIDE DEF c
    <3>1. QED
      BY <2>3, StreamAssumption
  <2>7. QED
    BY <2>4, <2>5, <2>6
<1>3. \A n \in 0..Len(table) : n \in S
  <2> HIDE DEF S
  <2>1. QED
    BY <1>0, <1>1, <1>2, Induction
<1>4. QED
  BY <1>3

(* What seen_id() answers for the next entry, and what it leaves behind.    *)
LEMMA SeenStep ==
  ASSUME NEW table \in Seq(Ids), NEW n \in 0..Len(table) - 1
  PROVE  /\ Seen(SeenAfter(table, n), table[n + 1]) <=> Repeated(table, n + 1)
         /\ Repeated(table, n + 1) => SeenAfter(table, n + 1) = SeenAfter(table, n)
         /\ SeenAfter(table, n + 1) = Record(SeenAfter(table, n), table[n + 1])
<1>1. Seen(SeenAfter(table, n), table[n + 1]) <=> Repeated(table, n + 1)
  <2>1. n + 1 - 1 = n
    OBVIOUS
  <2>2. QED
    BY <2>1 DEF Seen, SeenAfter, Repeated
<1>2. Repeated(table, n + 1) => SeenAfter(table, n + 1) = SeenAfter(table, n)
  <2>1. ASSUME table[n + 1] \in SeenAfter(table, n)
        PROVE  SeenAfter(table, n + 1) = SeenAfter(table, n)
    <3>1. SeenAfter(table, n) \cup {table[n + 1]} = SeenAfter(table, n)
      BY <2>1
    <3>2. QED
      BY <3>1, SeenNext, Zenon
  <2>2. QED
    BY <1>1, <2>1 DEF Seen
<1>3. Recorded(table, n + 1) <=> Cardinality(SeenAfter(table, n)) < MaxCaps
  <2>1. ListHolds(table, n) /\ n \in 0..Len(table)
    BY ListHoldsAll
  <2>2. Cardinality(Upto(table, n)) \in Nat
    BY <2>1, UptoFinite, FS_CardinalityType
  <2>3. CASE Cardinality(Upto(table, n)) < MaxCaps
    BY <2>1, <2>3, RecordedIs DEF ListHolds
  <2>4. CASE Cardinality(Upto(table, n)) >= MaxCaps
    <3>1. Cardinality(SeenAfter(table, n)) = MaxCaps
      BY <2>1, <2>4 DEF ListHolds
    <3>2. ~Recorded(table, n + 1)
      BY <2>2, <2>4, RecordedIs, StreamAssumption
    <3>3. QED
      BY <3>1, <3>2, StreamAssumption
  <2>5. QED
    BY <2>2, <2>3, <2>4, StreamAssumption
<1>4. SeenAfter(table, n + 1) = Record(SeenAfter(table, n), table[n + 1])
  BY <1>3, SeenNext, Zenon DEF Record
<1>5. QED
  BY <1>1, <1>2, <1>4

-----------------------------------------------------------------------------
(***************************************************************************)
(* What is listed, up to the n-th entry of the section.                    *)
(***************************************************************************)
Own(table, k) == IF Repeated(table, k) THEN <<>> ELSE <<table[k]>>
ListedTo(table, n) == FlattenSeq([k \in 1..n |-> Own(table, k)])

LEMMA OwnType ==
  ASSUME NEW table \in Seq(Ids), NEW k \in 1..Len(table)
  PROVE  Own(table, k) \in Seq(Ids)
<1>1. table[k] \in Ids
  OBVIOUS
<1>2. <<table[k]>> \in Seq(Ids) /\ <<>> \in Seq(Ids)
  BY <1>1
<1>3. QED
  BY <1>2 DEF Own

LEMMA ListedSteps ==
  ASSUME NEW table \in Seq(Ids)
  PROVE  /\ ListedTo(table, 0) = <<>>
         /\ \A n \in 0..Len(table) : ListedTo(table, n) \in Seq(Ids)
         /\ \A n \in 0..Len(table) - 1 :
              ListedTo(table, n + 1) =
                IF Repeated(table, n + 1) THEN ListedTo(table, n)
                ELSE Append(ListedTo(table, n), table[n + 1])
         /\ ListedTo(table, Len(table)) = Listed(table)
<1>0. Len(table) \in Nat /\ DOMAIN table = 1..Len(table)
  OBVIOUS
<1>1. ListedTo(table, 0) = <<>>
  <2> DEFINE e == [k \in 1..0 |-> Own(table, k)]
  <2>1. e = <<>>
    OBVIOUS
  <2>2. FlattenSeq(e) = FlattenSeq(<<>>)
    BY <2>1, Zenon
  <2>3. QED
    BY <2>2, FlattenEmpty DEF ListedTo
<1>2. ASSUME NEW n \in 0..Len(table)
      PROVE  ListedTo(table, n) \in Seq(Ids)
  <2> DEFINE f == [k \in 1..n |-> Own(table, k)]
  <2>1. n \in Nat /\ f \in [1..n -> Seq(Ids)]
    BY <1>0, OwnType
  <2>2. f \in Seq(Seq(Ids))
    <3> HIDE DEF f
    <3>1. QED
      BY <2>1, FunctionIsSequence
  <2>3. FlattenSeq(f) \in Seq(Ids)
    <3> HIDE DEF f
    <3>1. QED
      BY <2>2, FlattenType
  <2>4. QED
    BY <2>3 DEF ListedTo
<1>3. ASSUME NEW n \in 0..Len(table) - 1
      PROVE  ListedTo(table, n + 1) =
               IF Repeated(table, n + 1) THEN ListedTo(table, n)
               ELSE Append(ListedTo(table, n), table[n + 1])
  <2> DEFINE f == [k \in 1..n + 1 |-> Own(table, k)]
             g == [k \in 1..n |-> Own(table, k)]
  <2>1. n \in Nat /\ n + 1 \in 1..n + 1 /\ n \in 0..Len(table)
    BY <1>0
  <2>2. /\ f = [k \in 1..n + 1 |-> f[k]] /\ \A k \in 1..n + 1 : f[k] \in Seq(Ids)
        /\ g = [k \in 1..n |-> f[k]] /\ f[n + 1] = Own(table, n + 1)
    BY <1>0, <2>1, OwnType
  <2>3. FlattenSeq(f) = FlattenSeq(g) \o f[n + 1]
    <3> HIDE DEF f, g
    <3>1. QED
      BY <2>1, <2>2, FlattenGrow
  <2>4. ListedTo(table, n + 1) = ListedTo(table, n) \o Own(table, n + 1)
    BY <2>2, <2>3, Zenon DEF ListedTo
  <2>5. ListedTo(table, n) \in Seq(Ids) /\ table[n + 1] \in Ids
    BY <1>0, <2>1, <1>2
  <2>6. CASE Repeated(table, n + 1)
    <3>1. Own(table, n + 1) = <<>>
      BY <2>6 DEF Own
    <3>2. ListedTo(table, n) \o <<>> = ListedTo(table, n)
      BY <2>5, ConcatEmptySeq
    <3>3. QED
      BY <2>4, <2>6, <3>1, <3>2
  <2>7. CASE ~Repeated(table, n + 1)
    <3>1. Own(table, n + 1) = <<table[n + 1]>>
      BY <2>7 DEF Own
    <3>2. ListedTo(table, n) \o <<table[n + 1]>> = Append(ListedTo(table, n), table[n + 1])
      BY <2>5
    <3>3. QED
      BY <2>4, <2>7, <3>1, <3>2
  <2>8. QED
    BY <2>6, <2>7
<1>4. ListedTo(table, Len(table)) = Listed(table)
  BY <1>0 DEF ListedTo, Listed, Own
<1>5. QED
  BY <1>1, <1>2, <1>3, <1>4

(* What has been listed stays where it is.                                  *)
LEMMA ListedGrows ==
  ASSUME NEW table \in Seq(Ids), NEW n \in 0..Len(table)
  PROVE  /\ Len(ListedTo(table, n)) \in 0..n
         /\ Len(ListedTo(table, n)) <= Len(Listed(table))
         /\ \A i \in 1..Len(ListedTo(table, n)) : Listed(table)[i] = ListedTo(table, n)[i]
<1> DEFINE l(k) == ListedTo(table, k)
           Extends(k) == /\ Len(l(n)) <= Len(l(k))
                         /\ \A i \in 1..Len(l(n)) : l(k)[i] = l(n)[i]
<1>0. Len(table) \in Nat /\ n \in Nat /\ n <= Len(table)
  OBVIOUS
<1>1. \A k \in 0..Len(table) : l(k) \in Seq(Ids)
  BY ListedSteps
<1>2. \A k \in 0..Len(table) - 1 : l(k + 1) = l(k) \/ l(k + 1) = Append(l(k), table[k + 1])
  BY ListedSteps
<1>3. \A k \in 0..Len(table) - 1 : k \in 0..Len(table) /\ k + 1 \in 0..Len(table) /\ table[k + 1] \in Ids
  BY <1>0
<1>4. l(0) = <<>> /\ l(Len(table)) = Listed(table)
  BY ListedSteps
<1> HIDE DEF l
<1>5. \A k \in 0..Len(table) - 1 : /\ Len(l(k + 1)) \in {Len(l(k)), Len(l(k)) + 1}
                                   /\ \A i \in 1..Len(l(k)) : l(k + 1)[i] = l(k)[i]
  <2> TAKE k \in 0..Len(table) - 1
  <2> DEFINE s == l(k)
  <2>1. s \in Seq(Ids) /\ table[k + 1] \in Ids
    BY <1>1, <1>3
  <2>2. l(k + 1) = s \/ l(k + 1) = Append(s, table[k + 1])
    BY <1>2
  <2> HIDE DEF s
  <2>3. CASE l(k + 1) = s
    BY <2>1, <2>3 DEF s
  <2>4. CASE l(k + 1) = Append(s, table[k + 1])
    <3>1. /\ Len(Append(s, table[k + 1])) = Len(s) + 1
          /\ \A i \in 1..Len(s) : Append(s, table[k + 1])[i] = s[i]
      BY <2>1
    <3>2. Len(l(k + 1)) = Len(s) + 1 /\ \A i \in 1..Len(s) : l(k + 1)[i] = s[i]
      BY <2>4, <3>1
    <3>3. QED
      BY <3>2 DEF s
  <2>5. QED
    BY <2>2, <2>3, <2>4
<1>6. Len(l(n)) \in 0..n
  <2> DEFINE S == {k \in Nat : Len(l(k)) \in 0..k}
  <2>1. 0 \in S
    BY <1>4
  <2>2. ASSUME NEW k \in 0..Len(table) - 1, k \in S
        PROVE  k + 1 \in S
    BY <2>2, <1>0, <1>5
  <2>3. \A k \in 0..Len(table) : k \in S
    <3> HIDE DEF S
    <3>1. QED
      BY <1>0, <2>1, <2>2, Induction
  <2>4. QED
    BY <1>0, <2>3
<1>7. Extends(Len(table))
  <2> DEFINE S == {k \in Nat : Extends(k)}
  <2>1. n \in S
    BY <1>0, <1>1
  <2>2. ASSUME NEW k \in n..Len(table) - 1, k \in S
        PROVE  k + 1 \in S
    <3>1. k \in 0..Len(table) - 1 /\ k \in Nat /\ l(k) \in Seq(Ids) /\ l(n) \in Seq(Ids)
      BY <1>0, <1>1, <1>3
    <3>2. Extends(k) /\ Len(l(k)) \in Nat /\ Len(l(n)) \in Nat
      BY <2>2, <3>1
    <3>3. Extends(k + 1)
      BY <3>1, <3>2, <1>5
    <3>4. QED
      BY <3>1, <3>3
  <2>3. \A k \in n..Len(table) : k \in S
    <3> HIDE DEF S
    <3>1. QED
      BY <1>0, <2>1, <2>2, Induction
  <2>4. QED
    BY <1>0, <2>3
<1>8. QED
  BY <1>4, <1>6, <1>7 DEF l

(* No capability is left out.                                               *)
LEMMA ListedAll ==
  ASSUME NEW table \in Seq(Ids)
  PROVE  ToSet(Listed(table)) = ToSet(table)
<1> DEFINE l(k) == ListedTo(table, k)
           S == {k \in Nat : ToSet(l(k)) = Upto(table, k)}
<1>0. Len(table) \in Nat
  OBVIOUS
<1>1. 0 \in S
  <2>1. l(0) = <<>> /\ Upto(table, 0) = {}
    BY <1>0, ListedSteps, UptoIs
  <2>2. ToSet(<<>>) = {}
    BY DEF ToSet
  <2>3. ToSet(l(0)) = Upto(table, 0)
    <3> HIDE DEF l
    <3>1. QED
      BY <2>1, <2>2, Zenon
  <2>4. QED
    BY <2>3
<1>2. ASSUME NEW k \in 0..Len(table) - 1, k \in S
      PROVE  k + 1 \in S
  <2>1. k \in 0..Len(table) /\ k < Len(table) /\ k + 1 \in Nat /\ table[k + 1] \in Ids
    BY <1>0
  <2>2. l(k) \in Seq(Ids) /\ Upto(table, k + 1) = Upto(table, k) \cup {table[k + 1]}
    BY <2>1, ListedSteps, UptoIs
  <2>3. ToSet(l(k)) = Upto(table, k)
    BY <1>2
  <2>4. CASE Repeated(table, k + 1)
    <3>1. l(k + 1) = l(k)
      BY <2>4, ListedSteps
    <3>2. table[k + 1] \in Upto(table, k)
      BY <2>1, <2>4 DEF Repeated, Upto
    <3>3. Upto(table, k + 1) = Upto(table, k)
      BY <3>2, <2>2
    <3>4. ToSet(l(k + 1)) = Upto(table, k + 1)
      <4> HIDE DEF l
      <4>1. QED
        BY <2>3, <3>1, <3>3, Zenon
    <3>5. QED
      BY <2>1, <3>4
  <2>5. CASE ~Repeated(table, k + 1)
    <3>1. l(k + 1) = Append(l(k), table[k + 1])
      BY <2>5, ListedSteps
    <3>2. ToSet(Append(l(k), table[k + 1])) = ToSet(l(k)) \cup {table[k + 1]}
      <4> HIDE DEF l
      <4>1. DOMAIN Append(l(k), table[k + 1]) = DOMAIN l(k) \cup {Len(l(k)) + 1}
        BY <2>1, <2>2
      <4>2. /\ \A i \in DOMAIN l(k) : Append(l(k), table[k + 1])[i] = l(k)[i]
            /\ Append(l(k), table[k + 1])[Len(l(k)) + 1] = table[k + 1]
        BY <2>1, <2>2
      <4>3. QED
        BY <4>1, <4>2 DEF ToSet
    <3>3. ToSet(l(k + 1)) = Upto(table, k + 1)
      <4> HIDE DEF l
      <4>1. QED
        BY <2>2, <2>3, <3>1, <3>2, Zenon
    <3>4. QED
      BY <2>1, <3>3
  <2>6. QED
    BY <2>4, <2>5
<1>3. \A k \in 0..Len(table) : k \in S
  <2> HIDE DEF S
  <2>1. QED
    BY <1>0, <1>1, <1>2, Induction
<1>4. ToSet(l(Len(table))) = Upto(table, Len(table)) /\ l(Len(table)) = Listed(table)
  BY <1>0, <1>3, ListedSteps
<1>5. Upto(table, Len(table)) = ToSet(table)
  BY DEF Upto, ToSet
<1>6. QED
  <2> HIDE DEF l
  <2>1. QED
    BY <1>4, <1>5, Zenon

-----------------------------------------------------------------------------
(***************************************************************************)
(* count_caps().                                                           *)
(***************************************************************************)
Turn(table, was, n) ==
  IF Seen(was.seen, table[n]) THEN was
  ELSE [seen |-> Record(was.seen, table[n]), count |-> (was.count + 1) % Width]
Start == [seen |-> {}, count |-> 0]
CountUpTo(table, n, f) == f = [i \in 0..n |-> IF i = 0 THEN Start ELSE Turn(table, f[i - 1], i)]

LEMMA CountAt ==
  ASSUME NEW table, NEW n, NEW f, CountUpTo(table, n, f), NEW i \in 0..n
  PROVE  f[i] = IF i = 0 THEN Start ELSE Turn(table, f[i - 1], i)
BY DEF CountUpTo

LEMMA CountExists ==
  ASSUME NEW table, NEW l \in Nat
  PROVE  \E f : CountUpTo(table, l, f)
<1> DEFINE S == {n \in Nat : \E f : CountUpTo(table, n, f)}
<1>1. 0 \in S
  <2>1. CountUpTo(table, 0, [i \in 0..0 |-> Start])
    BY DEF CountUpTo
  <2>2. QED
    BY <2>1
<1>2. ASSUME NEW n \in 0..l - 1, n \in S
      PROVE  n + 1 \in S
  <2>1. PICK f : CountUpTo(table, n, f)
    BY <1>2
  <2> DEFINE g == [i \in 0..n + 1 |-> IF i = n + 1 THEN Turn(table, f[n], i) ELSE f[i]]
  <2>2. \A i \in 0..n : g[i] = f[i] /\ f[i] = IF i = 0 THEN Start ELSE Turn(table, f[i - 1], i)
    BY <2>1, CountAt
  <2>3. \A i \in 0..n + 1 : g[i] = IF i = 0 THEN Start ELSE Turn(table, g[i - 1], i)
    <3> SUFFICES ASSUME NEW i \in 0..n + 1
                 PROVE  g[i] = IF i = 0 THEN Start ELSE Turn(table, g[i - 1], i)
      OBVIOUS
    <3>1. i # 0 => i - 1 \in 0..n
      OBVIOUS
    <3>2. i # 0 => g[i - 1] = f[i - 1]
      BY <3>1, <2>2
    <3>3. CASE i = n + 1
      BY <3>2, <3>3
    <3>4. CASE i \in 0..n
      BY <3>2, <3>4, <2>2
    <3>5. QED
      BY <3>3, <3>4
  <2>4. g = [i \in 0..n + 1 |-> g[i]]
    OBVIOUS
  <2>5. CountUpTo(table, n + 1, g)
    <3> HIDE DEF g
    <3>1. QED
      BY <2>3, <2>4 DEF CountUpTo
  <2>6. QED
    BY <2>5
<1>3. \A n \in 0..l : n \in S
  <2> HIDE DEF S
  <2>1. QED
    BY <1>1, <1>2, Induction
<1>4. QED
  BY <1>3

LEMMA CountIs ==
  ASSUME NEW table \in Seq(Ids)
  PROVE  \E f : CountUpTo(table, Len(table), f) /\ CountCaps(table) = f[Len(table)].count
<1> DEFINE counted == CHOOSE f : CountUpTo(table, Len(table), f)
<1>1. CountUpTo(table, Len(table), counted)
  BY CountExists
<1>2. CountCaps(table) = counted[Len(table)].count
  BY DEF CountCaps, CountUpTo, Turn, Start
<1>3. QED
  BY <1>1, <1>2

LEMMA NoWrap ==
  ASSUME NEW k \in Nat, k < Width
  PROVE  k % Width = k
BY StreamAssumption

LEMMA Wrap ==
  ASSUME NEW k \in Nat
  PROVE  k % Width \in 0..Width - 1
BY StreamAssumption

LEMMA CountRange ==
  ASSUME NEW table \in Seq(Ids)
  PROVE  CountCaps(table) \in 0..Width - 1
<1>0. Len(table) \in Nat
  OBVIOUS
<1>1. PICK f : CountUpTo(table, Len(table), f) /\ CountCaps(table) = f[Len(table)].count
  BY CountIs
<1> DEFINE S == {n \in Nat : f[n].count \in 0..Width - 1}
<1>2. 0 \in S
  <2>1. f[0] = Start
    BY <1>0, <1>1, CountAt
  <2>2. QED
    BY <2>1, StreamAssumption DEF Start
<1>3. ASSUME NEW n \in 0..Len(table) - 1, n \in S
      PROVE  n + 1 \in S
  <2>1. n + 1 \in 0..Len(table) /\ n + 1 # 0 /\ (n + 1) - 1 = n
    BY <1>0
  <2>2. f[n + 1] = Turn(table, f[n], n + 1)
    BY <2>1, <1>1, CountAt
  <2>3. f[n].count \in 0..Width - 1 /\ f[n].count + 1 \in Nat
    BY <1>3, StreamAssumption
  <2>4. (f[n].count + 1) % Width \in 0..Width - 1
    BY <2>3, Wrap
  <2>5. f[n + 1].count \in 0..Width - 1
    BY <2>2, <2>3, <2>4 DEF Turn
  <2>6. QED
    BY <2>1, <2>5
<1>4. \A n \in 0..Len(table) : n \in S
  <2> HIDE DEF S
  <2>1. QED
    BY <1>0, <1>2, <1>3, Induction
<1>5. QED
  BY <1>0, <1>1, <1>4

(* It counts what is listed, as far as a uint8_t goes.                      *)
LEMMA CountsListed ==
  ASSUME NEW table \in Seq(Ids), Len(Listed(table)) < Width
  PROVE  CountCaps(table) = Len(Listed(table))
<1>0. Len(table) \in Nat
  OBVIOUS
<1>1. PICK f : CountUpTo(table, Len(table), f) /\ CountCaps(table) = f[Len(table)].count
  BY CountIs
<1> DEFINE Good(n) == f[n] = [seen |-> SeenAfter(table, n), count |-> Len(ListedTo(table, n))]
           S == {n \in Nat : Good(n)}
<1>2. 0 \in S
  <2>1. f[0] = Start
    BY <1>0, <1>1, CountAt
  <2>2. SeenAfter(table, 0) = {} /\ Len(ListedTo(table, 0)) = 0
    BY ListedSteps DEF SeenAfter
  <2>3. Good(0)
    BY <2>1, <2>2, Zenon DEF Start
  <2>4. QED
    BY <2>3
<1>3. ASSUME NEW n \in 0..Len(table) - 1, n \in S
      PROVE  n + 1 \in S
  <2> DEFINE c == Len(ListedTo(table, n))
  <2>1. n \in 0..Len(table) /\ n + 1 \in 0..Len(table) /\ n + 1 # 0 /\ n + 1 - 1 = n
    BY <1>0
  <2>2. f[n + 1] = Turn(table, f[n], n + 1)
    BY <2>1, <1>1, CountAt
  <2>3. f[n] = [seen |-> SeenAfter(table, n), count |-> c]
    BY <1>3
  <2>4. f[n + 1] = IF Repeated(table, n + 1) THEN f[n]
                   ELSE [seen |-> SeenAfter(table, n + 1), count |-> (c + 1) % Width]
    BY <2>2, <2>3, SeenStep DEF Turn
  <2>5. ListedTo(table, n) \in Seq(Ids) /\ table[n + 1] \in Ids
    BY <2>1, <1>0, ListedSteps
  <2>6. CASE Repeated(table, n + 1)
    <3>1. ListedTo(table, n + 1) = ListedTo(table, n) /\ SeenAfter(table, n + 1) = SeenAfter(table, n)
      BY <2>6, ListedSteps, SeenStep
    <3>2. Good(n + 1)
      BY <3>1, <2>3, <2>4, <2>6, Zenon
    <3>3. QED
      BY <3>2, <2>1
  <2>7. CASE ~Repeated(table, n + 1)
    <3>1. Len(ListedTo(table, n + 1)) = c + 1 /\ c \in Nat
      <4>1. ListedTo(table, n + 1) = Append(ListedTo(table, n), table[n + 1])
        BY <2>7, ListedSteps
      <4>2. QED
        BY <4>1, <2>5
    <3>2. c + 1 < Width
      <4>1. Len(ListedTo(table, n + 1)) <= Len(Listed(table)) /\ Len(Listed(table)) \in Nat
        BY <2>1, <1>0, ListedGrows, ListedSteps
      <4>2. QED
        BY <4>1, <3>1, StreamAssumption
    <3>3. (c + 1) % Width = c + 1
      BY <3>1, <3>2, NoWrap
    <3>4. Good(n + 1)
      <4> HIDE DEF c
      <4>1. QED
        BY <2>4, <2>7, <3>1, <3>3
    <3>5. QED
      BY <3>4, <2>1
  <2>8. QED
    BY <2>6, <2>7
<1>4. \A n \in 0..Len(table) : n \in S
  <2> HIDE DEF S
  <2>1. QED
    BY <1>0, <1>2, <1>3, Induction
<1>5. Good(Len(table)) /\ ListedTo(table, Len(table)) = Listed(table)
  BY <1>0, <1>4, ListedSteps
<1>6. QED
  BY <1>1, <1>5

-----------------------------------------------------------------------------
(***************************************************************************)
(* The rows of the section and of the identity, and their numbers.         *)
(***************************************************************************)
Named == Len(Identity)
Entries(table) == Identity \o Listed(table)
Taken(table, r) == r <= Named \/ ~Repeated(table, r - Named)
Number(table, r) == IF r <= Named THEN r - 1 ELSE Named + Len(ListedTo(table, r - 1 - Named))
SeenAt(table, r) == SeenAfter(table, IF r <= Named THEN 0 ELSE r - 1 - Named)

LEMMA IdentityIs == Identity \in Seq(Strings) /\ Named \in {1, 2}
<1>1. BoardName \in Strings /\ ConfigId \in Strings
  BY DEF Strings
<1>2. CASE Length[ConfigId] > 0
  <2>1. Identity = <<BoardName, ConfigId>>
    BY <1>2 DEF Identity
  <2>2. QED
    BY <2>1, <1>1 DEF Named
<1>3. CASE ~(Length[ConfigId] > 0)
  <2>1. Identity = <<BoardName>>
    BY <1>3 DEF Identity
  <2>2. QED
    BY <2>1, <1>1 DEF Named
<1>4. QED
  BY <1>2, <1>3

LEMMA RowsAre ==
  ASSUME NEW table \in Seq(Ids)
  PROVE  /\ Rows(table) \in Seq(Strings) /\ Len(Rows(table)) = Named + Len(table)
         /\ \A r \in 1..Named : Rows(table)[r] = Identity[r]
         /\ \A k \in 1..Len(table) : Rows(table)[Named + k] = table[k]
<1> DEFINE i == Identity
<1>1. table \in Seq(Strings) /\ i \in Seq(Strings) /\ Len(i) = Named
  <2>1. Ids \subseteq Strings
    BY DEF Strings
  <2>2. QED
    BY <2>1, IdentityIs, SeqMonotonic DEF Named
<1> HIDE DEF i
<1>2. /\ i \o table \in Seq(Strings) /\ Len(i \o table) = Len(i) + Len(table)
      /\ \A r \in 1..Len(i) : (i \o table)[r] = i[r]
      /\ \A k \in 1..Len(table) : (i \o table)[Len(i) + k] = table[k]
  BY <1>1
<1>3. QED
  BY <1>1, <1>2, Zenon DEF Rows, i

LEMMA EntriesAre ==
  ASSUME NEW table \in Seq(Ids)
  PROVE  /\ Entries(table) \in Seq(Strings) /\ Listed(table) \in Seq(Ids)
         /\ Len(Entries(table)) = Named + Len(Listed(table))
         /\ Len(Entries(table)) <= Len(Rows(table))
         /\ \A r \in 1..Named : Entries(table)[r] = Identity[r]
         /\ \A k \in 1..Len(Listed(table)) : Entries(table)[Named + k] = Listed(table)[k]
<1>1. Listed(table) \in Seq(Ids) /\ Len(Listed(table)) <= Len(table)
  <2>1. Len(table) \in Nat /\ Len(table) \in 0..Len(table)
    OBVIOUS
  <2>2. ListedTo(table, Len(table)) = Listed(table) /\ ListedTo(table, Len(table)) \in Seq(Ids)
    BY <2>1, ListedSteps
  <2>3. Len(ListedTo(table, Len(table))) \in 0..Len(table)
    BY <2>1, ListedGrows
  <2>4. QED
    BY <2>1, <2>2, <2>3
<1>2. Entries(table) = Rows(Listed(table))
  BY DEF Entries, Rows
<1>3. Len(Rows(Listed(table))) <= Len(Rows(table))
  <2>1. Len(Rows(Listed(table))) = Named + Len(Listed(table)) /\ Len(Rows(table)) = Named + Len(table)
    BY <1>1, RowsAre
  <2>2. Len(Listed(table)) \in Nat /\ Len(table) \in Nat
    BY <1>1
  <2>3. QED
    BY <2>1, <2>2, <1>1, IdentityIs
<1>4. QED
  BY <1>1, <1>2, <1>3, RowsAre

(* A row that is taken gets the next number, and is that entry.             *)
LEMMA RowStep ==
  ASSUME NEW table \in Seq(Ids), NEW r \in 1..Len(Rows(table))
  PROVE  /\ Number(table, r) \in Nat
         /\ Taken(table, r) =>
              /\ Number(table, r + 1) = Number(table, r) + 1
              /\ Number(table, r) + 1 \in 1..Len(Entries(table))
              /\ Entries(table)[Number(table, r) + 1] = Rows(table)[r]
         /\ ~Taken(table, r) => Number(table, r + 1) = Number(table, r)
         /\ IsCap(r) => /\ Seen(SeenAt(table, r), Rows(table)[r]) <=> ~Taken(table, r)
                        /\ SeenAt(table, r + 1) = Record(SeenAt(table, r), Rows(table)[r])
         /\ ~Taken(table, r) => SeenAt(table, r + 1) = SeenAt(table, r)
         /\ ~IsCap(r) => Taken(table, r) /\ SeenAt(table, r + 1) = SeenAt(table, r)
<1>1. /\ Named \in Nat \ {0} /\ Len(table) \in Nat /\ r \in 1..Named + Len(table)
      /\ Len(Listed(table)) \in Nat /\ Len(Entries(table)) = Named + Len(Listed(table))
  <2>1. Named \in Nat \ {0} /\ Len(table) \in Nat /\ Listed(table) \in Seq(Ids)
    BY IdentityIs, EntriesAre
  <2>2. Len(Rows(table)) = Named + Len(table) /\ Len(Entries(table)) = Named + Len(Listed(table))
    BY RowsAre, EntriesAre
  <2>3. Len(Listed(table)) \in Nat
    BY <2>1
  <2>4. QED
    BY <2>1, <2>2, <2>3
<1>2. CASE r <= Named
  <2>1. ~IsCap(r) /\ Taken(table, r)
    BY <1>1, <1>2 DEF IsCap, Named, Taken
  <2>2. Number(table, r) = r - 1
    BY <1>2 DEF Number
  <2>3. Number(table, r + 1) = r
    <3>1. CASE r = Named
      <4>1. r + 1 - 1 - Named = 0 /\ ~(r + 1 <= Named)
        BY <3>1, <1>1
      <4>2. Len(ListedTo(table, 0)) = 0
        BY ListedSteps
      <4>3. QED
        BY <3>1, <4>1, <4>2, <1>1 DEF Number
    <3>2. CASE r # Named
      BY <3>2, <1>1, <1>2 DEF Number
    <3>3. QED
      BY <3>1, <3>2
  <2>4. SeenAt(table, r + 1) = SeenAt(table, r)
    <3>1. SeenAt(table, r) = SeenAfter(table, 0)
      BY <1>2 DEF SeenAt
    <3>2. CASE r = Named
      <4>1. (r + 1) - 1 - Named = 0 /\ ~(r + 1 <= Named)
        BY <3>2, <1>1
      <4>2. SeenAt(table, r + 1) = SeenAfter(table, (r + 1) - 1 - Named)
        BY <4>1 DEF SeenAt
      <4>3. QED
        BY <3>1, <4>1, <4>2
    <3>3. CASE r # Named
      <4>1. r + 1 <= Named
        BY <3>3, <1>1, <1>2
      <4>2. QED
        BY <3>1, <4>1 DEF SeenAt
    <3>4. QED
      BY <3>2, <3>3
  <2>5. Entries(table)[r] = Rows(table)[r]
    BY <1>1, <1>2, EntriesAre, RowsAre
  <2>6. QED
    BY <1>1, <1>2, <2>1, <2>2, <2>3, <2>4, <2>5
<1>3. CASE r > Named
  <2> DEFINE n == r - 1 - Named
             l == ListedTo(table, n)
  <2>1. /\ n \in 0..Len(table) - 1 /\ n \in 0..Len(table) /\ n + 1 \in 0..Len(table)
        /\ r - Named = n + 1 /\ r = Named + (n + 1) /\ r + 1 - 1 - Named = n + 1
        /\ ~(r <= Named) /\ ~(r + 1 <= Named)
    BY <1>1, <1>3
  <2>2. IsCap(r)
    BY <1>3 DEF IsCap, Named
  <2>3. Taken(table, r) <=> ~Repeated(table, n + 1)
    BY <2>1, <1>3 DEF Taken
  <2>4. Number(table, r) = Named + Len(l) /\ Number(table, r + 1) = Named + Len(ListedTo(table, n + 1))
    <3> HIDE DEF n
    <3>1. QED
      BY <2>1 DEF Number, n
  <2>5. SeenAt(table, r) = SeenAfter(table, n) /\ SeenAt(table, r + 1) = SeenAfter(table, n + 1)
    <3>1. SeenAt(table, r) = SeenAfter(table, r - 1 - Named)
      BY <2>1 DEF SeenAt
    <3>2. SeenAt(table, r + 1) = SeenAfter(table, r + 1 - 1 - Named)
      BY <2>1 DEF SeenAt
    <3>3. QED
      BY <3>1, <3>2, <2>1
  <2>6. Rows(table)[r] = table[n + 1]
    BY <2>1, <1>1, RowsAre
  <2>7. l \in Seq(Ids) /\ table[n + 1] \in Ids /\ Len(l) \in Nat
    BY <2>1, <1>1, ListedSteps
  <2>8. ListedTo(table, n + 1) = IF Repeated(table, n + 1) THEN l ELSE Append(l, table[n + 1])
    BY <2>1, ListedSteps
  <2>9. /\ Seen(SeenAfter(table, n), table[n + 1]) <=> Repeated(table, n + 1)
        /\ Repeated(table, n + 1) => SeenAfter(table, n + 1) = SeenAfter(table, n)
        /\ SeenAfter(table, n + 1) = Record(SeenAfter(table, n), table[n + 1])
    BY <2>1, SeenStep
  <2>10. ASSUME Taken(table, r)
         PROVE  /\ Number(table, r + 1) = Number(table, r) + 1
                /\ Number(table, r) + 1 \in 1..Len(Entries(table))
                /\ Entries(table)[Number(table, r) + 1] = Rows(table)[r]
    <3> DEFINE l2 == ListedTo(table, n + 1)
    <3>1. l2 = Append(l, table[n + 1])
      BY <2>3, <2>8, <2>10
    <3>2. Len(l2) = Len(l) + 1 /\ l2[Len(l) + 1] = table[n + 1]
      <4> HIDE DEF l2, l
      <4>1. QED
        BY <3>1, <2>7
    <3>3. /\ Len(l2) <= Len(Listed(table))
          /\ \A i \in 1..Len(l2) : Listed(table)[i] = l2[i]
      BY <2>1, ListedGrows
    <3>4. /\ Len(l) + 1 \in 1..Len(Listed(table))
          /\ Listed(table)[Len(l) + 1] = table[n + 1]
      <4> HIDE DEF l2, l
      <4>1. QED
        BY <3>2, <3>3, <2>7, <1>1
    <3>5. Entries(table)[Named + (Len(l) + 1)] = table[n + 1]
      BY <3>4, EntriesAre
    <3>6. Named + (Len(l) + 1) = Number(table, r) + 1 /\ Number(table, r + 1) = Number(table, r) + 1
      <4> HIDE DEF l2, l, n
      <4>1. QED
        BY <2>4, <2>7, <3>2, <1>1 DEF l2
    <3>7. QED
      <4>1. Number(table, r) + 1 \in 1..Len(Entries(table))
        <5> HIDE DEF l2, l, n
        <5>1. QED
          BY <3>4, <3>6, <2>7, <1>1
      <4>2. Entries(table)[Number(table, r) + 1] = Rows(table)[r]
        BY <3>5, <3>6, <2>6
      <4>3. QED
        BY <3>6, <4>1, <4>2
  <2>11. ASSUME ~Taken(table, r)
         PROVE  Number(table, r + 1) = Number(table, r)
    BY <2>3, <2>4, <2>8, <2>11
  <2>12. Number(table, r) \in Nat
    <3> HIDE DEF l, n
    <3>1. QED
      BY <2>4, <2>7, <1>1
  <2>13. /\ Seen(SeenAt(table, r), Rows(table)[r]) <=> ~Taken(table, r)
         /\ SeenAt(table, r + 1) = Record(SeenAt(table, r), Rows(table)[r])
         /\ ~Taken(table, r) => SeenAt(table, r + 1) = SeenAt(table, r)
    <3> HIDE DEF n
    <3>1. QED
      BY <2>3, <2>5, <2>6, <2>9, Zenon
  <2>14. QED
    BY <2>2, <2>10, <2>11, <2>12, <2>13
<1>4. QED
  BY <1>1, <1>2, <1>3

LEMMA FirstAndLast ==
  ASSUME NEW table \in Seq(Ids)
  PROVE  /\ Number(table, 1) = 0 /\ SeenAt(table, 1) = {}
         /\ Number(table, Len(Rows(table)) + 1) = Len(Entries(table))
<1>1. /\ Named \in Nat \ {0} /\ Len(table) \in Nat /\ Len(Rows(table)) = Named + Len(table)
      /\ Len(Entries(table)) = Named + Len(Listed(table))
  BY IdentityIs, RowsAre, EntriesAre
<1>2. Number(table, 1) = 0 /\ SeenAt(table, 1) = {}
  BY <1>1 DEF Number, SeenAt, SeenAfter
<1>3. Len(Rows(table)) + 1 - 1 - Named = Len(table) /\ ~(Len(Rows(table)) + 1 <= Named)
  BY <1>1
<1>4. ListedTo(table, Len(table)) = Listed(table)
  BY ListedSteps
<1>5. QED
  BY <1>1, <1>2, <1>3, <1>4 DEF Number

(* The manifest has the strings of the rows, and no others.                 *)
LEMMA SameStrings ==
  ASSUME NEW table \in Seq(Ids)
  PROVE  ToSet(Entries(table)) = ToSet(Rows(table))
<1>1. ASSUME NEW t \in Seq(Ids)
      PROVE  ToSet(Rows(t)) = ToSet(Identity) \cup ToSet(t)
  <2>1. /\ Rows(t) \in Seq(Strings) /\ Len(Rows(t)) = Named + Len(t)
        /\ \A r \in 1..Named : Rows(t)[r] = Identity[r]
        /\ \A k \in 1..Len(t) : Rows(t)[Named + k] = t[k]
    BY RowsAre
  <2>2. Named \in Nat /\ Len(t) \in Nat /\ DOMAIN t = 1..Len(t)
    BY IdentityIs
  <2>3. DOMAIN Identity = 1..Named
    <3>1. Identity \in Seq(Strings)
      BY IdentityIs
    <3>2. QED
      BY <3>1 DEF Named
  <2>4. DOMAIN Rows(t) = 1..Named + Len(t)
    BY <2>1
  <2>5. ASSUME NEW r \in DOMAIN Rows(t)
        PROVE  Rows(t)[r] \in ToSet(Identity) \cup ToSet(t)
    <3>1. CASE r <= Named
      BY <3>1, <2>1, <2>2, <2>3, <2>4 DEF ToSet
    <3>2. CASE r > Named
      <4>1. r - Named \in 1..Len(t) /\ r = Named + (r - Named)
        BY <3>2, <2>2, <2>4
      <4>2. Rows(t)[r] = t[r - Named]
        BY <4>1, <2>1
      <4>3. QED
        BY <4>1, <4>2, <2>2 DEF ToSet
    <3>3. QED
      BY <3>1, <3>2, <2>2, <2>4
  <2>6. ASSUME NEW r \in DOMAIN Identity
        PROVE  Identity[r] \in ToSet(Rows(t))
    <3>1. r \in DOMAIN Rows(t) /\ Rows(t)[r] = Identity[r]
      BY <2>1, <2>2, <2>3, <2>4
    <3>2. QED
      BY <3>1 DEF ToSet
  <2>7. ASSUME NEW k \in DOMAIN t
        PROVE  t[k] \in ToSet(Rows(t))
    <3>1. Named + k \in DOMAIN Rows(t) /\ Rows(t)[Named + k] = t[k]
      BY <2>1, <2>2, <2>4
    <3>2. QED
      BY <3>1 DEF ToSet
  <2>8. QED
    BY <2>5, <2>6, <2>7 DEF ToSet
<1>2. Listed(table) \in Seq(Ids) /\ ToSet(Listed(table)) = ToSet(table)
  BY EntriesAre, ListedAll
<1>3. Entries(table) = Rows(Listed(table))
  BY DEF Entries, Rows
<1>4. QED
  BY <1>1, <1>2, <1>3

-----------------------------------------------------------------------------
(***************************************************************************)
(* The inductive invariant: where the stream stands in the section, and    *)
(* what of the reference has been sent.                                    *)
(***************************************************************************)
Numbering ==
  /\ caps \in Seq(Ids) /\ start_idx \in Nat /\ last_idx = LastIdx(caps)
  /\ row \in 1..Len(Rows(caps)) + 1
  /\ seq \in 0..Width - 1
  /\ Number(caps, row) < Width => seq = Number(caps, row)
  /\ seen = SeenAt(caps, row)
  /\ lost \in 0..MaxLost

(* j chunks of the current row have been sent.                              *)
Sent(j) ==
  /\ offset = j * ChunkSize
  /\ ~Finished => j < Count(Current)
  /\ j # 0 => ToSend /\ seq >= start_idx

(* What that leaves on the wire, as long as the numbers fit.                *)
Reference(table, start, last, n, j) ==
  StreamTo(Entries(table), start, last, n) \o
    (IF j = 0 THEN <<>> ELSE ChunksSoFar(Entries(table), n + 1, n = last, j))

Streamed(j) ==
  Len(Entries(caps)) <= Width =>
    /\ received \in Seq(Parts(Entries(caps)))
    /\ lost = 0 => received = Reference(caps, start_idx, last_idx, Number(caps, row), j)

Progress == \E j \in Nat : Sent(j) /\ Streamed(j)

LEMMA ManifestIs == Manifest = Entries(caps)
BY DEF Manifest, Entries

LEMMA Standing ==
  ASSUME Numbering
  PROVE  /\ Finished <=> row = Len(Rows(caps)) + 1
         /\ ~Finished => /\ row \in 1..Len(Rows(caps)) /\ Current \in Strings
                         /\ ToSend <=> Taken(caps, row)
         /\ row \in Nat /\ Len(Rows(caps)) \in Nat
<1>1. Rows(caps) \in Seq(Strings) /\ Len(Rows(caps)) \in Nat
  BY RowsAre DEF Numbering
<1>2. Finished <=> row = Len(Rows(caps)) + 1
  BY <1>1 DEF Finished, Numbering
<1>3. ASSUME ~Finished
      PROVE  /\ row \in 1..Len(Rows(caps)) /\ Current \in Strings
             /\ ToSend <=> Taken(caps, row)
  <2>1. row \in 1..Len(Rows(caps)) /\ Current = Rows(caps)[row]
    BY <1>1, <1>2, <1>3 DEF Numbering, Current
  <2>2. Current \in Strings
    BY <1>1, <2>1
  <2>3. IsCap(row) => (Seen(SeenAt(caps, row), Rows(caps)[row]) <=> ~Taken(caps, row))
    BY <2>1, RowStep DEF Numbering
  <2>4. ~IsCap(row) => Taken(caps, row)
    BY <2>1, RowStep DEF Numbering
  <2>5. seen = SeenAt(caps, row)
    BY DEF Numbering
  <2>6. ToSend <=> Taken(caps, row)
    BY <1>3, <2>1, <2>3, <2>4, <2>5 DEF ToSend
  <2>7. QED
    BY <2>1, <2>2, <2>6
<1>4. row \in Nat
  BY <1>1 DEF Numbering
<1>5. QED
  BY <1>1, <1>2, <1>3, <1>4

(* The number of a row to be sent is the one it has in the manifest.        *)
LEMMA OwnNumber ==
  ASSUME Numbering, ToSend
  PROVE  /\ row \in 1..Len(Rows(caps)) /\ Current \in Strings /\ Number(caps, row) \in Nat
         /\ Number(caps, row + 1) = Number(caps, row) + 1
         /\ Number(caps, row) + 1 \in 1..Len(Entries(caps))
         /\ Entries(caps)[Number(caps, row) + 1] = Current
         /\ Len(Entries(caps)) <= Width => seq = Number(caps, row)
<1>1. ~Finished
  BY DEF ToSend
<1>2. row \in 1..Len(Rows(caps)) /\ Current \in Strings /\ Taken(caps, row)
  BY <1>1, Standing
<1>3. /\ Number(caps, row) \in Nat
      /\ Number(caps, row + 1) = Number(caps, row) + 1
      /\ Number(caps, row) + 1 \in 1..Len(Entries(caps))
      /\ Entries(caps)[Number(caps, row) + 1] = Rows(caps)[row]
  BY <1>2, RowStep DEF Numbering
<1>4. Len(Entries(caps)) <= Width => seq = Number(caps, row)
  <2>1. Len(Entries(caps)) \in Nat
    BY EntriesAre DEF Numbering
  <2>2. Number(caps, row) + 1 <= Len(Entries(caps))
    BY <1>3, <2>1
  <2>3. Len(Entries(caps)) <= Width => Number(caps, row) < Width
    BY <1>3, <2>1, <2>2, StreamAssumption
  <2>4. QED
    BY <2>3 DEF Numbering
<1>5. QED
  BY <1>2, <1>3, <1>4 DEF Current

LEMMA StreamBegins ==
  ASSUME StreamInit
  PROVE  Numbering /\ Progress
<1>1. caps \in Seq(Ids)
  <2>1. PICK n \in 0..MaxTable : caps \in [1..n -> Ids]
    BY DEF StreamInit, BoundedSeq, SeqOf
  <2>2. n \in Nat
    BY StreamAssumption
  <2>3. QED
    BY <2>1, <2>2, FunctionIsSequence
<1>2. Rows(caps) \in Seq(Strings) /\ Len(Rows(caps)) \in Nat /\ Len(Rows(caps)) >= 1
  <2>1. Rows(caps) \in Seq(Strings) /\ Len(Rows(caps)) = Named + Len(caps)
    BY <1>1, RowsAre
  <2>2. Len(caps) \in Nat
    BY <1>1
  <2>3. QED
    BY <2>1, <2>2, IdentityIs
<1>3. Number(caps, 1) = 0 /\ SeenAt(caps, 1) = {}
  BY <1>1, FirstAndLast
<1>4. Numbering
  <2>1. seq \in 0..Width - 1 /\ start_idx \in Nat /\ lost \in 0..MaxLost /\ last_idx = LastIdx(caps)
    BY StreamAssumption DEF StreamInit
  <2>2. row = 1 /\ seq = 0 /\ row \in 1..Len(Rows(caps)) + 1
    BY <1>2 DEF StreamInit
  <2>3. seen = SeenAt(caps, row)
    BY <1>3, <2>2 DEF StreamInit
  <2>4. Number(caps, row) < Width => seq = Number(caps, row)
    BY <1>3, <2>2
  <2>5. QED
    BY <1>1, <2>1, <2>2, <2>3, <2>4 DEF Numbering
<1>5. Sent(0)
  <2>1. offset = 0 * ChunkSize
    BY FormatAssumption DEF StreamInit
  <2>2. ~Finished => 0 < Count(Current)
    BY <1>4, Standing, CountProperties
  <2>3. QED
    BY <2>1, <2>2 DEF Sent
<1>6. Streamed(0)
  <2>1. received = <<>> /\ row = 1
    BY DEF StreamInit
  <2>2. Entries(caps) \in Seq(Strings) /\ start_idx \in Nat
    BY <1>1, <1>4, EntriesAre DEF Numbering
  <2>3. StreamTo(Entries(caps), start_idx, last_idx, 0) = <<>>
    BY <2>2, StreamSteps
  <2>4. Reference(caps, start_idx, last_idx, 0, 0) = <<>>
    BY <2>3 DEF Reference
  <2>5. received = Reference(caps, start_idx, last_idx, Number(caps, row), 0)
    BY <2>1, <2>4, <1>3
  <2>6. received \in Seq(Parts(Entries(caps)))
    BY <2>1
  <2>7. QED
    BY <2>5, <2>6 DEF Streamed
<1>7. QED
  BY <1>4, <1>5, <1>6 DEF Progress

(* The next row has something to send.                                      *)
LEMMA NextRow ==
  ASSUME Numbering, row \in 1..Len(Rows(caps)), caps' = caps, row' = row + 1
  PROVE  ~Finished' => 0 < Count(Current')
<1> SUFFICES ASSUME ~Finished'
             PROVE  0 < Count(Current')
  OBVIOUS
<1>1. Rows(caps) \in Seq(Strings) /\ Len(Rows(caps)) \in Nat
  BY RowsAre DEF Numbering
<1>2. row + 1 \in 1..Len(Rows(caps))
  BY <1>1 DEF Finished
<1>3. Current' = Rows(caps)[row + 1] /\ Current' \in Strings
  BY <1>1, <1>2 DEF Current
<1>4. QED
  BY <1>3, CountProperties

(* A row is done with.                                                      *)
LEMMA NumberingAdvance ==
  ASSUME Numbering, ToSend, Advance, UNCHANGED <<caps, start_idx, last_idx>>,
         lost' \in 0..MaxLost
  PROVE  Numbering' /\ Sent(0)'
<1>1. /\ caps' = caps /\ start_idx' = start_idx /\ last_idx' = last_idx
      /\ row' = row + 1 /\ seq' = (seq + 1) % Width /\ offset' = 0
      /\ seen' = IF IsCap(row) THEN Record(seen, Current) ELSE seen
  BY DEF Advance
<1>2. /\ row \in 1..Len(Rows(caps)) /\ Number(caps, row) \in Nat
      /\ Number(caps, row + 1) = Number(caps, row) + 1
  BY OwnNumber
<1>3. caps \in Seq(Ids) /\ seen = SeenAt(caps, row) /\ seq \in Nat
  BY StreamAssumption DEF Numbering
<1>4. seen' = SeenAt(caps, row + 1)
  <2>1. IsCap(row) => SeenAt(caps, row + 1) = Record(SeenAt(caps, row), Rows(caps)[row])
    BY <1>2, <1>3, RowStep
  <2>2. ~IsCap(row) => SeenAt(caps, row + 1) = SeenAt(caps, row)
    BY <1>2, <1>3, RowStep
  <2>3. QED
    BY <2>1, <2>2, <1>1, <1>3, Zenon DEF Current
<1>5. seq' \in 0..Width - 1
  BY <1>1, <1>3, Wrap
<1>6. Number(caps, row + 1) < Width => seq' = Number(caps, row + 1)
  <2> SUFFICES ASSUME Number(caps, row) + 1 < Width
               PROVE  seq' = Number(caps, row) + 1
    BY <1>2
  <2>1. seq = Number(caps, row)
    BY <1>2, StreamAssumption DEF Numbering
  <2>2. QED
    BY <2>1, <1>1, <1>2, NoWrap
<1>7. row + 1 \in 1..Len(Rows(caps)) + 1 /\ Len(Rows(caps)) \in Nat
  <2>1. Len(Rows(caps)) \in Nat
    BY Standing
  <2>2. QED
    BY <2>1, <1>2
<1>8. Numbering'
  <2>1. caps' \in Seq(Ids) /\ start_idx' \in Nat /\ last_idx' = LastIdx(caps')
    BY <1>1 DEF Numbering
  <2>2. row' \in 1..Len(Rows(caps')) + 1
    BY <1>1, <1>7
  <2>3. Number(caps', row') < Width => seq' = Number(caps', row')
    BY <1>1, <1>6
  <2>4. seen' = SeenAt(caps', row')
    BY <1>1, <1>4
  <2>5. QED
    BY <2>1, <2>2, <2>3, <2>4, <1>5 DEF Numbering
<1>9. Sent(0)'
  <2>1. offset' = 0 * ChunkSize
    BY <1>1, FormatAssumption
  <2>2. ~Finished' => 0 < Count(Current')
    BY <1>1, <1>2, NextRow
  <2>3. QED
    BY <2>1, <2>2 DEF Sent
<1>10. QED
  BY <1>8, <1>9

(* What is on the wire when it is.                                          *)
LEMMA ReferenceNext ==
  ASSUME Numbering, ToSend, Len(Entries(caps)) <= Width
  PROVE  /\ seq < start_idx =>
              Reference(caps, start_idx, last_idx, Number(caps, row) + 1, 0) =
                Reference(caps, start_idx, last_idx, Number(caps, row), 0)
         /\ \A j \in 0..Count(Current) - 1 : seq >= start_idx =>
              LET report == Chunk(seq, Current, j * ChunkSize, seq = last_idx)
                  before == Reference(caps, start_idx, last_idx, Number(caps, row), j)
              IN  /\ report \in Parts(Entries(caps))
                  /\ report.more <=> j + 1 < Count(Current)
                  /\ j + 1 < Count(Current) =>
                       Reference(caps, start_idx, last_idx, Number(caps, row), j + 1) =
                         Append(before, report)
                  /\ j + 1 = Count(Current) =>
                       Reference(caps, start_idx, last_idx, Number(caps, row) + 1, 0) =
                         Append(before, report)
<1> DEFINE m == Entries(caps)
           n == Number(caps, row)
           to(k) == StreamTo(m, start_idx, last_idx, k)
<1>1. /\ m \in Seq(Strings) /\ Len(m) \in Nat /\ start_idx \in Nat
      /\ n \in Nat /\ n + 1 \in 1..Len(m) /\ DOMAIN m = 1..Len(m) /\ m[n + 1] = Current
      /\ seq = n /\ Current \in Strings /\ n \in 0..Len(m) - 1
  <2>1. m \in Seq(Strings) /\ start_idx \in Nat
    BY EntriesAre DEF Numbering
  <2>2. Len(m) \in Nat /\ DOMAIN m = 1..Len(m)
    <3> HIDE DEF m
    <3>1. QED
      BY <2>1
  <2>3. n \in Nat /\ n + 1 \in 1..Len(m) /\ m[n + 1] = Current /\ seq = n /\ Current \in Strings
    BY OwnNumber
  <2> HIDE DEF m, n
  <2>4. n \in 0..Len(m) - 1
    BY <2>2, <2>3
  <2>5. QED
    BY <2>1, <2>2, <2>3, <2>4
<1>2. to(n) \in Seq(Parts(m)) /\ to(n + 1) = to(n) \o EntryChunks(m, start_idx, last_idx, n + 1)
  <2> HIDE DEF m, n
  <2>1. n \in 0..Len(m)
    BY <1>1
  <2>2. QED
    BY <1>1, <2>1, StreamSteps
<1>3. to(n + 1) \in Seq(Parts(m))
  <2> HIDE DEF m, n
  <2>1. n + 1 \in 0..Len(m)
    BY <1>1
  <2>2. QED
    BY <1>1, <2>1, StreamSteps
<1>4. /\ Reference(caps, start_idx, last_idx, n, 0) = to(n)
      /\ Reference(caps, start_idx, last_idx, n + 1, 0) = to(n + 1)
  <2>1. to(n) \o <<>> = to(n) /\ to(n + 1) \o <<>> = to(n + 1)
    <3> HIDE DEF to, m, n
    <3>1. QED
      BY <1>2, <1>3, ConcatEmptySeq
  <2>2. QED
    BY <2>1 DEF Reference
<1>5. seq < start_idx => to(n + 1) = to(n)
  <2> SUFFICES ASSUME seq < start_idx
               PROVE  to(n + 1) = to(n)
    OBVIOUS
  <2> HIDE DEF m, n
  <2>1. ~((n + 1) - 1 >= start_idx)
    BY <1>1
  <2>2. EntryChunks(m, start_idx, last_idx, n + 1) = <<>>
    BY <2>1 DEF EntryChunks
  <2> HIDE DEF to
  <2>3. QED
    BY <2>2, <1>2, ConcatEmptySeq
<1>6. ASSUME NEW j \in 0..Count(Current) - 1, seq >= start_idx
      PROVE  LET report == Chunk(seq, Current, j * ChunkSize, seq = last_idx)
                 before == Reference(caps, start_idx, last_idx, n, j)
             IN  /\ report \in Parts(m)
                 /\ report.more <=> j + 1 < Count(Current)
                 /\ j + 1 < Count(Current) =>
                      Reference(caps, start_idx, last_idx, n, j + 1) = Append(before, report)
                 /\ j + 1 = Count(Current) =>
                      Reference(caps, start_idx, last_idx, n + 1, 0) = Append(before, report)
  <2> DEFINE isLast == (n = last_idx)
             c == Count(Current)
             report == Chunk(seq, Current, j * ChunkSize, seq = last_idx)
             before == Reference(caps, start_idx, last_idx, n, j)
             sofar(k) == ChunksSoFar(m, n + 1, isLast, k)
  <2>1. isLast \in BOOLEAN
    OBVIOUS
  <2>2. /\ c \in Nat \ {0} /\ j \in Nat /\ j * ChunkSize \in Nat
        /\ More(Current, j * ChunkSize) <=> j + 1 < c
    <3>1. c \in Nat \ {0} /\ j \in Nat
      BY <1>1, CountProperties
    <3>2. j + 1 \in 1..c /\ j + 1 - 1 = j
      BY <3>1
    <3>3. /\ (j + 1 - 1) * ChunkSize \in Nat
          /\ More(Current, (j + 1 - 1) * ChunkSize) <=> j + 1 < c
      BY <3>2, <1>1, CountProperties
    <3>4. QED
      BY <3>1, <3>2, <3>3, Zenon
  <2>3. report = Chunk(n, m[n + 1], j * ChunkSize, isLast)
    BY <1>1
  <2>4. report \in Parts(m)
    <3> HIDE DEF m, n, isLast
    <3>1. n + 1 - 1 = n /\ n + 1 \in DOMAIN m
      BY <1>1
    <3>2. Chunk(n + 1 - 1, m[n + 1], j * ChunkSize, isLast) \in Parts(m)
      BY <3>1, <1>1, <2>1, <2>2, ChunkType
    <3> HIDE DEF report
    <3>3. QED
      BY <3>1, <3>2, <2>3
  <2>5. report.more <=> j + 1 < c
    BY <2>2 DEF Chunk
  <2>6. /\ sofar(0) = <<>> /\ sofar(j) \in Seq(Parts(m))
        /\ sofar(j + 1) = Append(sofar(j), report)
        /\ sofar(c) = Chunks(n, Current, isLast)
    <3> HIDE DEF m, n, isLast
    <3>1. n + 1 \in DOMAIN m /\ n + 1 - 1 = n /\ c = Count(m[n + 1])
      BY <1>1
    <3>2. j \in 0..Count(m[n + 1]) /\ j \in 0..Count(m[n + 1]) - 1
      BY <3>1, <2>2
    <3>3. /\ sofar(0) = <<>> /\ sofar(j) \in Seq(Parts(m))
          /\ sofar(j + 1) = Append(sofar(j), Chunk(n + 1 - 1, m[n + 1], j * ChunkSize, isLast))
          /\ sofar(Count(m[n + 1])) = Chunks(n + 1 - 1, m[n + 1], isLast)
      BY <3>1, <3>2, <1>1, <2>1, ChunksStep
    <3>4. QED
      BY <3>1, <3>3, <2>3, <1>1
  <2>7. before = to(n) \o sofar(j)
    <3>1. (IF j = 0 THEN <<>> ELSE sofar(j)) = sofar(j)
      BY <2>6
    <3>2. QED
      BY <3>1 DEF Reference
  <2>8. to(n) \o sofar(j + 1) = Append(before, report)
    <3> HIDE DEF to, sofar, report, before
    <3>1. to(n) \o Append(sofar(j), report) = Append(to(n) \o sofar(j), report)
      BY <1>2, <2>4, <2>6, ConcatAppend
    <3>2. QED
      BY <3>1, <2>6, <2>7
  <2>9. j + 1 < c => Reference(caps, start_idx, last_idx, n, j + 1) = Append(before, report)
    <3>1. j + 1 # 0
      BY <2>2
    <3>2. Reference(caps, start_idx, last_idx, n, j + 1) = to(n) \o sofar(j + 1)
      BY <3>1 DEF Reference
    <3>3. QED
      BY <3>2, <2>8
  <2>10. j + 1 = c => Reference(caps, start_idx, last_idx, n + 1, 0) = Append(before, report)
    <3> SUFFICES ASSUME j + 1 = c
                 PROVE  to(n + 1) = Append(before, report)
      BY <1>4
    <3>1. EntryChunks(m, start_idx, last_idx, n + 1) = Chunks(n, Current, isLast)
      <4> HIDE DEF m, n
      <4>1. n + 1 - 1 = n /\ n >= start_idx
        BY <1>1, <1>6
      <4>2. QED
        BY <4>1, <1>1 DEF EntryChunks
    <3>2. sofar(j + 1) = Chunks(n, Current, isLast)
      BY <2>6
    <3>3. QED
      BY <3>1, <3>2, <2>8, <1>2
  <2>11. QED
    BY <2>4, <2>5, <2>9, <2>10
<1>7. QED
  BY <1>4, <1>5, <1>6

LEMMA StreamSkipsDuplicate ==
  ASSUME Numbering, Progress, SkipDuplicate
  PROVE  Numbering' /\ Progress'
<1>1. /\ caps' = caps /\ start_idx' = start_idx /\ last_idx' = last_idx /\ seq' = seq
      /\ seen' = seen /\ offset' = offset /\ received' = received /\ lost' = lost
      /\ row' = row + 1 /\ ~Finished /\ ~ToSend
  BY DEF SkipDuplicate, ToSend
<1>2. row \in 1..Len(Rows(caps)) /\ ~Taken(caps, row) /\ Len(Rows(caps)) \in Nat
  BY <1>1, Standing
<1>3. /\ Number(caps, row + 1) = Number(caps, row)
      /\ SeenAt(caps, row + 1) = SeenAt(caps, row)
  BY <1>2, RowStep DEF Numbering
<1>4. PICK j \in Nat : Sent(j) /\ Streamed(j)
  BY DEF Progress
<1>5. j = 0 /\ offset = 0 * ChunkSize
  BY <1>1, <1>4 DEF Sent
<1>6. Numbering'
  <2>1. row' \in 1..Len(Rows(caps')) + 1
    BY <1>1, <1>2
  <2>2. Number(caps', row') = Number(caps, row) /\ SeenAt(caps', row') = SeenAt(caps, row)
    BY <1>1, <1>3
  <2>3. QED
    BY <1>1, <2>1, <2>2 DEF Numbering
<1>7. Sent(0)'
  <2>1. ~Finished' => 0 < Count(Current')
    BY <1>1, <1>2, NextRow
  <2>2. QED
    BY <1>1, <1>5, <2>1 DEF Sent
<1>8. Streamed(0)'
  <2>1. Number(caps', row') = Number(caps, row)
    BY <1>1, <1>3
  <2>2. QED
    BY <1>1, <1>4, <1>5, <2>1 DEF Streamed
<1>9. QED
  BY <1>6, <1>7, <1>8 DEF Progress

LEMMA StreamSkipsEarlier ==
  ASSUME Numbering, Progress, SkipEarlier
  PROVE  Numbering' /\ Progress'
<1>1. /\ caps' = caps /\ start_idx' = start_idx /\ last_idx' = last_idx
      /\ received' = received /\ lost' = lost /\ row' = row + 1
      /\ ToSend /\ seq < start_idx /\ Advance
  BY DEF SkipEarlier, Advance
<1>2. Numbering' /\ Sent(0)'
  <2>1. lost' \in 0..MaxLost
    BY <1>1 DEF Numbering
  <2>2. QED
    BY <1>1, <2>1, NumberingAdvance
<1>3. PICK j \in Nat : Sent(j) /\ Streamed(j)
  BY DEF Progress
<1>4. j = 0
  <2>1. seq \in Nat /\ start_idx \in Nat
    BY StreamAssumption DEF Numbering
  <2>2. QED
    BY <1>1, <1>3, <2>1 DEF Sent
<1>5. Streamed(0)'
  <2> SUFFICES ASSUME Len(Entries(caps)) <= Width
               PROVE  /\ received' \in Seq(Parts(Entries(caps')))
                      /\ lost' = 0 =>
                           received' = Reference(caps', start_idx', last_idx', Number(caps', row'), 0)
    BY <1>1 DEF Streamed
  <2>1. Number(caps, row + 1) = Number(caps, row) + 1
    BY <1>1, OwnNumber
  <2>2. Reference(caps, start_idx, last_idx, Number(caps, row) + 1, 0) =
          Reference(caps, start_idx, last_idx, Number(caps, row), 0)
    BY <1>1, ReferenceNext
  <2>3. /\ received \in Seq(Parts(Entries(caps)))
        /\ lost = 0 => received = Reference(caps, start_idx, last_idx, Number(caps, row), 0)
    BY <1>3, <1>4 DEF Streamed
  <2>4. QED
    BY <1>1, <2>1, <2>2, <2>3
<1>6. QED
  BY <1>2, <1>5 DEF Progress

LEMMA StreamSends ==
  ASSUME Numbering, Progress, SendChunk
  PROVE  Numbering' /\ Progress'
<1> DEFINE report == Chunk(seq, Current, offset, seq = last_idx)
           m == Entries(caps)
           n == Number(caps, row)
<1>1. /\ caps' = caps /\ start_idx' = start_idx /\ last_idx' = last_idx
      /\ ToSend /\ seq >= start_idx
      /\ \/ received' = Append(received, report) /\ lost' = lost
         \/ lost < MaxLost /\ lost' = lost + 1 /\ received' = received
      /\ IF report.more
           THEN offset' = offset + ChunkSize /\ row' = row /\ seq' = seq /\ seen' = seen
           ELSE Advance
  BY DEF SendChunk
<1>2. PICK j \in Nat : Sent(j) /\ Streamed(j)
  BY DEF Progress
<1>3. /\ j \in 0..Count(Current) - 1 /\ offset = j * ChunkSize /\ Count(Current) \in Nat
      /\ report = Chunk(seq, Current, j * ChunkSize, seq = last_idx)
  <2>1. Current \in Strings /\ ~Finished
    BY <1>1, OwnNumber DEF ToSend
  <2>2. Count(Current) \in Nat /\ offset = j * ChunkSize /\ j < Count(Current)
    BY <1>2, <2>1, CountProperties DEF Sent
  <2>3. QED
    BY <2>2
<1>4. report.more <=> j + 1 < Count(Current)
  <2>1. Current \in Strings
    BY <1>1, OwnNumber
  <2>2. j + 1 \in 1..Count(Current) /\ (j + 1) - 1 = j
    BY <1>3
  <2>3. More(Current, ((j + 1) - 1) * ChunkSize) <=> j + 1 < Count(Current)
    BY <2>1, <2>2, CountProperties
  <2>4. report.more = More(Current, j * ChunkSize)
    BY <1>3 DEF Chunk
  <2>5. QED
    BY <2>2, <2>3, <2>4, Zenon
<1>5. lost' \in 0..MaxLost /\ (lost' = 0 => lost = 0 /\ received' = Append(received, report))
  BY <1>1, StreamAssumption DEF Numbering
<1>6. ASSUME Len(m) <= Width
      PROVE  /\ received' \in Seq(Parts(m))
             /\ lost' = 0 /\ j + 1 < Count(Current) =>
                  received' = Reference(caps, start_idx, last_idx, n, j + 1)
             /\ lost' = 0 /\ j + 1 = Count(Current) =>
                  received' = Reference(caps, start_idx, last_idx, n + 1, 0)
  <2> DEFINE before == Reference(caps, start_idx, last_idx, n, j)
  <2>1. /\ report \in Parts(m)
        /\ j + 1 < Count(Current) =>
             Reference(caps, start_idx, last_idx, n, j + 1) = Append(before, report)
        /\ j + 1 = Count(Current) =>
             Reference(caps, start_idx, last_idx, n + 1, 0) = Append(before, report)
    BY <1>1, <1>3, <1>6, ReferenceNext
  <2>2. received \in Seq(Parts(m)) /\ (lost = 0 => received = before)
    BY <1>2, <1>6 DEF Streamed
  <2>3. received' = received \/ received' = Append(received, report)
    BY <1>1
  <2> HIDE DEF before, report, m, n
  <2>4. received' \in Seq(Parts(m))
    BY <2>1, <2>2, <2>3
  <2>5. lost' = 0 => received' = Append(before, report)
    BY <1>5, <2>2
  <2>6. QED
    BY <2>1, <2>4, <2>5
<1>7. CASE report.more
  <2>1. /\ offset' = offset + ChunkSize /\ row' = row /\ seq' = seq /\ seen' = seen
        /\ j + 1 < Count(Current)
    BY <1>1, <1>4, <1>7
  <2>2. Numbering'
    <3>1. lost' \in 0..MaxLost
      BY <1>5
    <3> HIDE DEF report
    <3>2. QED
      BY <1>1, <2>1, <3>1 DEF Numbering
  <2>3. (Finished' <=> Finished) /\ Current' = Current /\ (ToSend' <=> ToSend)
    BY <1>1, <2>1 DEF Finished, Current, ToSend
  <2>4. Sent(j + 1)'
    <3>1. offset' = (j + 1) * ChunkSize
      <4>1. (j + 1) * ChunkSize = j * ChunkSize + ChunkSize
        BY FormatAssumption, Products
      <4>2. QED
        BY <4>1, <1>3, <2>1
    <3>2. ToSend' /\ seq' >= start_idx' /\ j + 1 < Count(Current')
      BY <1>1, <2>1, <2>3
    <3>3. QED
      BY <3>1, <3>2 DEF Sent
  <2>5. Streamed(j + 1)'
    <3>1. caps' = caps /\ row' = row /\ start_idx' = start_idx /\ last_idx' = last_idx
      BY <1>1, <2>1
    <3> HIDE DEF report
    <3>2. QED
      BY <3>1, <1>6, <2>1 DEF Streamed
  <2>6. j + 1 \in Nat
    OBVIOUS
  <2>7. QED
    BY <2>2, <2>4, <2>5, <2>6 DEF Progress
<1>8. CASE ~report.more
  <2>1. Advance /\ j + 1 = Count(Current)
    <3>1. ~(j + 1 < Count(Current)) /\ Advance
      BY <1>1, <1>4, <1>8
    <3>2. QED
      BY <3>1, <1>3
  <2>2. Numbering' /\ Sent(0)'
    <3> HIDE DEF report
    <3>1. QED
      BY <1>1, <1>5, <2>1, NumberingAdvance
  <2>3. Streamed(0)'
    <3>1. /\ caps' = caps /\ row' = row + 1 /\ start_idx' = start_idx /\ last_idx' = last_idx
          /\ Number(caps, row + 1) = Number(caps, row) + 1
      BY <1>1, <2>1, OwnNumber DEF Advance
    <3> HIDE DEF report
    <3>2. QED
      BY <3>1, <1>6, <2>1 DEF Streamed
  <2>4. QED
    BY <2>2, <2>3 DEF Progress
<1>9. QED
  BY <1>7, <1>8

LEMMA StreamInvariant == StreamSpec => [](Numbering /\ Progress)
<1>1. StreamInit => Numbering /\ Progress
  BY StreamBegins
<1>2. Numbering /\ Progress /\ [StreamNext]_streamVars => (Numbering /\ Progress)'
  <2> SUFFICES ASSUME Numbering, Progress, [StreamNext]_streamVars
               PROVE  Numbering' /\ Progress'
    OBVIOUS
  <2>1. CASE StreamNext
    BY <2>1, StreamSkipsDuplicate, StreamSkipsEarlier, StreamSends DEF StreamNext
  <2>2. CASE UNCHANGED streamVars
    BY <2>2 DEF streamVars, Numbering, Progress, Sent, Streamed, Finished, Current, ToSend
  <2>3. QED
    BY <2>1, <2>2
<1>3. QED
  BY <1>1, <1>2, PTL DEF StreamSpec

-----------------------------------------------------------------------------
(***************************************************************************)
(* The theorems.                                                           *)
(***************************************************************************)
(* Every variable has its type, and the list of seen ids never exceeds its  *)
(* MANIFEST_MAX_CAPS places (manifest.c:50-63), whatever the section holds. *)
THEOREM StreamTypeCorrect == StreamSpec => []StreamTypeOK
<1>1. Numbering /\ Progress => StreamTypeOK
  <2> SUFFICES ASSUME Numbering, Progress
               PROVE  StreamTypeOK
    OBVIOUS
  <2> DEFINE k == IF row <= Named THEN 0 ELSE row - 1 - Named
  <2>1. k \in 0..Len(caps)
    <3>1. Named \in Nat /\ Len(Rows(caps)) = Named + Len(caps) /\ Len(caps) \in Nat
      BY IdentityIs, RowsAre DEF Numbering
    <3>2. row \in 1..Len(Rows(caps)) + 1
      BY DEF Numbering
    <3>3. QED
      BY <3>1, <3>2
  <2>2. seen = SeenAfter(caps, k) /\ caps \in Seq(Ids)
    BY DEF Numbering, SeenAt
  <2> HIDE DEF k
  <2>3. Cardinality(seen) <= MaxCaps
    <3>1. Cardinality(SeenAfter(caps, k)) <= MaxCaps
      BY <2>1, <2>2, ListHoldsAll DEF ListHolds
    <3>2. QED
      BY <3>1, <2>2, Zenon
  <2>4. seen \subseteq Ids
    BY <2>1, <2>2 DEF SeenAfter
  <2>5. last_idx \in 0..Width - 1
    <3>1. CountCaps(caps) \in 0..Width - 1
      BY <2>2, CountRange
    <3> DEFINE c == CountCaps(caps)
    <3> HIDE DEF c
    <3>2. Len(Identity) + c \in Nat
      BY <3>1, IdentityIs, StreamAssumption DEF Named, c
    <3>3. (Len(Identity) + c) % Width \in 0..Width - 1
      BY <3>2, Wrap
    <3>4. LastIdx(caps) = IF (Len(Identity) + c) % Width > 0
                          THEN ((Len(Identity) + c) % Width) - 1 ELSE 0
      BY DEF LastIdx, c
    <3>5. QED
      BY <3>3, <3>4, StreamAssumption DEF Numbering
  <2>6. offset \in Nat
    <3>1. PICK j \in Nat : offset = j * ChunkSize
      BY DEF Progress, Sent
    <3>2. QED
      BY <3>1, FormatAssumption, Products
  <2>7. QED
    BY <2>3, <2>4, <2>5, <2>6 DEF StreamTypeOK, Numbering
<1>2. QED
  BY <1>1, StreamInvariant, PTL

(* Whatever reports the transport gives up, what the host puts together     *)
(* under one number is of one string (hid_viz_hub.py:156-167), as long as   *)
(* the rows are no more than a uint8_t has values.                          *)
THEOREM StringsUnmixed == StreamSpec => []EntriesUnmixed
<1>1. Numbering /\ Progress => EntriesUnmixed
  <2> SUFFICES ASSUME Numbering, Progress, Len(Rows(caps)) <= Width, NEW n \in Numbers(received)
               PROVE  \E s \in Strings : ToSet(HostString(received, n)) \subseteq ToSet(Bytes(s))
    BY DEF EntriesUnmixed
  <2> DEFINE m == Entries(caps)
  <2>1. m \in Seq(Strings) /\ Len(m) <= Width
    <3>1. m \in Seq(Strings) /\ Len(m) <= Len(Rows(caps)) /\ Len(Rows(caps)) \in Nat
      BY EntriesAre, Standing DEF Numbering
    <3> HIDE DEF m
    <3>2. Len(m) \in Nat
      BY <3>1
    <3>3. QED
      BY <3>1, <3>2, StreamAssumption
  <2>2. received \in Seq(Wire(m))
    <3>1. received \in Seq(Parts(m))
      BY <2>1 DEF Progress, Streamed
    <3> HIDE DEF m
    <3>2. QED
      BY <3>1, SeqMonotonic DEF Wire
  <2> HIDE DEF m
  <2>3. PICK k \in DOMAIN received : IsPart(received[k], n)
    BY InNumbers
  <2>4. n + 1 \in DOMAIN m
    BY <2>2, <2>3, PartBody
  <2>5. Assembled(received, n) \in Seq(Bits(m[n + 1]))
    BY <2>2, <2>4, AssembledType
  <2>6. ToSet(HostString(received, n)) \subseteq Bits(m[n + 1]) \ {NUL}
    BY <2>5, UpToNulType DEF HostString
  <2>7. m[n + 1] \in Strings
    BY <2>1, <2>4
  <2>8. QED
    BY <2>6, <2>7 DEF Bits
<1>2. QED
  BY <1>1, StreamInvariant, PTL

(* At the end, with nothing lost, the whole reference has been sent.        *)
LEMMA AtTheEnd ==
  ASSUME Numbering, Progress, Finished, lost = 0, Len(Entries(caps)) <= Width
  PROVE  received = StreamTo(Entries(caps), start_idx, last_idx, Len(Entries(caps)))
<1> DEFINE m == Entries(caps)
<1>1. PICK j \in Nat : Sent(j) /\ Streamed(j)
  BY DEF Progress
<1>2. j = 0
  BY <1>1 DEF Sent, ToSend
<1>3. Number(caps, row) = Len(m)
  <2>1. row = Len(Rows(caps)) + 1
    BY Standing
  <2>2. QED
    BY <2>1, FirstAndLast DEF Numbering
<1>4. received = StreamTo(m, start_idx, last_idx, Len(m)) \o <<>>
  BY <1>1, <1>2, <1>3 DEF Streamed, Reference
<1>5. StreamTo(m, start_idx, last_idx, Len(m)) \in Seq(Parts(m))
  <2>1. m \in Seq(Strings) /\ start_idx \in Nat
    BY EntriesAre DEF Numbering
  <2> HIDE DEF m
  <2>2. Len(m) \in 0..Len(m)
    BY <2>1
  <2>3. QED
    BY <2>1, <2>2, StreamSteps
<1>6. QED
  <2> HIDE DEF m
  <2>1. QED
    BY <1>4, <1>5, ConcatEmptySeq DEF m

(* The stream is report for report that of the manifest, from the entry     *)
(* asked for on: count_caps() and manifest_stream() agree, for any section, *)
(* any list length and any start (manifest.c:50-183).                       *)
THEOREM StreamIsReference == StreamSpec => []StreamsTheReference
<1>1. Numbering /\ Progress => StreamsTheReference
  <2> SUFFICES ASSUME Numbering, Progress, Finished, lost = 0, Fits
               PROVE  received = StreamFrom(Manifest, start_idx)
    BY DEF StreamsTheReference
  <2> DEFINE m == Entries(caps)
  <2>1. m = Manifest /\ m \in Seq(Strings) /\ caps \in Seq(Ids) /\ start_idx \in Nat
    BY ManifestIs, EntriesAre DEF Numbering
  <2>2. /\ Len(m) = Named + Len(Listed(caps)) /\ Len(Listed(caps)) \in Nat
        /\ Named \in Nat \ {0} /\ Len(m) \in Nat
    <3>1. Len(m) = Named + Len(Listed(caps)) /\ Listed(caps) \in Seq(Ids) /\ Named \in Nat \ {0}
      BY <2>1, EntriesAre, IdentityIs
    <3> HIDE DEF m
    <3>2. QED
      BY <3>1
  <2>3. Len(m) < Width
    BY <2>1, Zenon DEF Fits
  <2>4. last_idx = Len(m) - 1
    <3>1. Len(Listed(caps)) < Width
      <4> HIDE DEF m
      <4>1. QED
        BY <2>2, <2>3, StreamAssumption
    <3>2. CountCaps(caps) = Len(Listed(caps))
      BY <2>1, <3>1, CountsListed
    <3>3. (Len(Identity) + CountCaps(caps)) % Width = Len(m)
      <4>1. Len(Identity) + CountCaps(caps) = Len(m)
        BY <2>2, <3>2, Zenon DEF Named
      <4> HIDE DEF m
      <4>2. Len(m) % Width = Len(m)
        BY <2>2, <2>3, NoWrap
      <4>3. QED
        BY <4>1, <4>2, Zenon
    <3>4. LastIdx(caps) = IF Len(m) > 0 THEN Len(m) - 1 ELSE 0
      BY <3>3, Zenon DEF LastIdx
    <3> HIDE DEF m
    <3>5. QED
      BY <3>4, <2>2 DEF Numbering
  <2>5. Len(m) <= Width
    <3> HIDE DEF m
    <3>1. QED
      BY <2>2, <2>3, StreamAssumption
  <2>6. received = StreamTo(m, start_idx, last_idx, Len(m))
    BY <2>5, AtTheEnd
  <2> HIDE DEF m
  <2>7. StreamTo(m, start_idx, last_idx, Len(m)) = StreamFrom(m, start_idx)
    BY <2>1, <2>4, StreamSteps
  <2>8. QED
    BY <2>1, <2>6, <2>7, Zenon
<1>2. QED
  BY <1>1, StreamInvariant, PTL

(* What the host makes of the whole stream.                                 *)
LEMMA WholeRead ==
  ASSUME Numbering, Progress, Finished, lost = 0, Len(Entries(caps)) <= Width, NEW n
  PROVE  /\ n \in Numbers(received) <=> n \in start_idx..Len(Entries(caps)) - 1
         /\ n \in Numbers(received) =>
              /\ Entries(caps)[n + 1] \in Strings
              /\ HostString(received, n) = Bytes(Entries(caps)[n + 1])
              /\ HostHeader(received, n) = Header(Entries(caps)[n + 1])
<1> DEFINE m == Entries(caps)
<1>1. m \in Seq(Strings) /\ start_idx \in Nat
  BY EntriesAre DEF Numbering
<1>2. received = StreamTo(m, start_idx, last_idx, Len(m))
  BY AtTheEnd
<1> HIDE DEF m
<1>3. Len(m) \in 0..Len(m) /\ Len(m) \in Nat
  BY <1>1
<1>4. ReadsEntries(m, start_idx, received, Len(m), n)
  BY <1>1, <1>2, <1>3, StreamRead
<1>5. n \in Numbers(received) <=> n \in start_idx..Len(m) - 1
  BY <1>4 DEF ReadsEntries
<1>6. ASSUME n \in Numbers(received)
      PROVE  /\ m[n + 1] \in Strings /\ HostString(received, n) = Bytes(m[n + 1])
             /\ HostHeader(received, n) = Header(m[n + 1])
  <2>1. n \in start_idx..Len(m) - 1
    BY <1>5, <1>6
  <2>2. n + 1 \in 1..Len(m) /\ m[n + 1] \in Strings
    BY <2>1, <1>1, <1>3
  <2>3. /\ Assembled(received, n) = Padded(m[n + 1], Count(m[n + 1]) * ChunkSize)
        /\ HostHeader(received, n) = Header(m[n + 1])
    BY <1>4, <2>1 DEF ReadsEntries
  <2>4. /\ Count(m[n + 1]) * ChunkSize \in Nat
        /\ Count(m[n + 1]) * ChunkSize >= Length[m[n + 1]]
    BY <2>2, CountCovers
  <2>5. UpToNul(Padded(m[n + 1], Count(m[n + 1]) * ChunkSize)) = Bytes(m[n + 1])
    BY <2>2, <2>4, PaddedRead
  <2>6. HostString(received, n) = Bytes(m[n + 1])
    BY <2>3, <2>5 DEF HostString
  <2>7. QED
    BY <2>2, <2>3, <2>6
<1>7. QED
  BY <1>5, <1>6 DEF m

(* A host that gets every report reads the manifest from the entry it asked *)
(* for on, under the same numbers whatever the start, long ids in one piece *)
(* (manifest.c:89-94, capabilities.h:101-103).                              *)
THEOREM ReadsBack == StreamSpec => []ReadBack
<1>1. Numbering /\ Progress => ReadBack
  <2> SUFFICES ASSUME Numbering, Progress, Finished, lost = 0, Fits
               PROVE  /\ Numbers(received) = start_idx..Len(Manifest) - 1
                      /\ \A n \in Numbers(received) : HostEntry(received, n) = Entry(Manifest[n + 1])
    BY DEF ReadBack
  <2>1. Len(Entries(caps)) <= Width /\ Manifest = Entries(caps)
    <3>1. Entries(caps) \in Seq(Strings)
      BY EntriesAre DEF Numbering
    <3>2. Len(Entries(caps)) \in Nat
      BY <3>1
    <3>3. Len(Entries(caps)) < Width
      BY ManifestIs, Zenon DEF Fits
    <3>4. QED
      BY <3>2, <3>3, ManifestIs, StreamAssumption
  <2>2. \A n : n \in Numbers(received) <=> n \in start_idx..Len(Manifest) - 1
    BY <2>1, WholeRead
  <2>3. Numbers(received) = start_idx..Len(Manifest) - 1
    BY <2>2
  <2>4. ASSUME NEW n \in Numbers(received)
        PROVE  HostEntry(received, n) = Entry(Manifest[n + 1])
    <3>1. /\ HostString(received, n) = Bytes(Manifest[n + 1])
          /\ HostHeader(received, n) = Header(Manifest[n + 1])
      BY <2>1, WholeRead
    <3>2. QED
      BY <3>1, Zenon DEF HostEntry, Entry
  <2>5. QED
    BY <2>3, <2>4
<1>2. QED
  BY <1>1, StreamInvariant, PTL

(* A full list of seen ids costs repeats, never a capability                *)
(* (manifest.c:50-52), even when the rows are as many as a uint8_t has      *)
(* values.                                                                  *)
THEOREM NoCapabilityLost == StreamSpec => []EveryCapabilityListed
<1>1. Numbering /\ Progress => EveryCapabilityListed
  <2> SUFFICES ASSUME Numbering, Progress, Finished, lost = 0, start_idx = 0,
                      Len(Rows(caps)) <= Width
               PROVE  {HostString(received, n) : n \in Numbers(received)} =
                        {Bytes(s) : s \in ToSet(Rows(caps))}
    BY DEF EveryCapabilityListed
  <2> DEFINE m == Entries(caps)
  <2>1. caps \in Seq(Ids) /\ m \in Seq(Strings)
    BY EntriesAre DEF Numbering
  <2>2. Len(m) \in Nat /\ DOMAIN m = 1..Len(m)
    <3> HIDE DEF m
    <3>1. QED
      BY <2>1
  <2>3. Len(m) <= Width
    <3>1. Len(m) <= Len(Rows(caps)) /\ Len(Rows(caps)) \in Nat
      BY <2>1, EntriesAre, Standing
    <3> HIDE DEF m
    <3>2. QED
      BY <3>1, <2>2, StreamAssumption
  <2>4. \A n : /\ n \in Numbers(received) <=> n \in 0..Len(m) - 1
               /\ n \in Numbers(received) => HostString(received, n) = Bytes(m[n + 1])
    BY <2>3, WholeRead
  <2>5. ToSet(m) = ToSet(Rows(caps))
    BY <2>1, SameStrings
  <2> HIDE DEF m
  <2>6. {HostString(received, n) : n \in Numbers(received)} = {Bytes(s) : s \in ToSet(m)}
    <3>1. ASSUME NEW n \in Numbers(received)
          PROVE  \E s \in ToSet(m) : HostString(received, n) = Bytes(s)
      <4>1. n + 1 \in DOMAIN m
        BY <2>2, <2>4
      <4>2. m[n + 1] \in ToSet(m)
        BY <4>1 DEF ToSet
      <4>3. QED
        BY <4>2, <2>4
    <3>2. ASSUME NEW s \in ToSet(m)
          PROVE  \E n \in Numbers(received) : HostString(received, n) = Bytes(s)
      <4>1. PICK k \in 1..Len(m) : m[k] = s
        BY <2>2 DEF ToSet
      <4>2. k - 1 \in 0..Len(m) - 1 /\ (k - 1) + 1 = k
        BY <2>2
      <4>3. k - 1 \in Numbers(received) /\ HostString(received, k - 1) = Bytes(m[(k - 1) + 1])
        BY <4>2, <2>4
      <4>4. QED
        BY <4>1, <4>2, <4>3
    <3>3. QED
      BY <3>1, <3>2
  <2>7. QED
    BY <2>5, <2>6
<1>2. QED
  BY <1>1, StreamInvariant, PTL
=============================================================================
