--------------------------- MODULE HubStartProofs ---------------------------
(***************************************************************************)
(* What the hub's start promises for every listing, manifest and bound:    *)
(* find_devices() opens one handle per unit, and query_manifest() believes *)
(* nothing the device did not say, a beginning of what it said if the      *)
(* reading ends early, and all of it if nothing disturbs                   *)
(* (tools/hid_viz_hub.py).                                                 *)
(***************************************************************************)
EXTENDS HubStart, ManifestFormatProofs

-----------------------------------------------------------------------------
(***************************************************************************)
(* Discovery.                                                              *)
(***************************************************************************)
(* The rows of a group are of one model, each model has one group, the     *)
(* wanted rows seen so far are all in groups, and what is chosen of a group *)
(* is one of its rows, none of which ranks better.                          *)
Listing == rows \in Seq(Interfaces) /\ row \in 1..Len(rows) + 1

OneModelEach ==
  /\ groups \in Seq(Seq(Interfaces))
  /\ \A g \in DOMAIN groups : groups[g] # <<>>
  /\ \A g \in DOMAIN groups : \A i \in DOMAIN groups[g] : groups[g][i].model = groups[g][1].model
  /\ \A g, h \in DOMAIN groups : groups[g][1].model = groups[h][1].model => g = h

WantedGrouped ==
  \A k \in 1..row - 1 : Wants(rows[k]) =>
    \E g \in DOMAIN groups : \E i \in DOMAIN groups[g] : groups[g][i] = rows[k]

Best(r, group) ==
  /\ \E i \in DOMAIN group : r = group[i]
  /\ \A i \in DOMAIN group : Rank(r) <= Rank(group[i])

BestChosen ==
  /\ chosen \in Seq(Interfaces)
  /\ Len(chosen) <= Len(groups)
  /\ chosen # <<>> => row > Len(rows)
  /\ \A g \in DOMAIN chosen : Best(chosen[g], groups[g])

Grouping == Listing /\ OneModelEach /\ WantedGrouped /\ BestChosen

LEMMA RankRange ==
  ASSUME NEW r \in Interfaces
  PROVE  Rank(r) \in Int /\ Rank(r) >= -1
BY DiscoveryAssumption DEF Rank

(* The first row that none outranks, as the stable sort has it.             *)
LEMMA BestExists ==
  ASSUME NEW group \in Seq(Interfaces), group # <<>>
  PROVE  LET first == SelectInSeq(group, LAMBDA r : \A s \in ToSet(group) : Rank(r) <= Rank(s))
         IN  first \in DOMAIN group /\ Best(group[first], group)
<1> DEFINE I == {i \in 1..Len(group) : \A s \in ToSet(group) : Rank(group[i]) <= Rank(s)}
           ranks == {Rank(group[i]) + 1 : i \in 1..Len(group)}
<1>1. /\ Len(group) \in Nat \ {0} /\ DOMAIN group = 1..Len(group)
      /\ \A i \in 1..Len(group) : Rank(group[i]) \in Int /\ Rank(group[i]) >= -1
  <2>1. Len(group) \in Nat \ {0} /\ DOMAIN group = 1..Len(group)
    OBVIOUS
  <2>2. \A i \in 1..Len(group) : group[i] \in Interfaces
    OBVIOUS
  <2>3. QED
    BY <2>1, <2>2, RankRange
<1>2. ranks \subseteq Nat /\ ranks # {}
  <2>1. \A i \in 1..Len(group) : Rank(group[i]) + 1 \in Nat
    BY <1>1
  <2>2. 1 \in 1..Len(group)
    BY <1>1
  <2>3. QED
    BY <2>1, <2>2
<1>3. PICK b \in 1..Len(group) : \A i \in 1..Len(group) : Rank(group[b]) + 1 <= Rank(group[i]) + 1
  <2>1. PICK least \in ranks : \A rank \in ranks : least <= rank
    <3> HIDE DEF ranks
    <3>1. QED
      BY <1>2, LeastNatural
  <2>2. PICK b \in 1..Len(group) : least = Rank(group[b]) + 1
    OBVIOUS
  <2>3. QED
    BY <2>1, <2>2
<1>4. \A i \in 1..Len(group) : Rank(group[b]) <= Rank(group[i])
  BY <1>1, <1>3
<1>5. b \in I
  BY <1>1, <1>4 DEF ToSet
<1>6. I \subseteq Nat /\ I # {}
  BY <1>1, <1>5
<1>7. Min(I) \in I
  BY <1>6, MinIsLeast
<1>8. SelectInSeq(group, LAMBDA r : \A s \in ToSet(group) : Rank(r) <= Rank(s)) = Min(I)
  BY <1>6 DEF SelectInSeq
<1>9. QED
  BY <1>1, <1>7, <1>8 DEF Best, ToSet

LEMMA GroupingInit ==
  ASSUME DiscoveryInit
  PROVE  Grouping
<1>1. rows \in Seq(Interfaces)
  BY DiscoveryAssumption DEF DiscoveryInit, BoundedSeq, SeqOf
<1>2. QED
  BY <1>1 DEF DiscoveryInit, Grouping, Listing, OneModelEach, WantedGrouped, BestChosen

LEMMA GroupingPassOver ==
  ASSUME Grouping, PassOver
  PROVE  Grouping'
<1>1. row' = row + 1 /\ row <= Len(rows) /\ ~Wants(rows[row]) /\ UNCHANGED <<rows, groups, chosen>>
  BY DEF PassOver
<1>2. Listing'
  BY <1>1 DEF Grouping, Listing
<1>3. OneModelEach'
  BY <1>1 DEF Grouping, OneModelEach
<1>4. WantedGrouped'
  BY <1>1 DEF Grouping, Listing, WantedGrouped, Wants
<1>5. BestChosen'
  BY <1>1 DEF Grouping, Listing, BestChosen, Best
<1>6. QED
  BY <1>2, <1>3, <1>4, <1>5 DEF Grouping

LEMMA GroupingGroup ==
  ASSUME Grouping, Group
  PROVE  Grouping'
<1> USE DEF Grouping
<1>1. /\ row' = row + 1 /\ row \in 1..Len(rows) /\ Wants(rows[row]) /\ UNCHANGED <<rows, chosen>>
      /\ rows[row] \in Interfaces
  BY DEF Group, Listing
<1>2. Listing'
  BY <1>1 DEF Listing
<1>3. chosen = <<>>
  BY <1>1 DEF BestChosen, Listing
<1>4. BestChosen' \/ groups' \notin Seq(Seq(Interfaces))
  BY <1>1, <1>3 DEF BestChosen
<1>5. CASE ~\E g \in DOMAIN groups : SameDevice(rows[row], groups[g])
  <2>1. groups' = Append(groups, <<rows[row]>>)
    BY <1>5 DEF Group
  <2>2. groups \in Seq(Seq(Interfaces)) /\ <<rows[row]>> \in Seq(Interfaces)
    BY <1>1 DEF OneModelEach
  <2>3. /\ groups' \in Seq(Seq(Interfaces))
        /\ DOMAIN groups' = 1..Len(groups) + 1 /\ DOMAIN groups = 1..Len(groups)
        /\ \A g \in DOMAIN groups : groups'[g] = groups[g]
        /\ groups'[Len(groups) + 1] = <<rows[row]>>
    BY <2>1, <2>2
  <2>4. OneModelEach'
    <3>1. /\ <<rows[row]>> # <<>> /\ <<rows[row]>>[1] = rows[row]
          /\ \A i \in DOMAIN <<rows[row]>> : i = 1
      OBVIOUS
    <3>2. \A g \in DOMAIN groups' : g \in DOMAIN groups \/ g = Len(groups) + 1
      BY <2>2, <2>3
    <3>3. \A g \in DOMAIN groups' : /\ groups'[g] # <<>>
                                    /\ \A i \in DOMAIN groups'[g] : groups'[g][i].model = groups'[g][1].model
      BY <2>3, <3>1, <3>2 DEF OneModelEach
    <3>4. \A g \in DOMAIN groups : groups'[g][1].model # groups'[Len(groups) + 1][1].model
      BY <1>5, <2>3, <3>1 DEF SameDevice
    <3>5. \A g, h \in DOMAIN groups' : groups'[g][1].model = groups'[h][1].model => g = h
      BY <2>3, <3>2, <3>4 DEF OneModelEach
    <3>6. QED
      BY <2>3, <3>3, <3>5 DEF OneModelEach
  <2>5. WantedGrouped'
    <3> SUFFICES ASSUME NEW k \in 1..row, Wants(rows[k])
                 PROVE  \E g \in DOMAIN groups' : \E i \in DOMAIN groups'[g] : groups'[g][i] = rows[k]
      BY <1>1 DEF WantedGrouped, Wants, Listing
    <3>1. CASE k = row
      BY <3>1, <2>3
    <3>2. CASE k \in 1..row - 1
      BY <3>2, <2>3 DEF WantedGrouped
    <3>3. QED
      BY <3>1, <3>2 DEF Listing
  <2>6. QED
    BY <1>2, <1>4, <2>3, <2>4, <2>5
<1>6. CASE \E g \in DOMAIN groups : SameDevice(rows[row], groups[g])
  <2>1. PICK g \in DOMAIN groups : /\ SameDevice(rows[row], groups[g])
                                   /\ groups' = [groups EXCEPT ![g] = Append(@, rows[row])]
    BY <1>6 DEF Group
  <2>2. groups \in Seq(Seq(Interfaces)) /\ groups[g] \in Seq(Interfaces)
    BY DEF OneModelEach
  <2>3. /\ groups' \in Seq(Seq(Interfaces)) /\ DOMAIN groups' = DOMAIN groups
        /\ \A h \in DOMAIN groups : h # g => groups'[h] = groups[h]
        /\ groups'[g] = Append(groups[g], rows[row])
    BY <1>1, <2>1, <2>2
  <2>4. /\ DOMAIN groups'[g] = 1..Len(groups[g]) + 1 /\ DOMAIN groups[g] = 1..Len(groups[g])
        /\ \A i \in DOMAIN groups[g] : groups'[g][i] = groups[g][i]
        /\ groups'[g][Len(groups[g]) + 1] = rows[row]
        /\ 1 \in DOMAIN groups[g]
    BY <1>1, <2>2, <2>3 DEF OneModelEach
  <2>5. OneModelEach'
    BY <2>1, <2>3, <2>4 DEF OneModelEach, SameDevice
  <2>6. WantedGrouped'
    <3> SUFFICES ASSUME NEW k \in 1..row, Wants(rows[k])
                 PROVE  \E h \in DOMAIN groups' : \E i \in DOMAIN groups'[h] : groups'[h][i] = rows[k]
      BY <1>1 DEF WantedGrouped, Wants, Listing
    <3>1. CASE k = row
      BY <3>1, <2>2, <2>3, <2>4
    <3>2. CASE k \in 1..row - 1
      <4>1. PICK h \in DOMAIN groups : \E i \in DOMAIN groups[h] : groups[h][i] = rows[k]
        BY <3>2 DEF WantedGrouped
      <4>2. PICK i \in DOMAIN groups[h] : groups[h][i] = rows[k]
        BY <4>1
      <4>3. i \in DOMAIN groups'[h] /\ groups'[h][i] = rows[k]
        <5>1. CASE h = g
          <6>1. i \in DOMAIN groups[g] /\ groups[g][i] = rows[k]
            BY <5>1, <4>2
          <6>2. i \in DOMAIN groups'[g] /\ groups'[g][i] = rows[k]
            BY <6>1, <2>2, <2>4
          <6>3. QED
            BY <6>2, <5>1
        <5>2. CASE h # g
          BY <5>2, <4>2, <2>3
        <5>3. QED
          BY <5>1, <5>2
      <4>4. QED
        BY <4>3, <2>3
    <3>3. QED
      BY <3>1, <3>2 DEF Listing
  <2>7. QED
    BY <1>2, <1>4, <2>3, <2>5, <2>6
<1>7. QED
  BY <1>5, <1>6

LEMMA GroupingChoose ==
  ASSUME Grouping, Choose
  PROVE  Grouping'
<1> USE DEF Grouping
<1> DEFINE group == groups[Len(chosen) + 1]
           first == SelectInSeq(group, LAMBDA r : \A s \in ToSet(group) : Rank(r) <= Rank(s))
<1>1. /\ row > Len(rows) /\ Len(chosen) < Len(groups) /\ UNCHANGED <<rows, row, groups>>
      /\ chosen' = Append(chosen, group[first])
  BY DEF Choose
<1>2. Listing' /\ OneModelEach' /\ WantedGrouped'
  BY <1>1 DEF Listing, OneModelEach, WantedGrouped, Wants
<1>3. chosen \in Seq(Interfaces) /\ Len(chosen) + 1 \in DOMAIN groups
  BY <1>1 DEF BestChosen, OneModelEach
<1>4. group \in Seq(Interfaces) /\ group # <<>>
  BY <1>3 DEF OneModelEach
<1>5. first \in DOMAIN group /\ Best(group[first], group)
  BY <1>4, BestExists
<1> HIDE DEF first
<1>6. group[first] \in Interfaces
  BY <1>4, <1>5
<1>7. /\ chosen' \in Seq(Interfaces) /\ Len(chosen') = Len(chosen) + 1
      /\ DOMAIN chosen' = 1..Len(chosen) + 1 /\ DOMAIN chosen = 1..Len(chosen)
      /\ \A g \in DOMAIN chosen : chosen'[g] = chosen[g]
      /\ chosen'[Len(chosen) + 1] = group[first]
  BY <1>1, <1>3, <1>6
<1>8. \A g \in DOMAIN chosen' : Best(chosen'[g], groups[g])
  BY <1>5, <1>7, <1>3 DEF BestChosen
<1>9. BestChosen'
  BY <1>1, <1>3, <1>7, <1>8 DEF BestChosen, Best, OneModelEach
<1>10. QED
  BY <1>2, <1>9

LEMMA GroupingReturn ==
  ASSUME Return
  PROVE  Grouping'
BY DEF Return, Grouping, Listing, OneModelEach, WantedGrouped, BestChosen

(* find_devices() as a step of the hub's start, and its return.             *)
LEMMA GroupingInvariant == StartSpec => []Grouping
<1>1. StartInit => Grouping
  BY GroupingInit DEF StartInit
<1>2. Grouping /\ [StartNext]_startVars => Grouping'
  <2> SUFFICES ASSUME Grouping, [StartNext]_startVars
               PROVE  Grouping'
    OBVIOUS
  <2>1. CASE Look
    BY <2>1, GroupingPassOver, GroupingGroup, GroupingChoose DEF Look, DiscoveryNext
  <2>2. CASE Return
    BY <2>2, GroupingReturn
  <2>3. CASE UNCHANGED discoveryVars
    BY <2>3 DEF discoveryVars, Grouping, Listing, OneModelEach, WantedGrouped, BestChosen, Wants, Best
  <2>4. QED
    BY <2>1, <2>2, <2>3 DEF StartNext, Open, OpenFails, NextMeta, Query, startVars
<1>3. QED
  BY <1>1, <1>2, PTL DEF StartSpec

LEMMA OneHandleWhileGrouping ==
  ASSUME Grouping
  PROVE  OneHandlePerUnit
<1> USE DEF Grouping
<1>1. /\ chosen \in Seq(Interfaces) /\ Len(chosen) <= Len(groups)
      /\ groups \in Seq(Seq(Interfaces)) /\ rows \in Seq(Interfaces)
  BY DEF BestChosen, OneModelEach, Listing
<1>2. \A g \in DOMAIN chosen : g \in DOMAIN groups /\ chosen[g] \in Interfaces
  BY <1>1
<1>3. \A g \in DOMAIN chosen : chosen[g].model = groups[g][1].model
  BY <1>2 DEF BestChosen, Best, OneModelEach
<1>4. \A i, j \in DOMAIN chosen : i # j => chosen[i].unit # chosen[j].unit
  <2>1. \A i, j \in DOMAIN chosen : i # j => chosen[i].model # chosen[j].model
    BY <1>2, <1>3 DEF OneModelEach
  <2>2. QED
    BY <2>1, <1>2, DiscoveryAssumption
<1>5. ASSUME Discovered, NEW r \in ToSet(rows), Wants(r)
      PROVE  \E c \in ToSet(chosen) : c.model = r.model /\ (r.number = -1 => c.number = -1)
  <2>1. row > Len(rows) /\ Len(chosen) = Len(groups)
    BY <1>5 DEF Discovered
  <2>2. PICK k \in 1..row - 1 : rows[k] = r
    BY <1>1, <2>1, <1>5 DEF ToSet, Listing
  <2>3. PICK g \in DOMAIN groups : \E i \in DOMAIN groups[g] : groups[g][i] = r
    BY <1>5, <2>2 DEF WantedGrouped
  <2>4. PICK i \in DOMAIN groups[g] : groups[g][i] = r
    BY <2>3
  <2>5. g \in DOMAIN chosen
    BY <1>1, <2>1
  <2>6. chosen[g].model = r.model
    BY <2>4, <2>5, <1>3 DEF OneModelEach
  <2>7. chosen[g].number <= r.number
    BY <2>4, <2>5 DEF BestChosen, Best, Rank
  <2>8. chosen[g] \in Interfaces
    BY <1>2, <2>5
  <2>9. r.number = -1 => chosen[g].number = -1
    BY <2>7, <2>8, RankRange DEF Rank
  <2>10. QED
    BY <2>5, <2>6, <2>9 DEF ToSet
<1>6. QED
  BY <1>4, <1>5 DEF OneHandlePerUnit

(* find_devices() never chooses two handles of one unit, however the system *)
(* lists the interfaces; no model is left out, and where there is a         *)
(* combined interface it is the one chosen (hid_viz_hub.py:89-119).         *)
THEOREM OneHandle == StartSpec => []OneHandlePerUnit
<1>1. Grouping => OneHandlePerUnit
  BY OneHandleWhileGrouping
<1>2. QED
  BY <1>1, GroupingInvariant, PTL

-----------------------------------------------------------------------------
(***************************************************************************)
(* The query.                                                              *)
(***************************************************************************)
(* Whatever is under way to the hub, or there, was made from the device's  *)
(* own manifest, or is no part of one.                                     *)
FromTheDevice ==
  /\ manifest \in Seq(Strings)
  /\ unsent \in Seq(Parts(manifest))
  /\ pipe \in Seq(Wire(manifest))
  /\ reports \in Seq(Wire(manifest))

LEMMA UnderWayType ==
  ASSUME NEW m \in Seq(Strings), NEW u \in UnderWay(m) \cup {<<>>}
  PROVE  u \in Seq(Parts(m))
<1>1. CASE u = <<>>
  BY <1>1
<1>2. CASE u # <<>>
  <2> DEFINE s == StreamOf(m)
  <2>1. PICK l \in 1..Len(s) : u = SubSeq(s, l, Len(s))
    BY <1>2 DEF UnderWay, Suffixes
  <2>2. s \in Seq(Parts(m))
    BY StreamType DEF StreamOf
  <2> HIDE DEF s
  <2>3. \A i \in l..Len(s) : s[i] \in Parts(m)
    BY <2>2
  <2>4. SubSeq(s, l, Len(s)) \in Seq(Parts(m))
    BY <2>2, <2>3, SubSeqProperties
  <2>5. QED
    BY <2>1, <2>4
<1>3. QED
  BY <1>1, <1>2

LEMMA FromTheDeviceBegins ==
  ASSUME QueryInit
  PROVE  FromTheDevice
<1>1. manifest \in Seq(Strings) /\ unsent \in UnderWay(manifest) \cup {<<>>}
  BY QueryAssumption DEF QueryInit
<1>2. unsent \in Seq(Parts(manifest))
  BY <1>1, UnderWayType
<1>3. QED
  BY <1>1, <1>2 DEF QueryInit, FromTheDevice

LEMMA FromTheDeviceOpen ==
  ASSUME Open
  PROVE  FromTheDevice'
<1>1. manifest' \in Seq(Strings) /\ unsent' \in UnderWay(manifest') \cup {<<>>}
  BY QueryAssumption DEF Open
<1>2. unsent' \in Seq(Parts(manifest'))
  BY <1>1, UnderWayType
<1>3. QED
  BY <1>1, <1>2 DEF Open, FromTheDevice

LEMMA FromTheDeviceQuery ==
  ASSUME FromTheDevice, QueryNext
  PROVE  FromTheDevice'
<1> DEFINE P == Parts(manifest)
           W == Wire(manifest)
<1>1. /\ manifest' = manifest /\ manifest \in Seq(Strings) /\ unsent \in Seq(P)
      /\ pipe \in Seq(W) /\ reports \in Seq(W)
  BY DEF FromTheDevice, QueryNext, Ask, DeviceSends, OtherReport, Tick, Read, StopDraining, ReadFails
<1>2. P \subseteq W /\ [type |-> "other"] \in W
  BY DEF Wire, Other
<1>3. StreamOf(manifest) \in Seq(P)
  BY <1>1, StreamType DEF StreamOf
<1> HIDE DEF P, W
<1>4. unsent' \in Seq(P) /\ pipe' \in Seq(W) /\ reports' \in Seq(W)
  <2>1. CASE Ask
    BY <2>1, <1>1, <1>3 DEF Ask
  <2>2. CASE DeviceSends
    <3>1. unsent # <<>> /\ unsent' = Tail(unsent) /\ pipe' \in {pipe, Append(pipe, Head(unsent))} /\ reports' = reports
      BY <2>2 DEF DeviceSends
    <3>2. Head(unsent) \in W /\ Tail(unsent) \in Seq(P)
      BY <3>1, <1>1, <1>2
    <3>3. Append(pipe, Head(unsent)) \in Seq(W)
      BY <3>2, <1>1
    <3>4. QED
      BY <3>1, <3>2, <3>3, <1>1
  <2>3. CASE OtherReport
    BY <2>3, <1>1, <1>2 DEF OtherReport
  <2>4. CASE Read
    <3>1. pipe # <<>> /\ reports' = Append(reports, Head(pipe)) /\ pipe' = Tail(pipe) /\ unsent' = unsent
      BY <2>4 DEF Read
    <3>2. Head(pipe) \in W /\ Tail(pipe) \in Seq(W)
      BY <3>1, <1>1
    <3>3. QED
      BY <3>1, <3>2, <1>1
  <2>5. CASE Tick \/ StopDraining \/ ReadFails
    BY <2>5, <1>1 DEF Tick, StopDraining, ReadFails
  <2>6. QED
    BY <2>1, <2>2, <2>3, <2>4, <2>5 DEF QueryNext
<1>5. QED
  BY <1>1, <1>4 DEF FromTheDevice, P, W

LEMMA FromTheDeviceInvariant == StartSpec => []FromTheDevice
<1>1. StartInit => FromTheDevice
  BY FromTheDeviceBegins DEF StartInit
<1>2. FromTheDevice /\ [StartNext]_startVars => FromTheDevice'
  <2> SUFFICES ASSUME FromTheDevice, [StartNext]_startVars
               PROVE  FromTheDevice'
    OBVIOUS
  <2>1. CASE Open
    BY <2>1, FromTheDeviceOpen
  <2>2. CASE Query
    BY <2>2, FromTheDeviceQuery DEF Query
  <2>3. CASE UNCHANGED queryVars
    BY <2>3 DEF queryVars, FromTheDevice
  <2>4. QED
    BY <2>1, <2>2, <2>3 DEF StartNext, Look, Return, OpenFails, startVars
<1>3. QED
  BY <1>1, <1>2, PTL DEF StartSpec

(* Nothing the hub reads as one string is of two: whatever is lost, or     *)
(* still comes from an earlier request, query_manifest() routes nothing by  *)
(* an id the device does not have (hid_viz_hub.py:156-174).                 *)
THEOREM OwnStringsOnly == StartSpec => []NothingInvented
<1>1. FromTheDevice => NothingInvented
  <2> SUFFICES ASSUME FromTheDevice, NEW n \in Numbers(reports)
               PROVE  \E s \in ToSet(manifest) : ToSet(HostString(reports, n)) \subseteq ToSet(Bytes(s))
    BY DEF NothingInvented
  <2>1. manifest \in Seq(Strings) /\ reports \in Seq(Wire(manifest))
    BY DEF FromTheDevice
  <2>2. PICK k \in DOMAIN reports : IsPart(reports[k], n)
    BY DEF Numbers, ToSet, IsPart
  <2>3. n + 1 \in DOMAIN manifest
    BY <2>1, <2>2, PartBody
  <2>4. Assembled(reports, n) \in Seq(Bits(manifest[n + 1]))
    BY <2>1, <2>3, AssembledType
  <2>5. ToSet(HostString(reports, n)) \subseteq Bits(manifest[n + 1]) \ {NUL}
    BY <2>4, UpToNulType DEF HostString
  <2>6. manifest[n + 1] \in ToSet(manifest)
    BY <2>3 DEF ToSet
  <2>7. QED
    BY <2>5, <2>6 DEF Bits
<1>2. QED
  BY <1>1, FromTheDeviceInvariant, PTL

-----------------------------------------------------------------------------
(***************************************************************************)
(* A beginning of the stream, and what the hub makes of it.                *)
(***************************************************************************)
To(m, k) == StreamTo(m, 0, Len(m) - 1, k)
SoFar(m, i, j) == ChunksSoFar(m, i, i - 1 = Len(m) - 1, j)

BeginningOf(p, s) == Len(p) <= Len(s) /\ \A i \in 1..Len(p) : p[i] = s[i]

LEMMA BeginningOfConcat ==
  ASSUME NEW S, NEW p \in Seq(S), NEW q \in Seq(S)
  PROVE  BeginningOf(p, p \o q)
BY DEF BeginningOf

(* A beginning ends in some chunk of some entry.                            *)
CutIn(m, p) ==
  \/ p = <<>>
  \/ \E i \in 1..Len(m) : \E j \in 1..Count(m[i]) : p = To(m, i - 1) \o SoFar(m, i, j)

GoesInto(p, s, t) == \E j \in 1..Len(t) : p = s \o SubSeq(t, 1, j)

LEMMA BeginningOfTwo ==
  ASSUME NEW S, NEW p \in Seq(S), NEW s \in Seq(S), NEW t \in Seq(S), BeginningOf(p, s \o t)
  PROVE  BeginningOf(p, s) \/ GoesInto(p, s, t)
<1>1. /\ Len(p) \in Nat /\ Len(s) \in Nat /\ Len(t) \in Nat /\ Len(s \o t) = Len(s) + Len(t)
      /\ \A i \in 1..Len(s) : (s \o t)[i] = s[i]
      /\ \A i \in 1..Len(t) : (s \o t)[Len(s) + i] = t[i]
  OBVIOUS
<1>2. Len(p) <= Len(s) + Len(t) /\ \A i \in 1..Len(p) : p[i] = (s \o t)[i]
  BY <1>1 DEF BeginningOf
<1>3. CASE Len(p) <= Len(s)
  BY <1>1, <1>2, <1>3 DEF BeginningOf
<1>4. CASE Len(p) > Len(s)
  <2> DEFINE j == Len(p) - Len(s)
             u == SubSeq(t, 1, j)
  <2>1. j \in 1..Len(t)
    BY <1>1, <1>2, <1>4
  <2>2. u \in Seq(S) /\ Len(u) = j /\ \A i \in 1..j : u[i] = t[i]
    <3>1. j \in Int /\ 1 <= j /\ \A i \in 1..j : t[i] \in S
      BY <1>1, <2>1
    <3> HIDE DEF j
    <3>2. /\ u \in Seq(S) /\ Len(u) = IF 1 <= j THEN j - 1 + 1 ELSE 0
          /\ \A i \in 1..j - 1 + 1 : u[i] = t[1 + i - 1]
      BY <3>1, SubSeqProperties
    <3>3. j - 1 + 1 = j /\ \A i \in 1..j : 1 + i - 1 = i
      BY <3>1
    <3>4. QED
      BY <3>1, <3>2, <3>3
  <2> HIDE DEF u
  <2>3. s \o u \in Seq(S) /\ Len(s \o u) = Len(p)
    BY <1>1, <2>1, <2>2
  <2>4. \A i \in 1..Len(p) : p[i] = (s \o u)[i]
    <3> TAKE i \in 1..Len(p)
    <3>1. CASE i <= Len(s)
      BY <3>1, <1>1, <1>2, <2>2
    <3>2. CASE i > Len(s)
      <4>1. i - Len(s) \in 1..j /\ i - Len(s) \in 1..Len(t) /\ Len(s) + (i - Len(s)) = i
        BY <3>2, <1>1, <2>1
      <4> DEFINE k == i - Len(s)
      <4>2. (s \o t)[Len(s) + k] = t[k] /\ u[k] = t[k]
        BY <4>1, <1>1, <2>2
      <4>3. (s \o u)[Len(s) + k] = u[k]
        <5>1. k \in 1..Len(u)
          BY <4>1, <2>2
        <5> HIDE DEF k, j
        <5>2. QED
          BY <5>1, <2>2
      <4>4. QED
        BY <4>1, <4>2, <4>3, <1>2
    <3>3. i \in Nat /\ Len(s) \in Nat
      BY <1>1
    <3>4. i <= Len(s) \/ i > Len(s)
      BY <3>3
    <3>5. QED
      BY <3>1, <3>2, <3>4
  <2>5. p = s \o u
    BY <2>3, <2>4, SeqEqual
  <2>6. QED
    BY <2>1, <2>5 DEF u, GoesInto
<1>5. QED
  BY <1>1, <1>3, <1>4

LEMMA BeginningIsCut ==
  ASSUME NEW m \in Seq(Strings), NEW p \in Seq(Parts(m)), BeginningOf(p, StreamOf(m))
  PROVE  CutIn(m, p)
<1> DEFINE S == {k \in Nat : BeginningOf(p, To(m, k)) => CutIn(m, p)}
<1>0. Len(m) \in Nat /\ DOMAIN m = 1..Len(m) /\ \A i \in 1..Len(m) : m[i] \in Strings
  OBVIOUS
<1>1. /\ To(m, 0) = <<>> /\ To(m, Len(m)) = StreamOf(m)
      /\ \A k \in 0..Len(m) : To(m, k) \in Seq(Parts(m))
      /\ \A k \in 0..Len(m) - 1 :
           To(m, k + 1) = To(m, k) \o EntryChunks(m, 0, Len(m) - 1, k + 1)
  BY StreamSteps DEF To, StreamOf
<1>2. 0 \in S
  <2>1. BeginningOf(p, <<>>) => p = <<>>
    BY DEF BeginningOf
  <2>2. QED
    BY <2>1, <1>1 DEF CutIn
<1>3. ASSUME NEW k \in 0..Len(m) - 1, k \in S
      PROVE  k + 1 \in S
  <2> SUFFICES ASSUME BeginningOf(p, To(m, k + 1))
               PROVE  CutIn(m, p)
    BY <1>0
  <2> DEFINE i == k + 1
             isLast == (i - 1 = Len(m) - 1)
             c == Chunks(i - 1, m[i], isLast)
  <2>1. i \in 1..Len(m) /\ i \in DOMAIN m /\ i - 1 = k /\ i - 1 >= 0 /\ k \in 0..Len(m)
    BY <1>0
  <2>2. isLast \in BOOLEAN
    OBVIOUS
  <2>3. To(m, k + 1) = To(m, k) \o c
    <3>1. EntryChunks(m, 0, Len(m) - 1, i) = c
      <4> HIDE DEF i
      <4>1. QED
        BY <2>1 DEF EntryChunks
    <3>2. QED
      BY <3>1, <1>1
  <2>4. /\ c \in Seq(Parts(m)) /\ Len(c) = Count(m[i]) /\ To(m, k) \in Seq(Parts(m))
    <3> HIDE DEF i, isLast
    <3>1. QED
      BY <2>1, <2>2, <1>1, ChunksType
  <2>5. CASE BeginningOf(p, To(m, k))
    BY <2>5, <1>3
  <2>6. CASE GoesInto(p, To(m, k), c)
    <3>1. PICK j \in 1..Len(c) : p = To(m, k) \o SubSeq(c, 1, j)
      BY <2>6 DEF GoesInto
    <3>2. SubSeq(c, 1, j) = SoFar(m, i, j)
      BY DEF SoFar, ChunksSoFar
    <3>3. j \in 1..Count(m[i])
      BY <2>4
    <3> HIDE DEF i, isLast, c
    <3>4. p = To(m, i - 1) \o SoFar(m, i, j)
      BY <2>1, <3>1, <3>2
    <3>5. QED
      BY <2>1, <3>3, <3>4 DEF CutIn
  <2>7. QED
    <3> HIDE DEF i, isLast, c
    <3> DEFINE P == Parts(m)
               b == To(m, k)
    <3>1. BeginningOf(p, b \o c) /\ p \in Seq(P) /\ b \in Seq(P) /\ c \in Seq(P)
      BY <2>3, <2>4
    <3>2. BeginningOf(p, b) \/ GoesInto(p, b, c)
      <4> HIDE DEF P, b
      <4>1. QED
        BY <3>1, BeginningOfTwo
    <3>3. QED
      BY <3>2, <2>5, <2>6
<1>4. \A k \in 0..Len(m) : k \in S
  <2> HIDE DEF S
  <2>1. QED
    BY <1>0, <1>2, <1>3, Induction
<1>5. QED
  BY <1>0, <1>1, <1>4

(* The hub knows i entries of manifest m, the first c of them whole.        *)
Knows(m, i, c, r) ==
  \A n : /\ n \in Numbers(r) <=> n \in 0..i - 1
         /\ n \in Numbers(r) =>
              /\ HostHeader(r, n) = Header(m[n + 1])
              /\ HostString(r, n) \in Seq(AnyByte)
              /\ IsPrefix(HostString(r, n), Bytes(m[n + 1]))
              /\ n < c => HostString(r, n) = Bytes(m[n + 1])

LEMMA KnowsCut ==
  ASSUME NEW m \in Seq(Strings), NEW i \in 1..Len(m), NEW j \in 1..Count(m[i])
  PROVE  Knows(m, i, i - 1, To(m, i - 1) \o SoFar(m, i, j))
<1> DEFINE t == To(m, i - 1)
           f == SoFar(m, i, j)
           isLast == (i - 1 = Len(m) - 1)
<1>0. /\ Len(m) \in Nat /\ m[i] \in Strings /\ i \in DOMAIN m /\ i - 1 \in 0..Len(m) /\ i \in Nat \ {0}
      /\ isLast \in BOOLEAN /\ \A k \in 1..Len(m) : m[k] \in Strings
  OBVIOUS
<1>1. Count(m[i]) \in Nat \ {0} /\ j \in 0..Count(m[i]) /\ j \in Nat
  BY <1>0, CountProperties
<1>2. t \in Seq(Wire(m)) /\ f \in Seq(Wire(m))
  <2>1. t \in Seq(Parts(m)) /\ f \in Seq(Parts(m))
    BY <1>0, <1>1, StreamSteps, ChunksStep DEF To, SoFar
  <2> HIDE DEF t, f
  <2>2. QED
    BY <2>1, SeqMonotonic DEF Wire
<1> SUFFICES ASSUME NEW n
             PROVE  /\ n \in Numbers(t \o f) <=> n \in 0..i - 1
                    /\ n \in Numbers(t \o f) =>
                         /\ HostHeader(t \o f, n) = Header(m[n + 1])
                         /\ HostString(t \o f, n) \in Seq(AnyByte)
                         /\ IsPrefix(HostString(t \o f, n), Bytes(m[n + 1]))
                         /\ n < i - 1 => HostString(t \o f, n) = Bytes(m[n + 1])
  BY DEF Knows
<1>3. ReadsEntries(m, 0, t, i - 1, n)
  BY <1>0, StreamRead DEF To
<1>4. ReadsChunks(m, i, f, j, n)
  BY <1>0, <1>1, ChunksRead DEF SoFar
<1>5. ReadTogether(t, f, n)
  <2> HIDE DEF t, f
  <2>1. QED
    BY <1>2, ReadingConcat
<1>6. Assembled(t, n) \in Seq(AnyByte) /\ Assembled(f, n) \in Seq(AnyByte)
  <2> HIDE DEF t, f
  <2>1. QED
    BY <1>2, AssembledType
<1> HIDE DEF t, f, isLast
<1>7. n \in Numbers(t \o f) <=> n \in 0..i - 1
  <2>1. n \in Numbers(t) <=> n \in 0..(i - 1) - 1
    BY <1>3 DEF ReadsEntries
  <2>2. n \in Numbers(f) <=> n = i - 1
    BY <1>1, <1>4 DEF ReadsChunks
  <2>3. n \in 0..i - 1 <=> n \in 0..(i - 1) - 1 \/ n = i - 1
    BY <1>0
  <2>4. QED
    BY <2>1, <2>2, <2>3, <1>5 DEF ReadTogether
<1>8. ASSUME n \in 0..(i - 1) - 1
      PROVE  /\ HostHeader(t \o f, n) = Header(m[n + 1])
             /\ HostString(t \o f, n) \in Seq(AnyByte)
             /\ IsPrefix(HostString(t \o f, n), Bytes(m[n + 1]))
             /\ HostString(t \o f, n) = Bytes(m[n + 1])
  <2> DEFINE s == m[n + 1]
             l == Count(s) * ChunkSize
  <2>1. s \in Strings /\ n # i - 1
    BY <1>0, <1>8
  <2>2. n \in Numbers(t) /\ HostHeader(t, n) = Header(s) /\ Assembled(t, n) = Padded(s, l)
    BY <1>3, <1>8 DEF ReadsEntries
  <2>3. Assembled(f, n) = <<>>
    BY <1>4, <2>1 DEF ReadsChunks
  <2>4. Assembled(t \o f, n) = Padded(s, l)
    <3>1. Assembled(t, n) \o <<>> = Assembled(t, n)
      BY <1>6, ConcatEmptySeq
    <3>2. QED
      BY <3>1, <2>2, <2>3, <1>5 DEF ReadTogether
  <2>5. l \in Nat /\ l >= Length[s]
    BY <2>1, CountCovers
  <2>6. UpToNul(Padded(s, l)) = Bytes(s) /\ IsPrefix(UpToNul(Padded(s, l)), Bytes(s))
    <3> HIDE DEF l, s
    <3>1. QED
      BY <2>1, <2>5, PaddedRead
  <2>7. HostString(t \o f, n) = Bytes(s) /\ IsPrefix(HostString(t \o f, n), Bytes(s))
    BY <2>4, <2>6 DEF HostString
  <2>8. Bytes(s) \in Seq(AnyByte)
    BY <2>1, BytesType
  <2>9. HostHeader(t \o f, n) = Header(s)
    BY <2>2, <1>5 DEF ReadTogether
  <2>10. QED
    BY <2>7, <2>8, <2>9
<1>9. ASSUME n = i - 1
      PROVE  /\ HostHeader(t \o f, n) = Header(m[n + 1])
             /\ HostString(t \o f, n) \in Seq(AnyByte)
             /\ IsPrefix(HostString(t \o f, n), Bytes(m[n + 1]))
  <2> DEFINE s == m[i]
             l == j * ChunkSize
  <2>1. n + 1 = i /\ s \in Strings /\ n \notin 0..(i - 1) - 1
    BY <1>0, <1>9
  <2>2. n \notin Numbers(t) /\ Assembled(t, n) = <<>>
    BY <1>3, <2>1 DEF ReadsEntries
  <2>3. n \in Numbers(f) /\ HostHeader(f, n) = Header(s) /\ Assembled(f, n) = Padded(s, l)
    BY <1>1, <1>4, <1>9 DEF ReadsChunks
  <2>4. Assembled(t \o f, n) = Padded(s, l)
    <3>1. <<>> \o Assembled(f, n) = Assembled(f, n)
      BY <1>6, ConcatEmptySeq
    <3>2. QED
      BY <3>1, <2>2, <2>3, <1>5 DEF ReadTogether
  <2>5. l \in Nat
    BY <1>1, FormatAssumption, Products
  <2>6. IsPrefix(UpToNul(Padded(s, l)), Bytes(s)) /\ Padded(s, l) \in Seq(AnyByte)
    <3> HIDE DEF l, s
    <3>1. QED
      BY <2>1, <2>5, PaddedRead, PaddedType
  <2>7. UpToNul(Padded(s, l)) \in Seq(AnyByte)
    <3>1. UpToNul(Padded(s, l)) \in Seq(AnyByte \ {NUL})
      <4> HIDE DEF l, s
      <4>1. QED
        BY <2>6, UpToNulType
    <3> HIDE DEF l, s
    <3>2. QED
      BY <3>1, SeqMonotonic
  <2>8. HostHeader(t \o f, n) = Header(s)
    BY <2>2, <2>3, <1>5 DEF ReadTogether
  <2>9. QED
    BY <2>1, <2>4, <2>6, <2>7, <2>8 DEF HostString
<1>10. n \in Numbers(t \o f) => n \in 0..(i - 1) - 1 \/ n = i - 1
  BY <1>0, <1>7
<1>11. n = i - 1 => ~(n < i - 1)
  BY <1>0
<1>12. QED
  BY <1>7, <1>8, <1>9, <1>10, <1>11

-----------------------------------------------------------------------------
(***************************************************************************)
(* The capabilities, the name and the config id.                           *)
(***************************************************************************)
LEMMA MaxIs ==
  ASSUME NEW S, S \subseteq Nat, NEW x \in S, \A y \in S : y <= x
  PROVE  Max(S) = x
<1>1. \A y \in S : x >= y
  OBVIOUS
<1>2. Max(S) \in S /\ \A y \in S : Max(S) >= y
  BY <1>1 DEF Max
<1> DEFINE y == Max(S)
<1>3. y \in Nat /\ y <= x /\ y >= x /\ x \in Nat
  BY <1>2
<1>4. y = x
  <2> HIDE DEF y
  <2>1. QED
    BY <1>3
<1>5. QED
  BY <1>4 DEF y

LEMMA MaxExists ==
  ASSUME NEW b \in Nat, NEW S, S \subseteq 0..b, S # {}
  PROVE  Max(S) \in S
<1> DEFINE T == {n \in 0..b : b - n \in S}
<1>1. T \subseteq Nat /\ S \subseteq Nat
  OBVIOUS
<1>2. T # {}
  <2>1. PICK y \in S : TRUE
    OBVIOUS
  <2>2. y \in 0..b /\ b - (b - y) = y /\ b - y \in 0..b
    OBVIOUS
  <2>3. b - y \in T
    BY <2>1, <2>2
  <2>4. QED
    BY <2>3
<1>3. PICK n \in T : \A k \in T : n <= k
  <2> HIDE DEF T
  <2>1. QED
    BY <1>1, <1>2, LeastNatural
<1>4. b - n \in S
  OBVIOUS
<1>5. ASSUME NEW y \in S
      PROVE  y <= b - n
  <2>1. y \in 0..b /\ b - y \in T
    <3>1. y \in 0..b /\ b - (b - y) = y /\ b - y \in 0..b
      OBVIOUS
    <3>2. QED
      BY <3>1
  <2>2. n <= b - y /\ n \in 0..b
    BY <1>3, <2>1
  <2>3. QED
    BY <2>1, <2>2
<1>6. QED
  BY <1>1, <1>4, <1>5, MaxIs

LEMMA HeaderIs ==
  ASSUME NEW s \in Strings
  PROVE  /\ Header(s) = "capability" <=> s \in Ids
         /\ Header(s) = "name" <=> s = BoardName
         /\ Header(s) = "config id" <=> s = ConfigId
<1>1. BoardName \notin Ids /\ ConfigId \notin Ids /\ BoardName # ConfigId
  BY FormatAssumption
<1>2. s \in Ids \/ s = BoardName \/ s = ConfigId
  BY DEF Strings
<1>3. QED
  BY <1>1, <1>2 DEF Header

(* The capabilities among the first k entries.                              *)
SaidOf(m, i) == IF m[i] \in Ids THEN <<Bytes(m[i])>> ELSE <<>>
SaidTo(m, k) == FlattenSeq([i \in 1..k |-> SaidOf(m, i)])

LEMMA SaidSteps ==
  ASSUME NEW m \in Seq(Strings)
  PROVE  /\ SaidTo(m, 0) = <<>>
         /\ \A i \in 1..Len(m) : SaidOf(m, i) \in Seq(Seq(AnyByte))
         /\ \A k \in 0..Len(m) : SaidTo(m, k) \in Seq(Seq(AnyByte))
         /\ \A k \in 0..Len(m) - 1 : SaidTo(m, k + 1) = SaidTo(m, k) \o SaidOf(m, k + 1)
         /\ SaidTo(m, Len(m)) = SaidCaps(m)
<1> DEFINE B == Seq(AnyByte)
<1>0. Len(m) \in Nat /\ DOMAIN m = 1..Len(m) /\ \A i \in 1..Len(m) : m[i] \in Strings
  OBVIOUS
<1>1. \A i \in 1..Len(m) : SaidOf(m, i) \in Seq(B)
  <2> TAKE i \in 1..Len(m)
  <2>1. Bytes(m[i]) \in B
    BY <1>0, BytesType
  <2> HIDE DEF B
  <2>2. <<Bytes(m[i])>> \in Seq(B) /\ <<>> \in Seq(B)
    BY <2>1
  <2>3. QED
    BY <2>2 DEF SaidOf
<1> HIDE DEF B
<1>2. SaidTo(m, 0) = <<>>
  <2> DEFINE e == [i \in 1..0 |-> SaidOf(m, i)]
  <2>1. e = <<>>
    OBVIOUS
  <2>2. FlattenSeq(e) = FlattenSeq(<<>>)
    BY <2>1, Zenon
  <2>3. QED
    BY <2>2, FlattenEmpty DEF SaidTo
<1>3. ASSUME NEW k \in 0..Len(m)
      PROVE  SaidTo(m, k) \in Seq(B)
  <2> DEFINE f == [i \in 1..k |-> SaidOf(m, i)]
  <2>1. k \in Nat /\ f \in [1..k -> Seq(B)]
    BY <1>0, <1>1
  <2>2. f \in Seq(Seq(B))
    <3> HIDE DEF f
    <3>1. QED
      BY <2>1, FunctionIsSequence
  <2>3. FlattenSeq(f) \in Seq(B)
    <3> HIDE DEF f
    <3>1. QED
      BY <2>2, FlattenType
  <2>4. QED
    BY <2>3 DEF SaidTo
<1>4. ASSUME NEW k \in 0..Len(m) - 1
      PROVE  SaidTo(m, k + 1) = SaidTo(m, k) \o SaidOf(m, k + 1)
  <2> DEFINE f == [i \in 1..k + 1 |-> SaidOf(m, i)]
             g == [i \in 1..k |-> SaidOf(m, i)]
  <2>1. k \in Nat /\ k + 1 \in 1..k + 1
    BY <1>0
  <2>2. /\ f = [i \in 1..k + 1 |-> f[i]] /\ \A i \in 1..k + 1 : f[i] \in Seq(B)
        /\ g = [i \in 1..k |-> f[i]] /\ f[k + 1] = SaidOf(m, k + 1)
    BY <1>0, <1>1, <2>1
  <2>3. FlattenSeq(f) = FlattenSeq(g) \o f[k + 1]
    <3> HIDE DEF f, g
    <3>1. QED
      BY <2>1, <2>2, FlattenGrow
  <2>4. QED
    BY <2>2, <2>3, Zenon DEF SaidTo
<1>5. SaidTo(m, Len(m)) = SaidCaps(m)
  BY <1>0 DEF SaidTo, SaidCaps, SaidOf
<1>6. QED
  BY <1>1, <1>2, <1>3, <1>4, <1>5 DEF B

LEMMA SaidGrows ==
  ASSUME NEW m \in Seq(Strings), NEW n \in 0..Len(m)
  PROVE  BeginningOf(SaidTo(m, n), SaidCaps(m))
<1> DEFINE l(k) == SaidTo(m, k)
           B == Seq(AnyByte)
           S == {k \in Nat : BeginningOf(l(n), l(k))}
<1>0. Len(m) \in Nat /\ n \in Nat /\ n <= Len(m)
  OBVIOUS
<1>1. \A k \in 0..Len(m) : l(k) \in Seq(B)
  BY SaidSteps
<1>2. n \in S
  <2> HIDE DEF l, B
  <2>1. QED
    BY <1>0, <1>1 DEF BeginningOf
<1>3. ASSUME NEW k \in n..Len(m) - 1, k \in S
      PROVE  k + 1 \in S
  <2> DEFINE s == l(k)
             t == SaidOf(m, k + 1)
             p == l(n)
  <2>1. k \in 0..Len(m) - 1 /\ k \in 0..Len(m) /\ k + 1 \in 1..Len(m) /\ k + 1 \in Nat /\ n \in 0..Len(m)
    BY <1>0
  <2>2. l(k + 1) = s \o t /\ t \in Seq(B)
    BY <2>1, SaidSteps
  <2>3. s \in Seq(B) /\ p \in Seq(B) /\ BeginningOf(p, s)
    BY <2>1, <1>1, <1>3
  <2> HIDE DEF s, t, p, B
  <2>4. /\ Len(s \o t) = Len(s) + Len(t) /\ Len(s) \in Nat /\ Len(t) \in Nat /\ Len(p) \in Nat
        /\ \A i \in 1..Len(s) : (s \o t)[i] = s[i]
    BY <2>2, <2>3
  <2>5. BeginningOf(p, s \o t)
    BY <2>3, <2>4 DEF BeginningOf
  <2>6. QED
    BY <2>1, <2>2, <2>5 DEF p
<1>4. \A k \in n..Len(m) : k \in S
  <2> HIDE DEF S
  <2>1. QED
    BY <1>0, <1>2, <1>3, Induction
<1>5. BeginningOf(l(n), l(Len(m)))
  BY <1>0, <1>4
<1>6. QED
  BY <1>5, SaidSteps

(* What the hub lists as capabilities.                                      *)
LEMMA CapsRead ==
  ASSUME NEW m \in Seq(Strings), NEW i \in 0..Len(m), NEW r, Knows(m, i, i - 1, r)
  PROVE  /\ i = 0 => HostCaps(r) = <<>>
         /\ i > 0 => HostCaps(r) =
              SaidTo(m, i - 1) \o (IF m[i] \in Ids THEN <<HostString(r, i - 1)>> ELSE <<>>)
<1> DEFINE h(k) == IF k - 1 \in Headed(r, "capability") THEN <<HostString(r, k - 1)>> ELSE <<>>
           top == Max({0} \cup Numbers(r))
           B == Seq(AnyByte)
<1>0. Len(m) \in Nat /\ i \in Nat /\ i <= Len(m) /\ \A k \in 1..Len(m) : m[k] \in Strings
  OBVIOUS
<1>1. HostCaps(r) = FlattenSeq([k \in 1..top + 1 |-> h(k)])
  BY DEF HostCaps
<1>2. ASSUME NEW n
      PROVE  /\ n \in Numbers(r) <=> n \in 0..i - 1
             /\ n \in Headed(r, "capability") => n \in 0..i - 1
             /\ n \in 0..i - 1 =>
                  /\ n \in Headed(r, "capability") <=> m[n + 1] \in Ids
                  /\ HostString(r, n) \in B
                  /\ n < i - 1 => HostString(r, n) = Bytes(m[n + 1])
  <2>1. n \in Numbers(r) <=> n \in 0..i - 1
    BY DEF Knows
  <2>2. n \in Headed(r, "capability") <=> n \in Numbers(r) /\ HostHeader(r, n) = "capability"
    BY DEF Headed
  <2>3. ASSUME n \in 0..i - 1
        PROVE  /\ HostHeader(r, n) = Header(m[n + 1]) /\ HostString(r, n) \in B
               /\ n < i - 1 => HostString(r, n) = Bytes(m[n + 1])
    BY <2>1, <2>3 DEF Knows
  <2>4. n \in 0..i - 1 => m[n + 1] \in Strings
    BY <1>0
  <2>5. n \in 0..i - 1 => (Header(m[n + 1]) = "capability" <=> m[n + 1] \in Ids)
    BY <2>4, HeaderIs
  <2>6. QED
    BY <2>1, <2>2, <2>3, <2>5
<1>3. Numbers(r) = 0..i - 1
  BY <1>2
<1> HIDE DEF B
<1>4. CASE i = 0
  <2>1. top = 0
    <3>1. {0} \cup Numbers(r) = {0}
      BY <1>3, <1>4
    <3>2. Max({0}) = 0
      <4> DEFINE z == {0}
      <4>1. z \subseteq Nat /\ 0 \in z /\ \A y \in z : y <= 0
        OBVIOUS
      <4>2. Max(z) = 0
        <5> HIDE DEF z
        <5>1. QED
          BY <4>1, MaxIs
      <4>3. QED
        BY <4>2 DEF z
    <3>3. QED
      BY <3>1, <3>2, Zenon
  <2>2. h(1) = <<>>
    BY <1>2, <1>4
  <2> DEFINE f == [k \in 1..1 |-> h(k)]
             e == [k \in 1..0 |-> f[k]]
  <2>3. FlattenSeq(f) = FlattenSeq(e) \o f[1]
    <3>1. f = [k \in 1..0 + 1 |-> f[k]] /\ \A k \in 1..0 + 1 : f[k] \in Seq(B)
      <4>1. f = [k \in 1..1 |-> f[k]] /\ \A k \in 1..1 : f[k] = <<>>
        BY <2>2
      <4> HIDE DEF f
      <4>2. 0 + 1 = 1 /\ <<>> \in Seq(B)
        OBVIOUS
      <4>3. f = [k \in 1..0 + 1 |-> f[k]]
        BY <4>1, <4>2, Zenon
      <4>4. \A k \in 1..0 + 1 : f[k] \in Seq(B)
        BY <4>1, <4>2, Zenon
      <4>5. QED
        BY <4>3, <4>4
    <3> HIDE DEF f, e
    <3>2. FlattenSeq(f) = FlattenSeq(e) \o f[0 + 1]
      BY <3>1, FlattenGrow DEF e
    <3>3. QED
      BY <3>2
  <2>4. e = <<>> /\ f[1] = <<>>
    BY <2>2
  <2>5. FlattenSeq(f) = <<>>
    <3> HIDE DEF f, e
    <3>1. FlattenSeq(e) = <<>>
      BY <2>4, FlattenEmpty, Zenon
    <3>2. <<>> \o <<>> = <<>>
      OBVIOUS
    <3>3. QED
      BY <2>3, <2>4, <3>1, <3>2, Zenon
  <2>6. HostCaps(r) = FlattenSeq(f)
    <3>1. top + 1 = 1
      <4> HIDE DEF top
      <4>1. QED
        BY <2>1
    <3> HIDE DEF top, h
    <3>2. QED
      BY <1>1, <3>1, Zenon DEF f
  <2>7. QED
    BY <1>4, <2>5, <2>6
<1>5. CASE i > 0
  <2> DEFINE n == i - 1
             f == [k \in 1..n + 1 |-> h(k)]
             g == [k \in 1..n |-> SaidOf(m, k)]
  <2>1. n \in Nat /\ n + 1 = i /\ n \in 0..i - 1 /\ n + 1 \in 1..n + 1
    BY <1>0, <1>5
  <2>2. top = n
    <3>1. {0} \cup Numbers(r) = 0..n
      BY <1>3, <2>1
    <3>2. 0..n \subseteq Nat /\ n \in 0..n /\ \A y \in 0..n : y <= n
      BY <2>1
    <3>3. Max(0..n) = n
      <4> HIDE DEF n
      <4>1. QED
        BY <3>2, MaxIs
    <3>4. QED
      BY <3>1, <3>3, Zenon
  <2>3. \A k \in 1..n : h(k) = SaidOf(m, k)
    <3> TAKE k \in 1..n
    <3>1. k - 1 \in 0..i - 1 /\ k - 1 < i - 1 /\ (k - 1) + 1 = k
      BY <2>1
    <3>2. /\ k - 1 \in Headed(r, "capability") <=> m[k] \in Ids
          /\ HostString(r, k - 1) = Bytes(m[k])
      BY <3>1, <1>2
    <3>3. QED
      BY <3>2 DEF SaidOf
  <2>4. h(n + 1) = IF m[i] \in Ids THEN <<HostString(r, i - 1)>> ELSE <<>>
    <3>1. n \in Headed(r, "capability") <=> m[n + 1] \in Ids
      BY <2>1, <1>2
    <3>2. (n + 1) - 1 = n
      BY <2>1
    <3>3. QED
      BY <3>1, <3>2, <2>1
  <2>5. \A k \in 1..n + 1 : h(k) \in Seq(B)
    <3> TAKE k \in 1..n + 1
    <3>1. k - 1 \in 0..i - 1
      BY <2>1
    <3>2. HostString(r, k - 1) \in B
      BY <3>1, <1>2
    <3>3. <<HostString(r, k - 1)>> \in Seq(B) /\ <<>> \in Seq(B)
      BY <3>2
    <3>4. QED
      BY <3>3
  <2> HIDE DEF h
  <2>6. FlattenSeq(f) = FlattenSeq(g) \o f[n + 1]
    <3>1. f = [k \in 1..n + 1 |-> f[k]] /\ \A k \in 1..n + 1 : f[k] \in Seq(B)
      BY <2>5
    <3>2. g = [k \in 1..n |-> f[k]]
      BY <2>1, <2>3
    <3> HIDE DEF f, g, n
    <3>3. QED
      BY <3>1, <3>2, <2>1, FlattenGrow
  <2>7. f[n + 1] = h(n + 1)
    BY <2>1
  <2>8. HostCaps(r) = FlattenSeq(f)
    BY <1>1, <2>2
  <2>9. FlattenSeq(g) = SaidTo(m, i - 1)
    BY DEF SaidTo
  <2> HIDE DEF f, g
  <2>10. HostCaps(r) = SaidTo(m, i - 1) \o h(n + 1)
    BY <2>6, <2>7, <2>8, <2>9, Zenon
  <2>11. ~(i = 0)
    BY <1>5
  <2>12. QED
    BY <2>4, <2>10, <2>11, Zenon
<1>6. QED
  BY <1>0, <1>4, <1>5

-----------------------------------------------------------------------------
(***************************************************************************)
(* The reading of a query that nothing is lost of.                         *)
(***************************************************************************)
KnowsSome(m, r) == \E i \in 0..Len(m) : Knows(m, i, i - 1, r)

LEMMA KnowsKept ==
  ASSUME NEW m \in Seq(Strings), NEW r \in Seq(Wire(m)), NEW i, NEW c, Knows(m, i, c, Kept(r))
  PROVE  Knows(m, i, c, r)
<1> SUFFICES ASSUME NEW n
             PROVE  /\ n \in Numbers(r) <=> n \in 0..i - 1
                    /\ n \in Numbers(r) =>
                         /\ HostHeader(r, n) = Header(m[n + 1])
                         /\ HostString(r, n) \in Seq(AnyByte)
                         /\ IsPrefix(HostString(r, n), Bytes(m[n + 1]))
                         /\ n < c => HostString(r, n) = Bytes(m[n + 1])
  BY DEF Knows
<1>1. ReadAsKept(r, n)
  BY ReadingKept
<1>2. /\ Assembled(r, n) = Assembled(Kept(r), n)
      /\ n \in Numbers(r) <=> n \in Numbers(Kept(r))
      /\ n \in Numbers(r) => HostHeader(r, n) = HostHeader(Kept(r), n)
  BY <1>1 DEF ReadAsKept
<1>3. HostString(r, n) = HostString(Kept(r), n)
  BY <1>2, Zenon DEF HostString
<1> DEFINE a == HostString(r, n)
           b == HostString(Kept(r), n)
           h == HostHeader(r, n)
           k == HostHeader(Kept(r), n)
<1>4. /\ n \in Numbers(Kept(r)) <=> n \in 0..i - 1
      /\ n \in Numbers(Kept(r)) =>
           /\ k = Header(m[n + 1])
           /\ b \in Seq(AnyByte)
           /\ IsPrefix(b, Bytes(m[n + 1]))
           /\ n < c => b = Bytes(m[n + 1])
  BY DEF Knows
<1>5. a = b /\ (n \in Numbers(r) => h = k)
  BY <1>2, <1>3
<1> HIDE DEF a, b, h, k
<1>6. /\ n \in Numbers(r) <=> n \in 0..i - 1
      /\ n \in Numbers(r) =>
           /\ h = Header(m[n + 1])
           /\ a \in Seq(AnyByte)
           /\ IsPrefix(a, Bytes(m[n + 1]))
           /\ n < c => a = Bytes(m[n + 1])
  BY <1>2, <1>4, <1>5, Zenon
<1>7. QED
  BY <1>6 DEF a, h

LEMMA BeginningKnown ==
  ASSUME NEW m \in Seq(Strings), NEW r \in Seq(Wire(m)), NEW q \in Seq(Parts(m)),
         Kept(r) \o q = StreamOf(m)
  PROVE  KnowsSome(m, r)
<1> DEFINE p == Kept(r)
<1>1. p \in Seq(Parts(m))
  BY KeptType
<1>2. CutIn(m, p)
  <2> DEFINE P == Parts(m)
  <2>1. p \in Seq(P) /\ q \in Seq(P) /\ p \o q = StreamOf(m)
    BY <1>1
  <2> HIDE DEF p, P
  <2>2. BeginningOf(p, p \o q)
    BY <2>1, BeginningOfConcat
  <2>3. BeginningOf(p, StreamOf(m))
    BY <2>1, <2>2, Zenon
  <2>4. p \in Seq(Parts(m))
    BY <2>1 DEF P
  <2>5. QED
    BY <2>3, <2>4, BeginningIsCut
<1>3. CASE p = <<>>
  <2>1. \A n : n \notin Numbers(<<>>)
    BY EmptyReports
  <2>2. Numbers(p) = Numbers(<<>>)
    BY <1>3, Zenon
  <2>3. \A n : n \notin Numbers(p)
    BY <2>1, <2>2, Zenon
  <2>4. Knows(m, 0, 0 - 1, p)
    <3>1. \A n : n \notin 0..0 - 1
      OBVIOUS
    <3>2. QED
      BY <2>3, <3>1, Zenon DEF Knows
  <2>5. Knows(m, 0, 0 - 1, r)
    BY <2>4, KnowsKept
  <2>6. 0 \in 0..Len(m)
    OBVIOUS
  <2>7. QED
    BY <2>5, <2>6 DEF KnowsSome
<1>4. ASSUME NEW i \in 1..Len(m), NEW j \in 1..Count(m[i]), p = To(m, i - 1) \o SoFar(m, i, j)
      PROVE  KnowsSome(m, r)
  <2>1. Knows(m, i, i - 1, To(m, i - 1) \o SoFar(m, i, j))
    BY KnowsCut
  <2>2. Knows(m, i, i - 1, p)
    BY <2>1, <1>4, Zenon
  <2>3. Knows(m, i, i - 1, r)
    BY <2>2, KnowsKept
  <2>4. i \in 0..Len(m)
    OBVIOUS
  <2>5. QED
    BY <2>3, <2>4 DEF KnowsSome
<1>5. QED
  BY <1>2, <1>3, <1>4 DEF CutIn

(* What the hub lists then is a beginning of what the device said.          *)
OnlyTruncated(caps, all) ==
  /\ Len(caps) <= Len(all)
  /\ \A k \in DOMAIN caps : IF k < Len(caps) THEN caps[k] = all[k] ELSE IsPrefix(caps[k], all[k])

LEMMA PrefixOfItself ==
  ASSUME NEW S, NEW s \in Seq(S)
  PROVE  IsPrefix(s, s)
BY DEF IsPrefix

LEMMA BeginningTruncated ==
  ASSUME NEW S, NEW p \in Seq(Seq(S)), NEW s \in Seq(Seq(S)), BeginningOf(p, s)
  PROVE  OnlyTruncated(p, s)
<1>1. Len(p) <= Len(s) /\ \A k \in DOMAIN p : p[k] = s[k] /\ p[k] \in Seq(S)
  <2>1. DOMAIN p = 1..Len(p) /\ \A k \in DOMAIN p : p[k] \in Seq(S)
    OBVIOUS
  <2>2. QED
    BY <2>1 DEF BeginningOf
<1>2. ASSUME NEW k \in DOMAIN p
      PROVE  IsPrefix(p[k], s[k])
  <2> DEFINE a == p[k]
             b == s[k]
  <2>1. a = b /\ a \in Seq(S)
    BY <1>1
  <2> HIDE DEF a, b
  <2>2. IsPrefix(a, a)
    BY <2>1, PrefixOfItself
  <2>3. IsPrefix(a, b)
    BY <2>1, <2>2, Zenon
  <2>4. QED
    BY <2>3 DEF a, b
<1>3. QED
  BY <1>1, <1>2 DEF OnlyTruncated

(* The last one of the list may have lost its end.                          *)
LEMMA LastTruncated ==
  ASSUME NEW S, NEW p \in Seq(Seq(S)), NEW s \in Seq(Seq(S)), NEW a \in Seq(S), NEW b \in Seq(S),
         BeginningOf(p \o <<b>>, s), IsPrefix(a, b)
  PROVE  OnlyTruncated(p \o <<a>>, s)
<1> DEFINE T == Seq(S)
           x == p \o <<a>>
           y == p \o <<b>>
<1>0. p \in Seq(T) /\ s \in Seq(T) /\ a \in T /\ b \in T
  OBVIOUS
<1>1. /\ Len(p) \in Nat /\ Len(s) \in Nat
      /\ x \in Seq(T) /\ Len(x) = Len(p) + 1 /\ x[Len(p) + 1] = a
      /\ y \in Seq(T) /\ Len(y) = Len(p) + 1 /\ y[Len(p) + 1] = b
      /\ \A k \in 1..Len(p) : x[k] = p[k] /\ y[k] = p[k]
  <2> HIDE DEF T
  <2>1. QED
    BY <1>0
<1>2. Len(y) <= Len(s) /\ \A k \in 1..Len(y) : y[k] = s[k]
  <2>1. BeginningOf(y, s)
    OBVIOUS
  <2> HIDE DEF y
  <2>2. QED
    BY <2>1 DEF BeginningOf
<1> HIDE DEF x, y, T
<1>3. Len(x) <= Len(s) /\ DOMAIN x = 1..Len(p) + 1
  BY <1>1, <1>2
<1>4. ASSUME NEW k \in 1..Len(p)
      PROVE  k < Len(x) /\ x[k] = s[k]
  BY <1>1, <1>2
<1>5. ~(Len(p) + 1 < Len(x)) /\ IsPrefix(x[Len(p) + 1], s[Len(p) + 1])
  <2>1. y[Len(p) + 1] = s[Len(p) + 1]
    BY <1>1, <1>2
  <2>2. x[Len(p) + 1] = a /\ s[Len(p) + 1] = b
    BY <2>1, <1>1
  <2>3. IsPrefix(x[Len(p) + 1], s[Len(p) + 1])
    BY <2>2, Zenon
  <2>4. QED
    BY <2>3, <1>1
<1>6. \A k \in DOMAIN x : k \in 1..Len(p) \/ k = Len(p) + 1
  BY <1>1, <1>3
<1>7. \A k \in DOMAIN x : IF k < Len(x) THEN x[k] = s[k] ELSE IsPrefix(x[k], s[k])
  BY <1>4, <1>5, <1>6, Zenon
<1>8. OnlyTruncated(x, s)
  BY <1>3, <1>7 DEF OnlyTruncated
<1>9. QED
  BY <1>8 DEF x

LEMMA KnownTruncated ==
  ASSUME NEW m \in Seq(Strings), NEW r, KnowsSome(m, r)
  PROVE  OnlyTruncated(HostCaps(r), SaidCaps(m))
<1>1. PICK i \in 0..Len(m) : Knows(m, i, i - 1, r)
  BY DEF KnowsSome
<1> DEFINE B == AnyByte
           all == SaidCaps(m)
<1>0. Len(m) \in Nat /\ i \in Nat /\ i <= Len(m) /\ \A k \in 1..Len(m) : m[k] \in Strings
  OBVIOUS
<1>2. \A n \in 0..Len(m) : SaidTo(m, n) \in Seq(Seq(B)) /\ BeginningOf(SaidTo(m, n), all)
  BY SaidSteps, SaidGrows
<1>3. all \in Seq(Seq(B)) /\ SaidTo(m, 0) = <<>>
  <2>1. Len(m) \in 0..Len(m)
    BY <1>0
  <2>2. QED
    BY <2>1, SaidSteps
<1>4. \A n \in 0..Len(m) : OnlyTruncated(SaidTo(m, n), all)
  <2> TAKE n \in 0..Len(m)
  <2> DEFINE p == SaidTo(m, n)
  <2>1. p \in Seq(Seq(B)) /\ BeginningOf(p, all)
    BY <1>2
  <2> HIDE DEF p, all, B
  <2>2. OnlyTruncated(p, all)
    BY <2>1, <1>3, BeginningTruncated
  <2>3. QED
    BY <2>2 DEF p
<1>5. CASE i = 0
  <2>1. HostCaps(r) = SaidTo(m, 0)
    BY <1>1, <1>5, <1>3, CapsRead
  <2>2. OnlyTruncated(SaidTo(m, 0), all)
    BY <1>0, <1>4
  <2>3. QED
    BY <2>1, <2>2, Zenon
<1>6. CASE i > 0
  <2> DEFINE p == SaidTo(m, i - 1)
             a == HostString(r, i - 1)
             b == Bytes(m[i])
  <2>1. i - 1 \in 0..Len(m) /\ i - 1 \in 0..Len(m) - 1 /\ (i - 1) + 1 = i /\ i - 1 \in 0..i - 1 /\ i \in 1..Len(m)
    BY <1>0, <1>6
  <2>2. HostCaps(r) = p \o (IF m[i] \in Ids THEN <<a>> ELSE <<>>)
    BY <1>1, <1>6, CapsRead
  <2>3. SaidTo(m, i) = p \o (IF m[i] \in Ids THEN <<b>> ELSE <<>>)
    <3>1. SaidTo(m, (i - 1) + 1) = SaidTo(m, i - 1) \o SaidOf(m, (i - 1) + 1)
      BY <2>1, SaidSteps
    <3>2. SaidTo(m, i) = p \o SaidOf(m, i)
      BY <2>1, <3>1
    <3>3. QED
      BY <3>2, Zenon DEF SaidOf
  <2>4. p \in Seq(Seq(B)) /\ BeginningOf(SaidTo(m, i), all) /\ OnlyTruncated(p, all)
    BY <2>1, <1>2, <1>4
  <2>5. a \in Seq(B) /\ IsPrefix(a, b)
    <3>1. /\ HostString(r, i - 1) \in Seq(AnyByte)
          /\ IsPrefix(HostString(r, i - 1), Bytes(m[(i - 1) + 1]))
      BY <2>1, <1>1 DEF Knows
    <3>2. QED
      BY <3>1, <2>1
  <2>6. b \in Seq(B)
    BY <2>1, <1>0, BytesType
  <2> HIDE DEF p, a, b, B, all
  <2>7. CASE m[i] \in Ids
    <3>1. HostCaps(r) = p \o <<a>> /\ SaidTo(m, i) = p \o <<b>>
      BY <2>2, <2>3, <2>7, Zenon
    <3>2. BeginningOf(p \o <<b>>, all)
      BY <3>1, <2>4, Zenon
    <3>3. OnlyTruncated(p \o <<a>>, all)
      BY <3>2, <2>4, <2>5, <2>6, <1>3, LastTruncated
    <3>4. QED
      BY <3>1, <3>3, Zenon DEF all
  <2>8. CASE m[i] \notin Ids
    <3>1. HostCaps(r) = p \o <<>>
      BY <2>2, <2>8, Zenon
    <3>2. p \o <<>> = p
      BY <2>4
    <3>3. QED
      BY <3>1, <3>2, <2>4, Zenon DEF all
  <2>9. QED
    BY <2>7, <2>8
<1>7. QED
  BY <1>0, <1>5, <1>6

LEMMA ConcatIs ==
  ASSUME NEW S, NEW p \in Seq(S), NEW s \in Seq(S), NEW x, x = p \o s
  PROVE  /\ x \in Seq(S) /\ Len(x) = Len(p) + Len(s) /\ Len(p) \in Nat /\ Len(s) \in Nat
         /\ \A k \in 1..Len(p) : x[k] = p[k]
         /\ \A k \in Len(p) + 1..Len(p) + Len(s) : x[k] = s[k - Len(p)]
OBVIOUS

LEMMA HeadMoves ==
  ASSUME NEW S, NEW p \in Seq(S), NEW s \in Seq(S), s # <<>>
  PROVE  Append(p, Head(s)) \o Tail(s) = p \o s
<1> DEFINE x == Append(p, Head(s)) \o Tail(s)
           y == p \o s
<1>1. /\ Len(p) \in Nat /\ Len(s) \in Nat \ {0} /\ Head(s) = s[1] /\ s[1] \in S
      /\ Tail(s) \in Seq(S) /\ Len(Tail(s)) = Len(s) - 1
      /\ \A k \in 1..Len(s) - 1 : Tail(s)[k] = s[k + 1]
  OBVIOUS
<1>2. /\ Append(p, s[1]) \in Seq(S) /\ Len(Append(p, s[1])) = Len(p) + 1
      /\ \A k \in 1..Len(p) : Append(p, s[1])[k] = p[k]
      /\ Append(p, s[1])[Len(p) + 1] = s[1]
  BY <1>1
<1> DEFINE a == Append(p, s[1])
           t == Tail(s)
<1>3. x = a \o t
  BY <1>1
<1>4. a \in Seq(S) /\ t \in Seq(S)
  BY <1>1, <1>2
<1>5. /\ Len(a) = Len(p) + 1 /\ Len(t) = Len(s) - 1
      /\ \A k \in 1..Len(p) : a[k] = p[k]
      /\ a[Len(p) + 1] = s[1] /\ \A k \in 1..Len(s) - 1 : t[k] = s[k + 1]
  BY <1>1, <1>2
<1> HIDE DEF a, t, x
<1>6. /\ x \in Seq(S) /\ Len(x) = (Len(p) + 1) + (Len(s) - 1)
      /\ \A k \in 1..Len(p) + 1 : x[k] = a[k]
      /\ \A k \in Len(p) + 2..Len(p) + Len(s) : x[k] = t[k - (Len(p) + 1)]
  <2>1. /\ x \in Seq(S) /\ Len(x) = Len(a) + Len(t)
        /\ \A k \in 1..Len(a) : x[k] = a[k]
        /\ \A k \in Len(a) + 1..Len(a) + Len(t) : x[k] = t[k - Len(a)]
    BY <1>3, <1>4, ConcatIs
  <2>2. Len(a) + 1 = Len(p) + 2 /\ Len(a) + Len(t) = Len(p) + Len(s)
    BY <1>1, <1>5
  <2>3. QED
    BY <2>1, <2>2, <1>1, <1>5
<1>7. /\ y \in Seq(S) /\ Len(y) = Len(p) + Len(s)
      /\ \A k \in 1..Len(p) : y[k] = p[k]
      /\ \A k \in Len(p) + 1..Len(p) + Len(s) : y[k] = s[k - Len(p)]
  BY <1>1
<1> HIDE DEF y
<1>8. Len(x) = Len(y)
  BY <1>1, <1>6, <1>7
<1>9. ASSUME NEW k \in 1..Len(y)
      PROVE  x[k] = y[k]
  <2>1. k \in Nat /\ k >= 1 /\ k <= Len(p) + Len(s)
    BY <1>1, <1>7
  <2>2. CASE k <= Len(p)
    BY <2>1, <2>2, <1>1, <1>5, <1>6, <1>7
  <2>3. CASE k = Len(p) + 1
    <3>1. k \in 1..Len(p) + 1 /\ k \in Len(p) + 1..Len(p) + Len(s) /\ k - Len(p) = 1
      BY <2>1, <2>3, <1>1
    <3>2. x[k] = a[k] /\ a[k] = s[1]
      BY <3>1, <2>3, <1>5, <1>6
    <3>3. y[k] = s[k - Len(p)]
      BY <3>1, <1>7
    <3>4. y[k] = s[1]
      BY <3>3, <3>1
    <3>5. QED
      BY <3>2, <3>4
  <2>4. CASE k > Len(p) + 1
    <3> DEFINE j == k - (Len(p) + 1)
    <3>1. k \in Len(p) + 2..Len(p) + Len(s) /\ j \in 1..Len(s) - 1 /\ j + 1 = k - Len(p)
          /\ k \in Len(p) + 1..Len(p) + Len(s)
      BY <2>1, <2>4, <1>1
    <3>2. x[k] = t[j] /\ t[j] = s[j + 1]
      BY <3>1, <1>5, <1>6
    <3>3. y[k] = s[k - Len(p)]
      BY <3>1, <1>7
    <3>4. s[j + 1] = s[k - Len(p)]
      BY <3>1
    <3>5. QED
      BY <3>2, <3>3, <3>4
  <2>5. QED
    BY <2>1, <2>2, <2>3, <2>4, <1>1
<1>10. x = y
  BY <1>6, <1>7, <1>8, <1>9, SeqEqual
<1>11. QED
  BY <1>10 DEF x, y

LEMMA ConcatAssociates ==
  ASSUME NEW S, NEW p \in Seq(S), NEW q \in Seq(S), NEW s \in Seq(S)
  PROVE  (p \o q) \o s = p \o (q \o s) /\ p \o q \in Seq(S) /\ q \o s \in Seq(S)
<1> DEFINE x == (p \o q) \o s
           y == p \o (q \o s)
           a == p \o q
           b == q \o s
<1>1. /\ Len(p) \in Nat /\ Len(q) \in Nat /\ Len(s) \in Nat
      /\ a \in Seq(S) /\ Len(a) = Len(p) + Len(q)
      /\ b \in Seq(S) /\ Len(b) = Len(q) + Len(s)
      /\ \A k \in 1..Len(p) : a[k] = p[k]
      /\ \A k \in Len(p) + 1..Len(p) + Len(q) : a[k] = q[k - Len(p)]
      /\ \A k \in 1..Len(q) : b[k] = q[k]
      /\ \A k \in Len(q) + 1..Len(q) + Len(s) : b[k] = s[k - Len(q)]
  OBVIOUS
<1>2. x = a \o s /\ y = p \o b
  OBVIOUS
<1> HIDE DEF a, b, x, y
<1>3. /\ x \in Seq(S) /\ Len(x) = (Len(p) + Len(q)) + Len(s)
      /\ \A k \in 1..Len(p) + Len(q) : x[k] = a[k]
      /\ \A k \in (Len(p) + Len(q)) + 1..(Len(p) + Len(q)) + Len(s) : x[k] = s[k - (Len(p) + Len(q))]
  <2>1. /\ x \in Seq(S) /\ Len(x) = Len(a) + Len(s)
        /\ \A k \in 1..Len(a) : x[k] = a[k]
        /\ \A k \in Len(a) + 1..Len(a) + Len(s) : x[k] = s[k - Len(a)]
    <3>1. a \in Seq(S) /\ x = a \o s
      BY <1>1, <1>2
    <3>2. QED
      BY <3>1, ConcatIs
  <2>2. QED
    BY <2>1, <1>1
<1>4. /\ y \in Seq(S) /\ Len(y) = Len(p) + (Len(q) + Len(s))
      /\ \A k \in 1..Len(p) : y[k] = p[k]
      /\ \A k \in Len(p) + 1..Len(p) + (Len(q) + Len(s)) : y[k] = b[k - Len(p)]
  BY <1>1, <1>2
<1>5. Len(x) = Len(y)
  BY <1>1, <1>3, <1>4
<1>6. ASSUME NEW k \in 1..Len(y)
      PROVE  x[k] = y[k]
  <2>1. k \in Nat /\ k >= 1 /\ k <= Len(p) + (Len(q) + Len(s))
    BY <1>1, <1>4
  <2>2. CASE k <= Len(p)
    BY <2>1, <2>2, <1>1, <1>3, <1>4
  <2>3. CASE k > Len(p) /\ k <= Len(p) + Len(q)
    <3>1. k \in 1..Len(p) + Len(q) /\ k \in Len(p) + 1..Len(p) + Len(q)
          /\ k \in Len(p) + 1..Len(p) + (Len(q) + Len(s)) /\ k - Len(p) \in 1..Len(q)
      BY <2>1, <2>3, <1>1
    <3>2. x[k] = a[k] /\ a[k] = q[k - Len(p)]
      BY <3>1, <1>1, <1>3
    <3>3. y[k] = b[k - Len(p)] /\ b[k - Len(p)] = q[k - Len(p)]
      BY <3>1, <1>1, <1>4
    <3>4. QED
      BY <3>2, <3>3
  <2>4. CASE k > Len(p) + Len(q)
    <3> DEFINE j == k - Len(p)
    <3>1. k \in (Len(p) + Len(q)) + 1..(Len(p) + Len(q)) + Len(s)
          /\ k \in Len(p) + 1..Len(p) + (Len(q) + Len(s))
          /\ j \in Len(q) + 1..Len(q) + Len(s) /\ j - Len(q) = k - (Len(p) + Len(q))
      BY <2>1, <2>4, <1>1
    <3>2. x[k] = s[k - (Len(p) + Len(q))]
      BY <3>1, <1>3
    <3>3. y[k] = b[j] /\ b[j] = s[j - Len(q)]
      BY <3>1, <1>1, <1>4
    <3>4. s[j - Len(q)] = s[k - (Len(p) + Len(q))]
      BY <3>1
    <3>5. QED
      BY <3>2, <3>3, <3>4
  <2>5. QED
    BY <2>1, <2>2, <2>3, <2>4, <1>1
<1>7. x = y
  BY <1>3, <1>4, <1>5, <1>6, SeqEqual
<1>8. QED
  BY <1>1, <1>7 DEF x, y, a, b

LEMMA NothingBefore ==
  ASSUME NEW S, NEW s \in Seq(S)
  PROVE  <<>> \o s = s /\ s \o <<>> = s
OBVIOUS

(* What the hub has read, what waits for it and what is still to come are   *)
(* together the stream, when no other stream and no loss came between.      *)
InHand == Kept(reports) \o (Kept(pipe) \o unsent)

StreamAccounted ==
  /\ lost \in Nat
  /\ hub = "asking" => pipe = <<>> /\ reports = <<>> /\ (overlapped \/ unsent = <<>>)
  /\ hub # "asking" /\ ~overlapped /\ lost = 0 => InHand = StreamOf(manifest)

LEMMA AccountedBegins ==
  ASSUME QueryInit
  PROVE  StreamAccounted
<1>1. lost = 0 /\ hub = "asking" /\ pipe = <<>> /\ reports = <<>> /\ overlapped = (unsent # <<>>)
  BY DEF QueryInit
<1>2. QED
  BY <1>1 DEF StreamAccounted

LEMMA AccountedOpen ==
  ASSUME Open
  PROVE  StreamAccounted'
<1>1. lost' = 0 /\ hub' = "asking" /\ pipe' = <<>> /\ reports' = <<>> /\ overlapped' = (unsent' # <<>>)
  BY DEF Open
<1>2. QED
  BY <1>1 DEF StreamAccounted

LEMMA AccountedAsk ==
  ASSUME FromTheDevice, StreamAccounted, Ask
  PROVE  StreamAccounted'
<1> DEFINE s == StreamOf(manifest)
<1>1. /\ hub = "asking" /\ hub' = "draining" /\ unsent' = unsent \o s
      /\ manifest' = manifest /\ pipe' = pipe /\ reports' = reports /\ overlapped' = overlapped /\ lost' = lost
  BY DEF Ask
<1>2. s \in Seq(Parts(manifest))
  BY StreamType DEF StreamOf, FromTheDevice
<1>3. ASSUME ~overlapped
      PROVE  InHand' = s
  <2>1. pipe = <<>> /\ reports = <<>> /\ unsent = <<>>
    BY <1>1, <1>3 DEF StreamAccounted
  <2>2. InHand' = Kept(<<>>) \o (Kept(<<>>) \o (<<>> \o s))
    BY <1>1, <2>1, Zenon DEF InHand
  <2>3. InHand' = <<>> \o (<<>> \o (<<>> \o s))
    BY <2>2, KeptEmpty, Zenon
  <2> HIDE DEF s
  <2>4. <<>> \o s = s
    BY <1>2, NothingBefore
  <2>5. QED
    BY <2>3, <2>4, Zenon
<1>4. StreamOf(manifest)' = s
  BY <1>1, Zenon
<1>5. lost' \in Nat /\ hub' # "asking"
  BY <1>1 DEF StreamAccounted
<1>6. overlapped' => overlapped
  BY <1>1
<1>7. ~overlapped' => InHand' = StreamOf(manifest)'
  BY <1>1, <1>3, <1>4, Zenon
<1>8. QED
  BY <1>5, <1>7 DEF StreamAccounted

LEMMA AccountedSends ==
  ASSUME FromTheDevice, StreamAccounted, DeviceSends
  PROVE  StreamAccounted'
<1> DEFINE P == Parts(manifest)
           W == Wire(manifest)
           k == Kept(pipe)
<1>1. /\ hub = "draining" /\ unsent # <<>> /\ unsent' = Tail(unsent)
      /\ \/ pipe' = Append(pipe, Head(unsent)) /\ lost' = lost
         \/ lost' = lost + 1
      /\ manifest' = manifest /\ hub' = hub /\ reports' = reports /\ overlapped' = overlapped
  BY DEF DeviceSends
<1>2. lost \in Nat /\ lost' \in Nat /\ (lost' = 0 => lost = 0 /\ pipe' = Append(pipe, Head(unsent)))
  BY <1>1 DEF StreamAccounted
<1>3. unsent \in Seq(P) /\ k \in Seq(P) /\ pipe \in Seq(W)
  BY KeptType DEF FromTheDevice
<1>4. Head(unsent) \in P
  <2> HIDE DEF P, k, W
  <2>1. QED
    BY <1>1, <1>3
<1>5. ASSUME pipe' = Append(pipe, Head(unsent))
      PROVE  InHand' = InHand
  <2>1. Head(unsent) \in Wire(manifest)
    BY <1>4 DEF Wire
  <2>2. Kept(Append(pipe, Head(unsent))) = Append(k, Head(unsent))
    BY <1>3, <1>4, <2>1, KeptAppend
  <2>3. InHand' = Kept(reports) \o (Append(k, Head(unsent)) \o Tail(unsent))
    BY <1>1, <1>5, <2>2, Zenon DEF InHand
  <2>4. Append(k, Head(unsent)) \o Tail(unsent) = k \o unsent
    <3> HIDE DEF P, k, W
    <3>1. QED
      BY <1>1, <1>3, HeadMoves
  <2>5. QED
    BY <2>3, <2>4, Zenon DEF InHand
<1>6. ASSUME ~overlapped, lost' = 0
      PROVE  InHand' = StreamOf(manifest)'
  <2>1. lost = 0 /\ hub # "asking" /\ pipe' = Append(pipe, Head(unsent))
    BY <1>1, <1>2, <1>6
  <2>2. InHand = StreamOf(manifest)
    BY <1>6, <2>1 DEF StreamAccounted
  <2>3. StreamOf(manifest)' = StreamOf(manifest)
    BY <1>1, Zenon
  <2>4. QED
    BY <2>1, <2>2, <2>3, <1>5, Zenon
<1>7. ~overlapped' /\ lost' = 0 => InHand' = StreamOf(manifest)'
  BY <1>1, <1>6, Zenon
<1>8. lost' \in Nat /\ hub' # "asking"
  BY <1>1, <1>2
<1>9. QED
  BY <1>7, <1>8 DEF StreamAccounted

LEMMA AccountedOther ==
  ASSUME FromTheDevice, StreamAccounted, OtherReport
  PROVE  StreamAccounted'
<1>1. /\ hub = "draining" /\ hub' = hub /\ pipe' = Append(pipe, Other) /\ unsent' = unsent
      /\ manifest' = manifest /\ reports' = reports /\ overlapped' = overlapped /\ lost' = lost
  BY DEF OtherReport, Other
<1>2. Kept(Append(pipe, Other)) = Kept(pipe)
  BY KeptAppend DEF Wire, FromTheDevice
<1>3. InHand' = InHand /\ StreamOf(manifest)' = StreamOf(manifest)
  BY <1>1, <1>2, Zenon DEF InHand
<1>4. hub' # "asking" /\ lost' \in Nat
  BY <1>1 DEF StreamAccounted
<1>5. ~overlapped' /\ lost' = 0 => InHand = StreamOf(manifest)
  BY <1>1 DEF StreamAccounted
<1>6. ~overlapped' /\ lost' = 0 => InHand' = StreamOf(manifest)'
  BY <1>3, <1>5, Zenon
<1>7. QED
  BY <1>4, <1>6 DEF StreamAccounted

LEMMA AccountedRead ==
  ASSUME FromTheDevice, StreamAccounted, Read
  PROVE  StreamAccounted'
<1> DEFINE P == Parts(manifest)
           W == Wire(manifest)
           k == Kept(reports)
           h == Kept(<<Head(pipe)>>)
           t == Kept(Tail(pipe))
<1>1. /\ hub = "draining" /\ hub' = hub /\ pipe # <<>>
      /\ reports' = Append(reports, Head(pipe)) /\ pipe' = Tail(pipe) /\ unsent' = unsent
      /\ manifest' = manifest /\ overlapped' = overlapped /\ lost' = lost
  BY DEF Read
<1>2. /\ manifest \in Seq(Strings) /\ unsent \in Seq(P) /\ reports \in Seq(W) /\ pipe \in Seq(W)
  BY DEF FromTheDevice
<1>3. /\ Tail(pipe) \in Seq(W) /\ <<Head(pipe)>> \in Seq(W)
      /\ pipe = <<Head(pipe)>> \o Tail(pipe)
      /\ Append(reports, Head(pipe)) = reports \o <<Head(pipe)>>
  <2> HIDE DEF P, W
  <2>1. Head(pipe) \in W /\ Tail(pipe) \in Seq(W)
    BY <1>1, <1>2
  <2>2. Append(<<>>, Head(pipe)) \o Tail(pipe) = <<>> \o pipe
    BY <1>1, <1>2, HeadMoves
  <2>3. <<>> \o pipe = pipe /\ Append(<<>>, Head(pipe)) = <<Head(pipe)>>
    BY <1>2, <2>1
  <2>4. pipe = <<Head(pipe)>> \o Tail(pipe)
    BY <2>2, <2>3, Zenon
  <2>5. Append(reports, Head(pipe)) = reports \o <<Head(pipe)>>
    BY <1>2, <2>1
  <2>6. QED
    BY <2>1, <2>4, <2>5
<1>4. /\ Kept(<<Head(pipe)>> \o Tail(pipe)) = h \o t
      /\ Kept(reports \o <<Head(pipe)>>) = k \o h
  BY <1>2, <1>3, KeptConcat
<1>5. k \in Seq(P) /\ h \in Seq(P) /\ t \in Seq(P)
  BY <1>2, <1>3, KeptType
<1>6. Kept(pipe) = h \o t
  BY <1>3, <1>4, Zenon
<1>7. InHand' = (k \o h) \o (t \o unsent)
  BY <1>1, <1>3, <1>4, Zenon DEF InHand
<1>8. InHand = k \o ((h \o t) \o unsent)
  BY <1>6, Zenon DEF InHand
<1>9. InHand' = InHand
  <2> HIDE DEF k, h, t, P
  <2>0. \A a, b, c \in Seq(P) : (a \o b) \o c = a \o (b \o c) /\ b \o c \in Seq(P)
    BY ConcatAssociates
  <2>1. (h \o t) \o unsent = h \o (t \o unsent) /\ t \o unsent \in Seq(P)
    BY <1>2, <1>5, <2>0, Zenon
  <2>2. (k \o h) \o (t \o unsent) = k \o (h \o (t \o unsent))
    BY <2>1, <1>5, <2>0, Zenon
  <2>3. QED
    BY <1>7, <1>8, <2>1, <2>2, Zenon
<1>10. hub' # "asking" /\ lost' \in Nat /\ StreamOf(manifest)' = StreamOf(manifest)
  BY <1>1, Zenon DEF StreamAccounted
<1>11. ~overlapped' /\ lost' = 0 => InHand = StreamOf(manifest)
  BY <1>1 DEF StreamAccounted
<1>12. ~overlapped' /\ lost' = 0 => InHand' = StreamOf(manifest)'
  BY <1>9, <1>10, <1>11, Zenon
<1>13. QED
  BY <1>10, <1>12 DEF StreamAccounted

LEMMA AccountedSame ==
  ASSUME StreamAccounted, UNCHANGED <<manifest, unsent, pipe, reports, overlapped, lost>>,
         hub' = hub \/ (hub = "draining" /\ hub' # "asking")
  PROVE  StreamAccounted'
<1>1. InHand' = InHand /\ StreamOf(manifest)' = StreamOf(manifest)
  BY Zenon DEF InHand
<1>2. hub' = "asking" => hub = "asking"
  OBVIOUS
<1>3. hub' # "asking" => hub # "asking"
  OBVIOUS
<1>4. hub' # "asking" /\ ~overlapped' /\ lost' = 0 => InHand = StreamOf(manifest)
  BY <1>3 DEF StreamAccounted
<1>5. hub' # "asking" /\ ~overlapped' /\ lost' = 0 => InHand' = StreamOf(manifest)'
  BY <1>1, <1>4, Zenon
<1>6. /\ lost' \in Nat
      /\ hub' = "asking" => pipe' = <<>> /\ reports' = <<>> /\ (overlapped' \/ unsent' = <<>>)
  BY <1>2 DEF StreamAccounted
<1>7. QED
  BY <1>5, <1>6 DEF StreamAccounted

LEMMA AccountedInvariant == StartSpec => []StreamAccounted
<1>1. StartInit => StreamAccounted
  BY AccountedBegins DEF StartInit
<1>2. FromTheDevice /\ StreamAccounted /\ [StartNext]_startVars => StreamAccounted'
  <2> SUFFICES ASSUME FromTheDevice, StreamAccounted, [StartNext]_startVars
               PROVE  StreamAccounted'
    OBVIOUS
  <2>1. CASE Open
    BY <2>1, AccountedOpen
  <2>2. CASE Query
    <3>1. CASE Ask
      BY <3>1, AccountedAsk
    <3>2. CASE DeviceSends
      BY <3>2, AccountedSends
    <3>3. CASE OtherReport
      BY <3>3, AccountedOther
    <3>4. CASE Read
      BY <3>4, AccountedRead
    <3>5. CASE Tick \/ StopDraining \/ ReadFails
      BY <3>5, AccountedSame DEF Tick, StopDraining, ReadFails
    <3>6. QED
      BY <2>2, <3>1, <3>2, <3>3, <3>4, <3>5 DEF Query, QueryNext
  <2>3. CASE UNCHANGED queryVars
    BY <2>3, AccountedSame DEF queryVars
  <2>4. QED
    BY <2>1, <2>2, <2>3 DEF StartNext, Look, Return, OpenFails, startVars
<1>3. QED
  BY <1>1, <1>2, FromTheDeviceInvariant, PTL DEF StartSpec

(* However early drain() ends, query_manifest() lists a beginning of the    *)
(* device's capabilities, of which the last may have lost its end           *)
(* (hid_viz_hub.py:125-183).                                                *)
THEOREM EarlyEnd == StartSpec => []EarlyEndOnlyTruncates
<1>1. FromTheDevice /\ StreamAccounted => EarlyEndOnlyTruncates
  <2> SUFFICES ASSUME FromTheDevice, StreamAccounted, Ended, ~overlapped, lost = 0
               PROVE  OnlyTruncated(HostCaps(reports), SaidCaps(manifest))
    BY DEF EarlyEndOnlyTruncates, OnlyTruncated, HostManifest, Said
  <2> DEFINE q == Kept(pipe) \o unsent
  <2>1. Kept(reports) \o q = StreamOf(manifest)
    BY DEF StreamAccounted, Ended, InHand
  <2>2. manifest \in Seq(Strings) /\ reports \in Seq(Wire(manifest))
    BY DEF FromTheDevice
  <2>3. q \in Seq(Parts(manifest))
    <3> DEFINE P == Parts(manifest)
               k == Kept(pipe)
    <3>1. k \in Seq(P) /\ unsent \in Seq(P)
      BY KeptType DEF FromTheDevice
    <3> HIDE DEF P, k
    <3>2. k \o unsent \in Seq(P)
      BY <3>1
    <3>3. QED
      BY <3>2 DEF k, P
  <2> HIDE DEF q
  <2>4. KnowsSome(manifest, reports)
    BY <2>1, <2>2, <2>3, BeginningKnown
  <2>5. QED
    BY <2>2, <2>4, KnownTruncated
<1>2. QED
  BY <1>1, FromTheDeviceInvariant, AccountedInvariant, PTL

-----------------------------------------------------------------------------
(***************************************************************************)
(* The query's types and its timing.                                       *)
(***************************************************************************)
(* Every variable of the query has its type, for every manifest and bound.  *)
THEOREM QueryTypeCorrect == StartSpec => []QueryTypeOK
<1> USE QueryAssumption
<1>1. ASSUME QueryInit
      PROVE  QueryTypeOK
  <2>1. /\ manifest \in Manifests /\ hub = "asking" /\ used = FALSE
        /\ now = 0 /\ last_rx = 0 /\ lost = 0 /\ others = 0
    BY <1>1 DEF QueryInit
  <2>2. overlapped \in BOOLEAN /\ used \in BOOLEAN
    BY <1>1, Zenon DEF QueryInit
  <2>3. /\ hub \in {"asking", "draining", "done", "failed"}
        /\ now \in 0..Settle + 1 /\ last_rx \in 0..Settle
        /\ lost \in 0..MaxLost /\ others \in 0..MaxOthers
    BY <2>1
  <2>4. QED
    BY <2>1, <2>2, <2>3, Zenon DEF QueryTypeOK
<1>2. ASSUME Open
      PROVE  QueryTypeOK'
  <2>1. /\ manifest' \in Manifests /\ hub' = "asking" /\ used' = FALSE
        /\ now' = 0 /\ last_rx' = 0 /\ lost' = 0 /\ others' = 0
    BY <1>2 DEF Open
  <2>2. overlapped' \in BOOLEAN /\ used' \in BOOLEAN
    BY <1>2, Zenon DEF Open
  <2>3. /\ hub' \in {"asking", "draining", "done", "failed"}
        /\ now' \in 0..Settle + 1 /\ last_rx' \in 0..Settle
        /\ lost' \in 0..MaxLost /\ others' \in 0..MaxOthers
    BY <2>1
  <2>4. QED
    BY <2>1, <2>2, <2>3, Zenon DEF QueryTypeOK
<1>3. ASSUME QueryTypeOK, QueryNext
      PROVE  QueryTypeOK'
  <2>1. /\ manifest \in Manifests /\ hub \in {"asking", "draining", "done", "failed"}
        /\ now \in 0..Settle + 1 /\ last_rx \in 0..Settle /\ lost \in 0..MaxLost /\ others \in 0..MaxOthers
    BY <1>3 DEF QueryTypeOK
  <2>2. used \in BOOLEAN /\ overlapped \in BOOLEAN
    BY <1>3 DEF QueryTypeOK
  <2>3. used' \in BOOLEAN /\ overlapped' \in BOOLEAN
    BY <2>2, <1>3, Zenon
       DEF QueryNext, Ask, DeviceSends, OtherReport, Tick, Read, StopDraining, ReadFails
  <2>4. /\ manifest' \in Manifests /\ hub' \in {"asking", "draining", "done", "failed"}
        /\ now' \in 0..Settle + 1 /\ last_rx' \in 0..Settle /\ lost' \in 0..MaxLost /\ others' \in 0..MaxOthers
    <3>1. CASE Ask
      BY <3>1, <2>1 DEF Ask
    <3>2. CASE DeviceSends
      <4>1. lost' = lost \/ (lost < MaxLost /\ lost' = lost + 1)
        BY <3>2 DEF DeviceSends
      <4>2. lost' \in 0..MaxLost
        BY <4>1, <2>1
      <4>3. QED
        BY <4>2, <3>2, <2>1 DEF DeviceSends
    <3>3. CASE OtherReport
      BY <3>3, <2>1 DEF OtherReport
    <3>4. CASE Tick
      BY <3>4, <2>1 DEF Tick
    <3>5. CASE Read
      BY <3>5, <2>1 DEF Read, SettledBy
    <3>6. CASE StopDraining \/ ReadFails
      BY <3>6, <2>1 DEF StopDraining, ReadFails
    <3>7. QED
      BY <3>1, <3>2, <3>3, <3>4, <3>5, <3>6, <1>3 DEF QueryNext
  <2>5. QED
    BY <2>3, <2>4 DEF QueryTypeOK
<1>4. StartInit => QueryTypeOK
  BY <1>1 DEF StartInit
<1>5. QueryTypeOK /\ [StartNext]_startVars => QueryTypeOK'
  <2> SUFFICES ASSUME QueryTypeOK, [StartNext]_startVars
               PROVE  QueryTypeOK'
    OBVIOUS
  <2>1. CASE Open
    BY <2>1, <1>2
  <2>2. CASE Query
    BY <2>2, <1>3 DEF Query
  <2>3. CASE UNCHANGED queryVars
    BY <2>3, Zenon DEF queryVars, QueryTypeOK
  <2>4. QED
    BY <2>1, <2>2, <2>3 DEF StartNext, Look, Return, OpenFails, startVars
<1>6. QED
  BY <1>4, <1>5, PTL DEF StartSpec

(* What is still to come, or has still to be read, has its slots: one for   *)
(* each report sent so far and to come.  And as long as the device has      *)
(* something to send the hub does not wait a whole slot in vain.            *)
Undisturbed == ~overlapped /\ lost = 0
Outstanding == unsent # <<>> \/ Kept(pipe) # <<>>
Slots == Len(StreamOf(manifest)) + others

Asking == hub = "asking" => now = 0 /\ last_rx = 0 /\ ~used /\ lost = 0 /\ others = 0 /\ pipe = <<>>
Steady ==
  hub = "draining" /\ Undisturbed =>
    /\ Outstanding => (now + Len(unsent) <= Slots /\ (used => now + 1 + Len(unsent) <= Slots))
    /\ unsent # <<>> => last_rx + 1 >= now /\ (used /\ pipe = <<>> => last_rx = now)
Taken == hub = "done" /\ Undisturbed /\ Slots <= Settle => ~Outstanding

Timing == Asking /\ Steady /\ Taken

LEMMA TimingBegins ==
  ASSUME QueryInit
  PROVE  Timing
BY DEF QueryInit, Timing, Asking, Steady, Taken

LEMMA TimingOpen ==
  ASSUME Open
  PROVE  Timing'
BY DEF Open, Timing, Asking, Steady, Taken

(* Types as the proofs about time use them.                                 *)
Clocked ==
  /\ now \in Nat /\ last_rx \in Nat /\ others \in Nat /\ lost \in Nat
  /\ Len(StreamOf(manifest)) \in Nat /\ Len(unsent) \in Nat
  /\ Settle \in Nat \ {0} /\ Idle \in Nat \ {0}

LEMMA ClockedAlways ==
  ASSUME FromTheDevice, QueryTypeOK
  PROVE  Clocked
<1>1. StreamOf(manifest) \in Seq(Parts(manifest)) /\ unsent \in Seq(Parts(manifest))
  BY StreamType DEF FromTheDevice, StreamOf
<1>2. Len(StreamOf(manifest)) \in Nat /\ Len(unsent) \in Nat
  <2> DEFINE s == StreamOf(manifest)
             P == Parts(manifest)
  <2>1. s \in Seq(P) /\ unsent \in Seq(P)
    BY <1>1
  <2> HIDE DEF s, P
  <2>2. Len(s) \in Nat /\ Len(unsent) \in Nat
    BY <2>1
  <2>3. QED
    BY <2>2 DEF s
<1>3. now \in Nat /\ last_rx \in Nat /\ others \in Nat /\ lost \in Nat
  BY QueryAssumption DEF QueryTypeOK
<1>4. QED
  BY <1>2, <1>3, QueryAssumption DEF Clocked

LEMMA TimingAsk ==
  ASSUME FromTheDevice, StreamAccounted, Clocked, Timing, Ask
  PROVE  Timing'
<1> DEFINE s == StreamOf(manifest)
<1>1. /\ hub = "asking" /\ hub' = "draining" /\ unsent' = unsent \o s
      /\ UNCHANGED <<manifest, pipe, used, reports, now, last_rx, overlapped, lost, others>>
  BY DEF Ask
<1>2. now = 0 /\ last_rx = 0 /\ ~used /\ others = 0 /\ (overlapped \/ unsent = <<>>)
  BY <1>1 DEF Timing, Asking, StreamAccounted
<1>3. s \in Seq(Parts(manifest))
  BY StreamType DEF StreamOf, FromTheDevice
<1>4. ~overlapped => unsent' = s
  <2> HIDE DEF s
  <2>1. <<>> \o s = s
    BY <1>3, NothingBefore
  <2>2. ~overlapped => unsent' = <<>> \o s
    BY <1>1, <1>2, Zenon
  <2>3. QED
    BY <2>1, <2>2, Zenon
<1>5. Slots' = Len(s) + others'
  BY <1>1, Zenon DEF Slots
<1>6. Len(s) \in Nat
  BY DEF Clocked
<1>7. ~overlapped => Len(unsent') = Len(s)
  BY <1>4, Zenon
<1>8. now' = 0 /\ last_rx' = 0 /\ ~used' /\ others' = 0
  BY <1>1, <1>2
<1> HIDE DEF s
<1>9. Steady'
  <2> SUFFICES ASSUME Undisturbed'
               PROVE  /\ now' + Len(unsent') <= Slots' /\ ~used'
                      /\ last_rx' + 1 >= now'
    BY <1>8 DEF Steady
  <2>1. Len(unsent') = Len(s)
    BY <1>1, <1>7 DEF Undisturbed
  <2>2. QED
    BY <2>1, <1>5, <1>6, <1>8
<1>10. QED
  BY <1>1, <1>9 DEF Timing, Asking, Taken

LEMMA TimingSends ==
  ASSUME FromTheDevice, Clocked, Timing, DeviceSends
  PROVE  Timing'
<1>1. /\ hub = "draining" /\ unsent # <<>> /\ unsent' = Tail(unsent) /\ used' = TRUE
      /\ (pipe' = Append(pipe, Head(unsent)) /\ lost' = lost) \/ lost' = lost + 1
      /\ UNCHANGED <<manifest, hub, reports, now, last_rx, overlapped, others>>
  BY DEF DeviceSends
<1>2. Len(unsent) \in Nat \ {0} /\ Len(unsent') = Len(unsent) - 1
  <2> DEFINE P == Parts(manifest)
  <2>1. unsent \in Seq(P)
    BY DEF FromTheDevice
  <2> HIDE DEF P
  <2>2. QED
    BY <2>1, <1>1
<1>3. Slots' = Slots /\ Slots \in Nat
  <2>1. Slots' = Slots
    BY <1>1, Zenon DEF Slots
  <2>2. QED
    BY <2>1 DEF Slots, Clocked
<1>4. pipe' = Append(pipe, Head(unsent)) => pipe' # <<>>
  <2> DEFINE W == Wire(manifest)
  <2>1. pipe \in Seq(W)
    BY DEF FromTheDevice
  <2> HIDE DEF W
  <2>2. QED
    BY <2>1
<1>5. Steady'
  <2> SUFFICES ASSUME Undisturbed'
               PROVE  /\ now' + Len(unsent') <= Slots' /\ now' + 1 + Len(unsent') <= Slots'
                      /\ last_rx' + 1 >= now' /\ pipe' # <<>>
    BY DEF Steady
  <2>1. lost' = 0 /\ lost \in Nat
    BY DEF Undisturbed, Clocked
  <2>2. lost = 0 /\ pipe' = Append(pipe, Head(unsent))
    BY <1>1, <2>1
  <2>3. Undisturbed /\ Outstanding
    BY <1>1, <2>2 DEF Undisturbed, Outstanding
  <2>4. now + Len(unsent) <= Slots /\ last_rx + 1 >= now
    BY <1>1, <2>3 DEF Timing, Steady
  <2>5. now \in Nat /\ now' = now /\ last_rx' = last_rx
    BY <1>1 DEF Clocked
  <2>6. QED
    BY <2>2, <2>4, <2>5, <1>2, <1>3, <1>4
<1>6. QED
  BY <1>1, <1>5 DEF Timing, Asking, Taken

LEMMA TimingOther ==
  ASSUME FromTheDevice, Clocked, Timing, OtherReport
  PROVE  Timing'
<1>1. /\ hub = "draining" /\ others' = others + 1 /\ used' = TRUE /\ pipe' = Append(pipe, Other)
      /\ UNCHANGED <<manifest, unsent, hub, reports, now, last_rx, overlapped, lost>>
  BY DEF OtherReport, Other
<1>2. Kept(pipe') = Kept(pipe) /\ pipe' # <<>>
  <2>1. Kept(Append(pipe, Other)) = Kept(pipe)
    BY KeptAppend DEF Wire, FromTheDevice
  <2>2. pipe' # <<>>
    <3> DEFINE W == Wire(manifest)
    <3>1. pipe \in Seq(W)
      BY DEF FromTheDevice
    <3> HIDE DEF W
    <3>2. QED
      BY <3>1, <1>1
  <2>3. QED
    BY <1>1, <2>1, <2>2, Zenon
<1>3. Outstanding' = Outstanding /\ Undisturbed' = Undisturbed
  BY <1>1, <1>2, Zenon DEF Outstanding, Undisturbed
<1>4. Slots' = Slots + 1 /\ Slots \in Nat
  <2>1. Slots' = Len(StreamOf(manifest)) + others'
    BY <1>1, Zenon DEF Slots
  <2>2. QED
    BY <1>1, <2>1 DEF Slots, Clocked
<1>5. Steady'
  <2> SUFFICES ASSUME Undisturbed'
               PROVE  /\ Outstanding' => now' + Len(unsent') <= Slots' /\ now' + 1 + Len(unsent') <= Slots'
                      /\ unsent' # <<>> => last_rx' + 1 >= now' /\ pipe' # <<>>
    BY DEF Steady
  <2>1. /\ Outstanding => now + Len(unsent) <= Slots
        /\ unsent # <<>> => last_rx + 1 >= now
    BY <1>1, <1>3 DEF Timing, Steady
  <2>2. Outstanding' => now' + Len(unsent') <= Slots' /\ now' + 1 + Len(unsent') <= Slots'
    BY <2>1, <1>1, <1>3, <1>4 DEF Clocked
  <2>3. QED
    BY <2>1, <2>2, <1>1, <1>2
<1>6. QED
  BY <1>1, <1>5 DEF Timing, Asking, Taken

LEMMA TimingTick ==
  ASSUME FromTheDevice, Clocked, Timing, Tick
  PROVE  Timing'
<1>1. /\ hub = "draining" /\ (unsent # <<>> => used) /\ pipe = <<>> /\ now' = now + 1 /\ used' = FALSE
      /\ UNCHANGED <<manifest, unsent, pipe, hub, reports, last_rx, overlapped, lost, others>>
  BY DEF Tick
<1>2. /\ Outstanding' <=> Outstanding
      /\ Undisturbed' <=> Undisturbed
      /\ Slots' = Slots
  BY <1>1, Zenon DEF Outstanding, Undisturbed, Slots
<1>3. Outstanding => unsent # <<>>
  <2>1. Kept(pipe) = <<>>
    BY <1>1, KeptEmpty, Zenon
  <2>2. QED
    BY <2>1 DEF Outstanding
<1>4. Steady'
  <2> SUFFICES ASSUME Undisturbed'
               PROVE  /\ Outstanding' => now' + Len(unsent') <= Slots'
                      /\ unsent' # <<>> => last_rx' + 1 >= now'
    BY <1>1 DEF Steady
  <2>1. /\ Outstanding => used /\ now + 1 + Len(unsent) <= Slots
        /\ unsent # <<>> => last_rx = now
    BY <1>1, <1>2, <1>3 DEF Timing, Steady
  <2>2. QED
    BY <2>1, <1>1, <1>2 DEF Clocked
<1>5. QED
  BY <1>1, <1>4 DEF Timing, Asking, Taken

LEMMA TimingRead ==
  ASSUME FromTheDevice, Clocked, Timing, Read
  PROVE  Timing'
<1>1. /\ hub = "draining" /\ pipe # <<>> /\ pipe' = Tail(pipe) /\ last_rx' = now
      /\ UNCHANGED <<manifest, unsent, used, hub, now, overlapped, lost, others>>
  BY DEF Read
<1>2. /\ Undisturbed' <=> Undisturbed
      /\ Slots' = Slots
  BY <1>1, Zenon DEF Undisturbed, Slots
<1>3. Kept(pipe) = <<>> => Kept(pipe') = <<>>
  <2> DEFINE W == Wire(manifest)
             P == Parts(manifest)
             h == Kept(<<Head(pipe)>>)
             t == Kept(Tail(pipe))
  <2>1. pipe \in Seq(W)
    BY DEF FromTheDevice
  <2>2. <<Head(pipe)>> \in Seq(W) /\ Tail(pipe) \in Seq(W) /\ pipe = <<Head(pipe)>> \o Tail(pipe)
    <3> HIDE DEF W
    <3>1. Head(pipe) \in W /\ Tail(pipe) \in Seq(W)
      BY <1>1, <2>1
    <3>2. Append(<<>>, Head(pipe)) \o Tail(pipe) = <<>> \o pipe
      BY <1>1, <2>1, HeadMoves
    <3>3. <<>> \o pipe = pipe /\ Append(<<>>, Head(pipe)) = <<Head(pipe)>>
      BY <2>1, <3>1
    <3>4. pipe = <<Head(pipe)>> \o Tail(pipe)
      BY <3>2, <3>3, Zenon
    <3>5. QED
      BY <3>1, <3>4
  <2>3. Kept(<<Head(pipe)>> \o Tail(pipe)) = h \o t /\ h \in Seq(P) /\ t \in Seq(P)
    BY <2>2, KeptConcat, KeptType
  <2>4. Kept(pipe) = h \o t
    BY <2>2, <2>3, Zenon
  <2>5. h \o t = <<>> => t = <<>>
    <3> HIDE DEF h, t, P
    <3>1. Len(h) \in Nat /\ Len(t) \in Nat /\ Len(h \o t) = Len(h) + Len(t)
      BY <2>3
    <3>2. h \o t = <<>> => Len(h \o t) = 0
      OBVIOUS
    <3>3. QED
      BY <2>3, <3>1, <3>2
  <2>6. Kept(pipe') = t
    BY <1>1, Zenon
  <2>7. QED
    BY <2>4, <2>5, <2>6, Zenon
<1>4. Outstanding' => Outstanding
  BY <1>1, <1>3, Zenon DEF Outstanding
<1>5. Steady'
  <2> SUFFICES ASSUME Undisturbed'
               PROVE  /\ Outstanding' => (now' + Len(unsent') <= Slots' /\ (used' => now' + 1 + Len(unsent') <= Slots'))
                      /\ last_rx' = now'
    BY <1>1 DEF Steady, Clocked
  <2>1. Outstanding => (now + Len(unsent) <= Slots /\ (used => now + 1 + Len(unsent) <= Slots))
    BY <1>1, <1>2 DEF Timing, Steady
  <2>2. QED
    BY <2>1, <1>1, <1>2, <1>4
<1>6. QED
  BY <1>1, <1>5 DEF Timing, Asking, Taken

LEMMA TimingStops ==
  ASSUME FromTheDevice, Clocked, Timing, StopDraining
  PROVE  Timing'
<1>1. /\ hub = "draining" /\ hub' = "done"
      /\ now > Settle \/ (pipe = <<>> /\ now - last_rx > Idle)
      /\ UNCHANGED <<manifest, unsent, pipe, overlapped, lost, others>>
  BY DEF StopDraining, SettledBy, QuietBy
<1>2. /\ Outstanding' <=> Outstanding
      /\ Undisturbed' <=> Undisturbed
      /\ Slots' = Slots
  BY <1>1, Zenon DEF Outstanding, Undisturbed, Slots
<1>3. ASSUME Undisturbed, Slots <= Settle, Outstanding
      PROVE  FALSE
  <2>1. now + Len(unsent) <= Slots /\ (unsent # <<>> => last_rx + 1 >= now)
    BY <1>1, <1>3 DEF Timing, Steady
  <2>2. Slots \in Nat
    BY DEF Slots, Clocked
  <2>3. now <= Settle
    BY <2>1, <2>2, <1>3 DEF Clocked
  <2>4. pipe = <<>> /\ now - last_rx > Idle
    BY <1>1, <2>3 DEF Clocked
  <2>5. Kept(pipe) = <<>>
    BY <2>4, KeptEmpty, Zenon
  <2>6. unsent # <<>>
    BY <1>3, <2>5 DEF Outstanding
  <2>7. QED
    BY <2>1, <2>4, <2>6 DEF Clocked
<1>4. Taken'
  BY <1>2, <1>3 DEF Taken
<1>5. QED
  BY <1>1, <1>4 DEF Timing, Asking, Steady

LEMMA TimingSame ==
  ASSUME Timing, UNCHANGED queryVars
  PROVE  Timing'
<1>1. /\ Outstanding' <=> Outstanding
      /\ Undisturbed' <=> Undisturbed
      /\ Slots' = Slots
  BY Zenon DEF queryVars, Outstanding, Undisturbed, Slots
<1>2. QED
  BY <1>1 DEF queryVars, Timing, Asking, Steady, Taken

LEMMA TimingInvariant == StartSpec => []Timing
<1>1. StartInit => Timing
  BY TimingBegins DEF StartInit
<1>2. FromTheDevice /\ QueryTypeOK /\ StreamAccounted /\ Timing /\ [StartNext]_startVars => Timing'
  <2> SUFFICES ASSUME FromTheDevice, QueryTypeOK, StreamAccounted, Timing, [StartNext]_startVars
               PROVE  Timing'
    OBVIOUS
  <2>0. Clocked
    BY ClockedAlways
  <2>1. CASE Open
    BY <2>1, TimingOpen
  <2>2. CASE Query
    <3>1. CASE Ask
      BY <2>0, <3>1, TimingAsk
    <3>2. CASE DeviceSends
      BY <2>0, <3>2, TimingSends
    <3>3. CASE OtherReport
      BY <2>0, <3>3, TimingOther
    <3>4. CASE Tick
      BY <2>0, <3>4, TimingTick
    <3>5. CASE Read
      BY <2>0, <3>5, TimingRead
    <3>6. CASE StopDraining
      BY <2>0, <3>6, TimingStops
    <3>7. CASE ReadFails
      BY <3>7 DEF ReadFails, Timing, Asking, Steady, Taken
    <3>8. QED
      BY <2>2, <3>1, <3>2, <3>3, <3>4, <3>5, <3>6, <3>7 DEF Query, QueryNext
  <2>3. CASE UNCHANGED queryVars
    BY <2>3, TimingSame
  <2>4. QED
    BY <2>1, <2>2, <2>3 DEF StartNext, Look, Return, OpenFails, startVars
<1>3. QED
  BY <1>1, <1>2, FromTheDeviceInvariant, QueryTypeCorrect, AccountedInvariant, PTL DEF StartSpec

-----------------------------------------------------------------------------
(***************************************************************************)
(* A stream that was read to its end.                                      *)
(***************************************************************************)
LEMMA WholeKnown ==
  ASSUME NEW m \in Seq(Strings)
  PROVE  Knows(m, Len(m), Len(m), StreamOf(m))
<1> DEFINE p == StreamOf(m)
<1>0. Len(m) \in Nat /\ Len(m) \in 0..Len(m) /\ \A k \in 1..Len(m) : m[k] \in Strings
  OBVIOUS
<1>1. StreamTo(m, 0, Len(m) - 1, Len(m)) = p
  BY StreamSteps DEF StreamOf
<1> SUFFICES ASSUME NEW n
             PROVE  /\ n \in Numbers(p) <=> n \in 0..Len(m) - 1
                    /\ n \in Numbers(p) =>
                         /\ HostHeader(p, n) = Header(m[n + 1])
                         /\ HostString(p, n) \in Seq(AnyByte)
                         /\ IsPrefix(HostString(p, n), Bytes(m[n + 1]))
                         /\ n < Len(m) => HostString(p, n) = Bytes(m[n + 1])
  BY DEF Knows
<1>2. ReadsEntries(m, 0, p, Len(m), n)
  <2>1. ReadsEntries(m, 0, StreamTo(m, 0, Len(m) - 1, Len(m)), Len(m), n)
    BY <1>0, StreamRead
  <2>2. QED
    BY <1>1, <2>1, Zenon
<1> HIDE DEF p
<1>3. n \in Numbers(p) <=> n \in 0..Len(m) - 1
  BY <1>2 DEF ReadsEntries
<1>4. ASSUME n \in 0..Len(m) - 1
      PROVE  /\ HostHeader(p, n) = Header(m[n + 1])
             /\ HostString(p, n) \in Seq(AnyByte)
             /\ IsPrefix(HostString(p, n), Bytes(m[n + 1]))
             /\ HostString(p, n) = Bytes(m[n + 1])
  <2> DEFINE s == m[n + 1]
             l == Count(s) * ChunkSize
             b == Bytes(s)
  <2>1. s \in Strings
    BY <1>0, <1>4
  <2>2. Assembled(p, n) = Padded(s, l) /\ HostHeader(p, n) = Header(s)
    BY <1>2, <1>4 DEF ReadsEntries
  <2>3. l \in Nat /\ l >= Length[s]
    BY <2>1, CountCovers
  <2>4. UpToNul(Padded(s, l)) = b
    <3> HIDE DEF s, l, b
    <3>1. QED
      BY <2>1, <2>3, PaddedRead DEF b
  <2>5. HostString(p, n) = b
    BY <2>2, <2>4, Zenon DEF HostString
  <2>6. b \in Seq(AnyByte)
    BY <2>1, BytesType
  <2>7. IsPrefix(b, b)
    <3> DEFINE B == AnyByte
    <3> HIDE DEF b, B
    <3>1. b \in Seq(B)
      BY <2>6 DEF B
    <3>2. QED
      BY <3>1, PrefixOfItself
  <2>8. QED
    BY <2>2, <2>5, <2>6, <2>7, Zenon
<1>5. QED
  BY <1>3, <1>4

(* Of the rows with one header the hub keeps the last, and a manifest names *)
(* one board and one config id.                                             *)
LEMMA LastRead ==
  ASSUME NEW m \in Seq(Strings), NEW r, Knows(m, Len(m), Len(m), r), NEW s \in Strings,
         NEW h, \A t \in Strings : Header(t) = h <=> t = s
  PROVE  LastOf(r, h) = IF s \in ToSet(m) THEN Bytes(s) ELSE NUL
<1> DEFINE H == Headed(r, h)
<1>0. Len(m) \in Nat /\ DOMAIN m = 1..Len(m) /\ \A k \in 1..Len(m) : m[k] \in Strings
  OBVIOUS
<1>1. ASSUME NEW n
      PROVE  n \in H <=> n \in 0..Len(m) - 1 /\ m[n + 1] = s
  <2>1. n \in H <=> n \in Numbers(r) /\ HostHeader(r, n) = h
    BY DEF Headed
  <2>2. n \in Numbers(r) <=> n \in 0..Len(m) - 1
    BY DEF Knows
  <2>3. n \in Numbers(r) => HostHeader(r, n) = Header(m[n + 1])
    BY DEF Knows
  <2>4. n \in 0..Len(m) - 1 => m[n + 1] \in Strings
    BY <1>0
  <2>5. n \in 0..Len(m) - 1 => (Header(m[n + 1]) = h <=> m[n + 1] = s)
    BY <2>4
  <2>6. QED
    BY <2>1, <2>2, <2>3, <2>5, Zenon
<1> HIDE DEF H
<1>2. CASE s \in ToSet(m)
  <2>1. PICK k \in DOMAIN m : m[k] = s
    BY <1>2 DEF ToSet
  <2>2. k - 1 \in 0..Len(m) - 1 /\ (k - 1) + 1 = k
    BY <1>0
  <2>3. k - 1 \in H
    BY <1>1, <2>1, <2>2
  <2>4. H \subseteq 0..Len(m) /\ H # {}
    <3>1. \A n \in H : n \in 0..Len(m)
      BY <1>1, <1>0
    <3>2. QED
      BY <3>1, <2>3
  <2>5. Max(H) \in H
    BY <2>4, <1>0, MaxExists
  <2>6. Max(H) \in 0..Len(m) - 1 /\ m[Max(H) + 1] = s
    BY <1>1, <2>5
  <2> DEFINE x == Max(H)
  <2>7. HostString(r, x) = Bytes(s)
    <3>1. x \in Numbers(r) /\ x < Len(m)
      <4> HIDE DEF x
      <4>1. x \in 0..Len(m) - 1
        BY <2>6 DEF x
      <4>2. QED
        BY <4>1, <1>0 DEF Knows
    <3>2. HostString(r, x) = Bytes(m[x + 1])
      <4> HIDE DEF x
      <4>1. QED
        BY <3>1 DEF Knows
    <3>3. m[x + 1] = s
      BY <2>6
    <3> HIDE DEF x
    <3>4. QED
      BY <3>2, <3>3, Zenon
  <2>8. LastOf(r, h) = HostString(r, x)
    BY <2>4, Zenon DEF LastOf, H
  <2>9. QED
    BY <1>2, <2>7, <2>8, Zenon
<1>3. CASE s \notin ToSet(m)
  <2>1. \A n : n \notin H
    <3> SUFFICES ASSUME NEW n \in H PROVE FALSE
      OBVIOUS
    <3>1. n + 1 \in DOMAIN m /\ m[n + 1] = s
      BY <1>1, <1>0
    <3>2. QED
      BY <3>1, <1>3 DEF ToSet
  <2>2. H = {}
    BY <2>1
  <2>3. QED
    BY <2>2, <1>3, Zenon DEF LastOf, H
<1>4. QED
  BY <1>2, <1>3

LEMMA AllCapsRead ==
  ASSUME NEW m \in Seq(Strings), NEW r, Knows(m, Len(m), Len(m), r)
  PROVE  HostCaps(r) = SaidCaps(m)
<1> DEFINE i == Len(m)
<1>0. i \in Nat /\ i \in 0..Len(m)
  OBVIOUS
<1>1. Knows(m, i, i - 1, r)
  <2>1. \A n : n < i - 1 /\ n \in 0..i - 1 => n < i
    BY <1>0
  <2>2. QED
    BY <2>1 DEF Knows
<1>2. SaidTo(m, i) = SaidCaps(m)
  BY SaidSteps
<1>3. CASE i = 0
  <2>1. HostCaps(r) = <<>>
    BY <1>0, <1>1, <1>3, CapsRead
  <2>2. SaidTo(m, 0) = <<>>
    BY SaidSteps
  <2>3. SaidTo(m, i) = SaidTo(m, 0)
    BY <1>3, Zenon
  <2>4. QED
    BY <1>2, <2>1, <2>2, <2>3, Zenon
<1>4. CASE i > 0
  <2>1. i - 1 \in 0..Len(m) - 1 /\ (i - 1) + 1 = i /\ i - 1 \in 0..i - 1 /\ i - 1 < Len(m)
    BY <1>0, <1>4
  <2>2. HostCaps(r) = SaidTo(m, i - 1) \o (IF m[i] \in Ids THEN <<HostString(r, i - 1)>> ELSE <<>>)
    BY <1>0, <1>1, <1>4, CapsRead
  <2>3. HostString(r, i - 1) = Bytes(m[i])
    <3>1. HostString(r, i - 1) = Bytes(m[(i - 1) + 1])
      BY <2>1 DEF Knows
    <3>2. QED
      BY <2>1, <3>1
  <2>4. SaidTo(m, i) = SaidTo(m, i - 1) \o SaidOf(m, i)
    <3>1. SaidTo(m, (i - 1) + 1) = SaidTo(m, i - 1) \o SaidOf(m, (i - 1) + 1)
      BY <2>1, SaidSteps
    <3>2. QED
      BY <2>1, <3>1
  <2>5. QED
    BY <1>2, <2>2, <2>3, <2>4, Zenon DEF SaidOf
<1>5. QED
  BY <1>0, <1>3, <1>4

LEMMA AllRead ==
  ASSUME NEW m \in Seq(Strings), NEW r, Knows(m, Len(m), Len(m), r)
  PROVE  HostManifest(r) = Said(m)
<1>1. LastOf(r, "name") = IF BoardName \in ToSet(m) THEN Bytes(BoardName) ELSE NUL
  <2>1. BoardName \in Strings
    BY DEF Strings
  <2>2. QED
    BY <2>1, HeaderIs, LastRead
<1>2. LastOf(r, "config id") = IF ConfigId \in ToSet(m) THEN Bytes(ConfigId) ELSE NUL
  <2>1. ConfigId \in Strings
    BY DEF Strings
  <2>2. QED
    BY <2>1, HeaderIs, LastRead
<1>3. HostCaps(r) = SaidCaps(m)
  BY AllCapsRead
<1>4. QED
  BY <1>1, <1>2, <1>3, Zenon DEF HostManifest, Said

(* A query that nothing disturbs, and that fits the hub's window, returns   *)
(* exactly the device's name, config id and capabilities                    *)
(* (hid_viz_hub.py:125-183 against manifest.c:85-183).                      *)
THEOREM WholeRead == StartSpec => []WholeManifestRead
<1>1. FromTheDevice /\ StreamAccounted /\ Timing => WholeManifestRead
  <2> SUFFICES ASSUME FromTheDevice, StreamAccounted, Timing,
                      hub = "done", ~overlapped, lost = 0, Len(StreamOf(manifest)) + others <= Settle
               PROVE  HostManifest(reports) = Said(manifest)
    BY DEF WholeManifestRead
  <2> DEFINE m == manifest
             P == Parts(m)
             k == Kept(reports)
  <2>1. m \in Seq(Strings) /\ reports \in Seq(Wire(m)) /\ k \in Seq(P)
    BY KeptType DEF FromTheDevice
  <2>2. unsent = <<>> /\ Kept(pipe) = <<>>
    BY DEF Timing, Taken, Undisturbed, Slots, Outstanding
  <2>3. k \o (Kept(pipe) \o unsent) = StreamOf(m)
    BY DEF StreamAccounted, InHand
  <2>4. k \o (<<>> \o <<>>) = StreamOf(m)
    BY <2>2, <2>3, Zenon
  <2>5. k = StreamOf(m)
    <3>1. k \o <<>> = k /\ <<>> \o <<>> = <<>>
      <4> HIDE DEF k, P
      <4>1. k \o <<>> = k
        BY <2>1, NothingBefore
      <4>2. <<>> \o <<>> = <<>>
        OBVIOUS
      <4>3. QED
        BY <4>1, <4>2
    <3>2. QED
      BY <2>4, <3>1, Zenon
  <2>6. Knows(m, Len(m), Len(m), k)
    <3>1. Knows(m, Len(m), Len(m), StreamOf(m))
      BY <2>1, WholeKnown
    <3>2. QED
      BY <3>1, <2>5, Zenon
  <2>7. Knows(m, Len(m), Len(m), reports)
    BY <2>1, <2>6, KnowsKept
  <2>8. QED
    BY <2>1, <2>7, AllRead
<1>2. QED
  BY <1>1, FromTheDeviceInvariant, AccountedInvariant, TimingInvariant, PTL
=============================================================================
