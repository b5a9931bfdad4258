-------------------------- MODULE HubBrokerProofs ---------------------------
(***************************************************************************)
(* The hub for any number of devices, any actions and any inboxes: what it *)
(* forwards it forwards once, in order, to those who handle it, nothing it *)
(* has read is forgotten, and every step is one that Broker allows.        *)
(***************************************************************************)
EXTENDS HubBroker, SequenceTheorems, TLAPS

LEMMA InSequence ==
  ASSUME NEW S, NEW s \in Seq(S)
  PROVE  \A e : e \in ToSet(s) <=> \E k \in 1..Len(s) : s[k] = e
<1>1. DOMAIN s = 1..Len(s)
  BY LenProperties
<1>2. QED BY <1>1 DEF ToSet

(* What taking the oldest report from an inbox leaves.                      *)
LEMMA TakeFirst ==
  ASSUME NEW S, NEW s \in Seq(S), s # <<>>
  PROVE  /\ Head(s) = s[1] /\ Head(s) \in S /\ Len(s) \in Nat \ {0}
         /\ Tail(s) \in Seq(S) /\ Len(Tail(s)) = Len(s) - 1
         /\ \A k \in 1..Len(s) - 1 : Tail(s)[k] = s[k + 1]
         /\ ToSet(s) = {Head(s)} \cup ToSet(Tail(s))
<1>1. /\ Head(s) = s[1] /\ Head(s) \in S /\ Len(s) \in Nat \ {0}
      /\ Tail(s) \in Seq(S) /\ Len(Tail(s)) = Len(s) - 1
      /\ \A k \in 1..Len(s) - 1 : Tail(s)[k] = s[k + 1]
  BY HeadTailProperties, EmptySeq, ElementOfSeq
<1>2. ASSUME NEW e, e \in ToSet(s) PROVE e \in {Head(s)} \cup ToSet(Tail(s))
  <2>1. PICK k \in 1..Len(s) : s[k] = e
    BY <1>2, InSequence
  <2>2. CASE k = 1
    BY <1>1, <2>1, <2>2
  <2>3. CASE k # 1
    <3>1. k - 1 \in 1..Len(Tail(s)) /\ Tail(s)[k - 1] = s[(k - 1) + 1] /\ (k - 1) + 1 = k
      BY <1>1, <2>3
    <3>2. QED BY <1>1, <2>1, <3>1, InSequence
  <2>4. QED BY <2>2, <2>3
<1>3. ASSUME NEW e, e \in {Head(s)} \cup ToSet(Tail(s)) PROVE e \in ToSet(s)
  <2>1. CASE e = Head(s)
    <3>1. 1 \in 1..Len(s) /\ s[1] = e
      BY <1>1, <2>1
    <3>2. QED BY <3>1, InSequence
  <2>2. CASE e \in ToSet(Tail(s))
    <3>1. PICK k \in 1..Len(Tail(s)) : Tail(s)[k] = e
      BY <1>1, <2>2, InSequence
    <3>2. k + 1 \in 1..Len(s) /\ s[k + 1] = e
      BY <1>1, <3>1
    <3>3. QED BY <3>2, InSequence
  <2>3. QED BY <1>3, <2>1, <2>2
<1>4. QED BY <1>1, <1>2, <1>3

(* What adding to a sequence gives.                                         *)
LEMMA AddLast ==
  ASSUME NEW S, NEW s \in Seq(S), NEW e \in S
  PROVE  /\ Append(s, e) \in Seq(S) /\ Len(Append(s, e)) = Len(s) + 1
         /\ Append(s, e)[Len(s) + 1] = e
         /\ \A k \in 1..Len(s) : Append(s, e)[k] = s[k]
         /\ Len(s) \in Nat
         /\ ToSet(Append(s, e)) = ToSet(s) \cup {e}
<1>1. /\ Append(s, e) \in Seq(S) /\ Len(Append(s, e)) = Len(s) + 1
      /\ Append(s, e)[Len(s) + 1] = e
      /\ \A k \in 1..Len(s) : Append(s, e)[k] = s[k]
      /\ Len(s) \in Nat
  BY AppendProperties, LenProperties
<1>2. ASSUME NEW x, x \in ToSet(Append(s, e)) PROVE x \in ToSet(s) \cup {e}
  <2>1. PICK k \in 1..Len(Append(s, e)) : Append(s, e)[k] = x
    BY <1>1, <1>2, InSequence
  <2>2. CASE k = Len(s) + 1
    BY <1>1, <2>1, <2>2
  <2>3. CASE k \in 1..Len(s)
    BY <1>1, <2>1, <2>3, InSequence
  <2>4. QED BY <1>1, <2>2, <2>3
<1>3. ASSUME NEW x, x \in ToSet(s) \cup {e} PROVE x \in ToSet(Append(s, e))
  <2>1. CASE x = e
    <3>1. Len(s) + 1 \in 1..Len(Append(s, e))
      BY <1>1
    <3>2. QED BY <1>1, <2>1, <3>1, InSequence
  <2>2. CASE x \in ToSet(s)
    <3>1. PICK k \in 1..Len(s) : s[k] = x
      BY <2>2, InSequence
    <3>2. k \in 1..Len(Append(s, e)) /\ Append(s, e)[k] = x
      BY <1>1, <3>1
    <3>3. QED BY <1>1, <3>2, InSequence
  <2>3. QED BY <1>3, <2>1, <2>2
<1>4. QED BY <1>1, <1>2, <1>3

(* Reading an inbox in the order in which it was filled.                    *)
LEMMA Reading ==
  ASSUME NEW S, NEW box \in Seq(S), box # <<>>
  PROVE  /\ ReadOldest(box).report = box[1] /\ ReadOldest(box).report \in S
         /\ ReadOldest(box).rest \in Seq(S)
         /\ Len(box) \in Nat \ {0} /\ Len(ReadOldest(box).rest) = Len(box) - 1
         /\ \A k \in 1..Len(box) - 1 : ReadOldest(box).rest[k] = box[k + 1]
         /\ ToSet(box) = {ReadOldest(box).report} \cup ToSet(ReadOldest(box).rest)
<1>1. ReadOldest(box).report = Head(box) /\ ReadOldest(box).rest = Tail(box)
  BY DEF ReadOldest
<1>2. QED BY <1>1, TakeFirst

LEMMA OpenedAreDevices == HubTypeOK => Opened \subseteq Devices
<1> SUFFICES ASSUME HubTypeOK, NEW d \in Opened PROVE d \in Devices
  OBVIOUS
<1>1. devices \in Seq(Devices)
  BY DEF HubTypeOK, StartTypeOK
<1>2. PICK k \in 1..Len(devices) : devices[k] = d
  BY <1>1, InSequence DEF Opened
<1>3. QED BY <1>1, <1>2, ElementOfSeq

(* The device whose turn it is.                                             *)
LEMMA TurnOfDevice ==
  ASSUME HubTypeOK, Polling
  PROVE  /\ devices[turn] \in Devices /\ turn \in 1..Len(devices)
         /\ (NextDevice => turn' \in 1..Len(devices))
<1>1. devices \in Seq(Devices) /\ devices # <<>>
  BY DEF HubTypeOK, StartTypeOK, Polling
<1>2. Len(devices) \in Nat \ {0}
  BY <1>1, EmptySeq, LenProperties
<1>3. turn \in 1..Len(devices)
  BY <1>1, <1>2 DEF HubTypeOK, LoopTypeOK
<1>4. devices[turn] \in Devices
  BY <1>1, <1>3, ElementOfSeq
<1>5. QED BY <1>2, <1>3, <1>4 DEF NextDevice

(* The next report of the device whose turn it is.                          *)
LEMMA NextReport ==
  ASSUME HubTypeOK, NEW d \in Devices, inbox[d] # <<>>
  PROVE  LET report == ReadOldest(inbox[d]).report
             rest == ReadOldest(inbox[d]).rest
         IN  /\ report \in {0} \cup DOMAIN log[d]
             /\ rest \in Seq(Nat) /\ Len(rest) = Len(inbox[d]) - 1 /\ Len(inbox[d]) \in Nat
             /\ ToSet(inbox[d]) = {report} \cup ToSet(rest)
             /\ report = inbox[d][1] /\ \A k \in 1..Len(rest) : rest[k] = inbox[d][k + 1]
<1>1. inbox[d] \in Seq(Nat) /\ ToSet(inbox[d]) \subseteq {0} \cup DOMAIN log[d]
  BY DEF HubTypeOK, DeviceTypeOK, BoxTypeOK
<1>2. QED BY <1>1, Reading

-----------------------------------------------------------------------------
(* Type correctness, part by part.                                          *)
LEMMA StartTypeKept == HubTypeOK /\ [HubNext]_hubVars => StartTypeOK'
<1> USE BrokerAssumption DEF StartTypeOK
<1> SUFFICES ASSUME HubTypeOK, [HubNext]_hubVars PROVE StartTypeOK'
  OBVIOUS
<1>0. StartTypeOK
  BY DEF HubTypeOK
<1>1. CASE Open
  <2>1. Head(found) \in Devices /\ found' \in Seq(Devices)
    BY <1>0, <1>1, TakeFirst DEF Open
  <2>2. devices' \in Seq(Devices)
    BY <1>0, <1>1, <2>1, AddLast DEF Open
  <2>3. learned' \in [Devices -> SUBSET Actions]
    <3>1. PICK part \in SUBSET Handles[Head(found)] :
            learned' = [learned EXCEPT ![Head(found)] = part]
      BY <1>1 DEF Open
    <3>2. part \subseteq Actions
      BY <2>1, <3>1
    <3>3. QED BY <1>0, <3>1, <3>2
  <2>4. QED BY <1>0, <1>1, <2>1, <2>2, <2>3 DEF Open
<1>2. CASE OpenFails
  <2>1. found' \in Seq(Devices)
    BY <1>0, <1>2, TakeFirst DEF OpenFails
  <2>2. QED BY <1>0, <1>2, <2>1 DEF OpenFails
<1>3. CASE BuildRoutes
  <2>1. Opened \subseteq Devices
    BY OpenedAreDevices
  <2>2. routes' \in [Actions -> SUBSET Devices]
    BY <1>3, <2>1 DEF BuildRoutes, Route
  <2>3. QED BY <1>0, <1>3, <2>2 DEF BuildRoutes
<1>4. CASE UNCHANGED startVars
  BY <1>0, <1>4 DEF startVars
<1>5. Open \/ OpenFails \/ BuildRoutes \/ UNCHANGED startVars
  BY DEF HubNext, HubStep, hubVars, Triggers, OtherReport, Unplug, PollTrigger, PollOther,
         PollNothing, Forward, Stop
<1>6. QED BY <1>1, <1>2, <1>3, <1>4, <1>5

(* One device's inbox and log.                                              *)
LEMMA DeviceTypeKept == HubTypeOK /\ [HubNext]_hubVars => DeviceTypeOK'
<1> USE BrokerAssumption
<1> SUFFICES ASSUME HubTypeOK, [HubNext]_hubVars PROVE DeviceTypeOK'
  OBVIOUS
<1>0. DeviceTypeOK
  BY DEF HubTypeOK
<1>1. ASSUME NEW d \in Devices, NEW a \in Actions, Triggers(d, a) PROVE DeviceTypeOK'
  <2> DEFINE n == Len(log[d]) + 1
             newLog == Append(log[d], a)
             newBox == Append(inbox[d], n)
  <2>1. BoxTypeOK(d) /\ Len(log[d]) < MaxLog /\ Len(inbox[d]) < Buffer
        /\ log' = [log EXCEPT ![d] = newLog] /\ inbox' = [inbox EXCEPT ![d] = newBox]
    BY <1>0, <1>1 DEF Triggers, DeviceTypeOK
  <2>2. newLog \in Seq(Actions) /\ Len(newLog) = n /\ Len(log[d]) \in Nat
        /\ DOMAIN newLog = DOMAIN log[d] \cup {n}
    <3>1. newLog \in Seq(Actions) /\ Len(newLog) = n /\ Len(log[d]) \in Nat
      BY <2>1, AddLast DEF BoxTypeOK
    <3>2. DOMAIN newLog = 1..n /\ DOMAIN log[d] = 1..Len(log[d])
      BY <2>1, <3>1, LenProperties DEF BoxTypeOK
    <3>3. QED BY <3>1, <3>2
  <2>3. n \in Nat
    BY <2>2
  <2>4. newBox \in Seq(Nat) /\ Len(newBox) = Len(inbox[d]) + 1
        /\ Len(inbox[d]) \in Nat /\ ToSet(newBox) = ToSet(inbox[d]) \cup {n}
    <3> HIDE DEF n
    <3>1. QED BY <2>1, <2>3, AddLast DEF BoxTypeOK
  <2>5. Len(newLog) <= MaxLog /\ Len(newBox) <= Buffer
    <3> HIDE DEF newLog, newBox
    <3>1. QED BY <2>1, <2>2, <2>4
  <2>6. log'[d] = newLog /\ inbox'[d] = newBox
    BY <1>0, <2>1 DEF DeviceTypeOK
  <2>7. BoxTypeOK(d)'
    <3> HIDE DEF n, newLog, newBox
    <3>1. ToSet(newBox) \subseteq {0} \cup DOMAIN newLog
      BY <2>1, <2>2, <2>4 DEF BoxTypeOK
    <3>2. QED BY <2>2, <2>4, <2>5, <2>6, <3>1 DEF BoxTypeOK
  <2>8. ASSUME NEW e \in Devices \ {d} PROVE BoxTypeOK(e)'
    <3>1. inbox'[e] = inbox[e] /\ log'[e] = log[e]
      BY <1>0, <2>1 DEF DeviceTypeOK
    <3>2. QED BY <1>0, <3>1 DEF DeviceTypeOK, BoxTypeOK
  <2>9. QED BY <1>0, <2>1, <2>7, <2>8 DEF DeviceTypeOK
<1>2. ASSUME NEW d \in Devices, NEW newBox, inbox' = [inbox EXCEPT ![d] = newBox],
             UNCHANGED log, newBox \in Seq(Nat), Len(newBox) <= Buffer,
             ToSet(newBox) \subseteq {0} \cup DOMAIN log[d]
      PROVE  DeviceTypeOK'
  <2>1. inbox'[d] = newBox /\ \A e \in Devices \ {d} : inbox'[e] = inbox[e]
    BY <1>0, <1>2 DEF DeviceTypeOK
  <2>2. ASSUME NEW e \in Devices PROVE BoxTypeOK(e)'
    BY <1>0, <1>2, <2>1 DEF DeviceTypeOK, BoxTypeOK
  <2>3. QED BY <1>0, <1>2, <2>2 DEF DeviceTypeOK
<1>3. ASSUME NEW d \in Devices, OtherReport(d) PROVE DeviceTypeOK'
  <2>1. BoxTypeOK(d) /\ Len(inbox[d]) < Buffer
    BY <1>0, <1>3 DEF OtherReport, DeviceTypeOK
  <2>2. Append(inbox[d], 0) \in Seq(Nat) /\ Len(Append(inbox[d], 0)) = Len(inbox[d]) + 1
        /\ Len(inbox[d]) \in Nat /\ ToSet(Append(inbox[d], 0)) = ToSet(inbox[d]) \cup {0}
    BY <2>1, AddLast DEF BoxTypeOK
  <2>3. Len(Append(inbox[d], 0)) <= Buffer
    BY <2>1, <2>2
  <2>4. ToSet(Append(inbox[d], 0)) \subseteq {0} \cup DOMAIN log[d]
    BY <2>1, <2>2 DEF BoxTypeOK
  <2>5. QED BY <1>2, <1>3, <2>2, <2>3, <2>4 DEF OtherReport
<1>4. CASE PollTrigger \/ PollOther
  <2> DEFINE d == devices[turn]
             rest == ReadOldest(inbox[d]).rest
  <2>1. d \in Devices /\ inbox[d] # <<>> /\ inbox' = [inbox EXCEPT ![d] = rest] /\ UNCHANGED log
    BY <1>4, TurnOfDevice DEF PollTrigger, PollOther
  <2>2. BoxTypeOK(d)
    BY <1>0, <2>1 DEF DeviceTypeOK
  <2>3. rest \in Seq(Nat) /\ Len(rest) = Len(inbox[d]) - 1 /\ Len(inbox[d]) \in Nat
        /\ ToSet(rest) \subseteq ToSet(inbox[d])
    BY <2>1, NextReport
  <2> HIDE DEF rest, d
  <2>4. Len(rest) <= Buffer /\ ToSet(rest) \subseteq {0} \cup DOMAIN log[d]
    BY <2>2, <2>3 DEF BoxTypeOK
  <2>5. QED BY <1>2, <2>1, <2>3, <2>4
<1>5. CASE UNCHANGED <<inbox, log>>
  BY <1>0, <1>5 DEF DeviceTypeOK, BoxTypeOK
<1>6. \/ PollTrigger \/ PollOther \/ UNCHANGED <<inbox, log>>
      \/ \E d \in Devices : OtherReport(d) \/ \E a \in Actions : Triggers(d, a)
  BY DEF HubNext, HubStep, hubVars, deviceVars, Open, OpenFails, BuildRoutes, Unplug,
         PollNothing, Forward, Stop
<1>7. QED BY <1>1, <1>3, <1>4, <1>5, <1>6

LEMMA LoopTypeKept == HubTypeOK /\ [HubNext]_hubVars => LoopTypeOK'
<1> USE BrokerAssumption
<1> SUFFICES ASSUME HubTypeOK, [HubNext]_hubVars PROVE LoopTypeOK'
  OBVIOUS
<1>0. LoopTypeOK /\ devices \in Seq(Devices) /\ Len(devices) \in Nat
  BY LenProperties DEF HubTypeOK, StartTypeOK
<1>1. CASE Open
  <2>1. Head(found) \in Devices
    BY <1>1, TakeFirst DEF Open, HubTypeOK, StartTypeOK
  <2>2. Len(devices') = Len(devices) + 1
    BY <1>0, <1>1, <2>1, AddLast DEF Open
  <2>3. turn = 1
    BY <1>0, <1>1 DEF Open, LoopTypeOK
  <2>4. QED BY <1>0, <1>1, <2>2, <2>3 DEF Open, LoopTypeOK, loopVars, deviceVars
<1>2. CASE OpenFails \/ PollNothing
  <2>1. CASE OpenFails
    BY <1>0, <2>1 DEF OpenFails, LoopTypeOK, loopVars, deviceVars
  <2>2. CASE PollNothing
    <3>1. turn' \in 1..Len(devices) /\ phase # "start"
      BY <2>2, TurnOfDevice DEF PollNothing, Polling
    <3>2. QED BY <1>0, <2>2, <3>1 DEF PollNothing, LoopTypeOK, startVars, deviceVars
  <2>3. QED BY <1>2, <2>1, <2>2
<1>3. CASE BuildRoutes \/ Stop
  BY <1>0, <1>3 DEF BuildRoutes, Stop, LoopTypeOK, startVars, deviceVars
<1>4. ASSUME NEW d \in Devices, NEW a \in Actions, Triggers(d, a) PROVE LoopTypeOK'
  <2>1. log[d] \in Seq(Actions) /\ log = [e \in Devices |-> log[e]]
    BY DEF HubTypeOK, DeviceTypeOK, BoxTypeOK
  <2>2. log' = [log EXCEPT ![d] = Append(log[d], a)]
    BY <1>4 DEF Triggers
  <2>3. DOMAIN log[d] \subseteq DOMAIN Append(log[d], a)
    BY <2>1, AppendProperties, LenProperties
  <2>4. ASSUME NEW s \in Devices PROVE DOMAIN log[s] \subseteq DOMAIN log'[s]
    BY <2>1, <2>2, <2>3
  <2>5. src # NoDevice => num \in DOMAIN log'[src]
    BY <1>0, <2>4 DEF LoopTypeOK
  <2>6. QED BY <1>0, <1>4, <2>5 DEF Triggers, LoopTypeOK, startVars, loopVars
<1>5. ASSUME NEW d \in Devices, OtherReport(d) \/ Unplug(d) PROVE LoopTypeOK'
  BY <1>0, <1>5 DEF OtherReport, Unplug, LoopTypeOK, startVars, loopVars
<1>6. CASE PollTrigger
  <2> DEFINE d == devices[turn]
             report == ReadOldest(inbox[d]).report
             to == Targets(d, log[d][report])
  <2>1. Polling /\ d \in Devices /\ inbox[d] # <<>> /\ report # 0
        /\ UNCHANGED <<devices, phase, log>>
        /\ IF to = {} THEN Reported /\ UNCHANGED <<src, num, targets>>
           ELSE src' = d /\ num' = report /\ targets' = to /\ UNCHANGED turn
    BY <1>6, TurnOfDevice DEF PollTrigger, startVars
  <2>2. log[d] \in Seq(Actions) /\ report \in DOMAIN log[d]
    BY <2>1, NextReport DEF HubTypeOK, DeviceTypeOK, BoxTypeOK
  <2>3. report \in Nat /\ to \subseteq Devices
    <3>1. report \in 1..Len(log[d])
      BY <2>2, LenProperties
    <3>2. log[d][report] \in Actions
      BY <2>2, <3>1, ElementOfSeq
    <3>3. QED BY <3>1, <3>2 DEF Targets, HubTypeOK, StartTypeOK
  <2>4. phase # "start" /\ src = NoDevice /\ devices # <<>>
    BY <2>1 DEF Polling
  <2>5. Reported => turn' \in 1..Len(devices)
    BY <2>1, TurnOfDevice DEF Reported
  <2> HIDE DEF d, report, to
  <2>6. CASE to = {}
    BY <1>0, <2>1, <2>4, <2>5, <2>6 DEF LoopTypeOK
  <2>7. CASE to # {}
    BY <1>0, <2>1, <2>2, <2>3, <2>4, <2>7 DEF LoopTypeOK
  <2>8. QED BY <2>6, <2>7
<1>7. CASE PollOther
  <2>1. turn' \in 1..Len(devices) /\ phase # "start" /\ src = NoDevice
    BY <1>7, TurnOfDevice DEF PollOther, Reported, Polling
  <2>2. QED BY <1>0, <1>7, <2>1 DEF PollOther, LoopTypeOK, startVars
<1>8. ASSUME NEW h \in Devices, Forward(h) PROVE LoopTypeOK'
  <2>1. phase # "start" /\ targets' = targets \ {h} /\ h \in targets /\ src # NoDevice
        /\ UNCHANGED <<devices, phase, log>>
    BY <1>8 DEF Forward, startVars, deviceVars
  <2>2. CASE targets = {h}
    <3>1. src' = NoDevice /\ num' = 0 /\ NextDevice
      BY <1>8, <2>2 DEF Forward, Reported
    <3>2. turn' \in Nat \ {0} /\ (devices # <<>> => turn' <= Len(devices))
      <4>1. CASE devices = <<>>
        BY <1>0, <3>1, <4>1 DEF NextDevice, LoopTypeOK
      <4>2. CASE devices # <<>>
        <5>1. turn \in 1..Len(devices)
          BY <1>0, <4>2 DEF LoopTypeOK
        <5>2. QED BY <1>0, <3>1, <5>1 DEF NextDevice
      <4>3. QED BY <4>1, <4>2
    <3>3. QED BY <1>0, <2>1, <2>2, <3>1, <3>2 DEF LoopTypeOK
  <2>3. CASE targets # {h}
    <3>1. UNCHANGED <<src, num, turn>>
      BY <1>8, <2>3 DEF Forward
    <3>2. targets' # {}
      BY <2>1, <2>3
    <3>3. QED BY <1>0, <2>1, <3>1, <3>2 DEF LoopTypeOK
  <2>4. QED BY <2>2, <2>3
<1>9. CASE UNCHANGED hubVars
  BY <1>0, <1>9 DEF LoopTypeOK, hubVars, startVars, loopVars, deviceVars
<1>10. QED
  BY <1>1, <1>2, <1>3, <1>4, <1>5, <1>6, <1>7, <1>8, <1>9 DEF HubNext, HubStep

LEMMA ToldTypeKept == HubTypeOK /\ [HubNext]_hubVars => ToldTypeOK'
<1> USE BrokerAssumption DEF ToldTypeOK
<1> SUFFICES ASSUME HubTypeOK, [HubNext]_hubVars PROVE ToldTypeOK'
  OBVIOUS
<1>0. ToldTypeOK
  BY DEF HubTypeOK
<1>1. ASSUME NEW h \in Devices, Forward(h) PROVE ToldTypeOK'
  <2>1. src \in Devices /\ num \in Nat
    BY <1>1 DEF Forward, HubTypeOK, LoopTypeOK
  <2>2. Append(told[h], <<src, num>>) \in Seq(Devices \X Nat)
    BY <1>0, <2>1, AddLast
  <2>3. QED BY <1>0, <1>1, <2>2 DEF Forward, deviceVars
<1>2. ASSUME NEW d \in Devices, Unplug(d) PROVE ToldTypeOK'
  BY <1>0, <1>2 DEF Unplug
<1>3. CASE UNCHANGED <<told, gone>>
  BY <1>0, <1>3
<1>4. \/ UNCHANGED <<told, gone>>
      \/ \E d \in Devices : Forward(d) \/ Unplug(d)
  BY DEF HubNext, HubStep, hubVars, deviceVars, Open, OpenFails, BuildRoutes, Triggers,
         OtherReport, PollTrigger, PollOther, PollNothing, Stop
<1>5. QED BY <1>1, <1>2, <1>3, <1>4

LEMMA HubTypeHolds == HubInit => HubTypeOK
<1> USE BrokerAssumption
<1> SUFFICES ASSUME HubInit PROVE HubTypeOK
  OBVIOUS
<1>1. <<>> \in Seq(Nat) /\ <<>> \in Seq(Actions) /\ <<>> \in Seq(Devices)
      /\ <<>> \in Seq(Devices \X Nat) /\ Len(<<>>) = 0 /\ ToSet(<<>>) = {}
  BY EmptySeq DEF ToSet
<1>2. StartTypeOK
  BY <1>1 DEF HubInit, StartTypeOK
<1>3. LoopTypeOK
  BY DEF HubInit, LoopTypeOK
<1>4. DeviceTypeOK
  <2>1. ASSUME NEW d \in Devices PROVE inbox[d] = <<>> /\ log[d] = <<>>
    BY DEF HubInit
  <2>2. ASSUME NEW d \in Devices PROVE BoxTypeOK(d)
    <3>1. Buffer >= 0 /\ MaxLog >= 0
      OBVIOUS
    <3>2. QED BY <1>1, <2>1, <3>1 DEF BoxTypeOK
  <2>3. QED BY <2>2 DEF HubInit, DeviceTypeOK
<1>5. ToldTypeOK
  BY <1>1 DEF HubInit, ToldTypeOK
<1>6. QED BY <1>2, <1>3, <1>4, <1>5 DEF HubTypeOK

LEMMA HubTypeStep == HubTypeOK /\ [HubNext]_hubVars => HubTypeOK'
BY StartTypeKept, LoopTypeKept, DeviceTypeKept, ToldTypeKept DEF HubTypeOK

(* HubTypeOK holds for any devices, ids and bounds: turn never leaves the   *)
(* list of devices (hid_viz_hub.py:271-283), and a report is being          *)
(* forwarded exactly while it has somewhere to go (:244-251).               *)
THEOREM HubTypeCorrect == HubSpec => []HubTypeOK
BY HubTypeHolds, HubTypeStep, PTL DEF HubSpec

-----------------------------------------------------------------------------
(* The strengthening.  Triggers wait in an inbox in the order they were     *)
(* made; the one in hand comes before all of its source's that wait, and    *)
(* all that has been told before both.                                      *)
Waiting(d) == ToSet(inbox[d]) \ {0}

Sorted(box) ==
  \A i, j \in DOMAIN box : i < j /\ box[i] # 0 /\ box[j] # 0 => box[i] < box[j]

InboxSorted == \A d \in Devices : Sorted(inbox[d])

InHand ==
  src # NoDevice =>
    /\ \A h \in targets : h # src /\ h \in routes[log[src][num]]
    /\ \A m \in Waiting(src) : num < m

ToldBefore(h, s, n) ==
  /\ s # h /\ n \in DOMAIN log[s] /\ h \in routes[log[s][n]]
  /\ \A m \in Waiting(s) : n < m
  /\ s = src => n <= num /\ (h \in targets => n < num)

AllToldBefore ==
  \A h \in Devices : \A k \in DOMAIN told[h] : ToldBefore(h, told[h][k][1], told[h][k][2])

(* The routing table is made of what was learned, and is there only when    *)
(* the hub brokers.                                                         *)
TableIsRight ==
  /\ \A d \in Devices : learned[d] \subseteq Handles[d]
  /\ \A a \in Actions : routes[a] = IF phase = "start" THEN {} ELSE Route(a)

(* Before it brokers the hub reads nothing.                                 *)
NoneReadYet ==
  phase = "start" => \A s \in Devices : DOMAIN log[s] \subseteq ToSet(inbox[s])

HubInv ==
  /\ HubTypeOK /\ InboxSorted /\ InHand /\ AllToldBefore /\ TableIsRight /\ NoneReadYet
  /\ OnceInOrder /\ NothingForgotten

-----------------------------------------------------------------------------
(* What the steps that touch an inbox do to it.                             *)
LEMMA SortedAppend ==
  ASSUME NEW box \in Seq(Nat), Sorted(box), NEW n \in Nat,
         n = 0 \/ \A m \in ToSet(box) : m < n
  PROVE  Sorted(Append(box, n))
<1>1. /\ Append(box, n) \in Seq(Nat) /\ Len(Append(box, n)) = Len(box) + 1 /\ Len(box) \in Nat
      /\ Append(box, n)[Len(box) + 1] = n /\ \A k \in 1..Len(box) : Append(box, n)[k] = box[k]
  BY AddLast
<1>2. DOMAIN Append(box, n) = 1..Len(box) + 1 /\ DOMAIN box = 1..Len(box)
  BY <1>1, LenProperties
<1> SUFFICES ASSUME NEW i \in DOMAIN Append(box, n), NEW j \in DOMAIN Append(box, n), i < j,
                    Append(box, n)[i] # 0, Append(box, n)[j] # 0
             PROVE  Append(box, n)[i] < Append(box, n)[j]
  BY DEF Sorted
<1>3. i \in 1..Len(box) /\ Append(box, n)[i] = box[i] /\ box[i] \in ToSet(box)
  <2>1. i \in 1..Len(box)
    BY <1>1, <1>2
  <2>2. QED BY <1>1, <2>1, InSequence
<1>4. CASE j = Len(box) + 1
  <2>1. Append(box, n)[j] = n /\ n # 0
    BY <1>1, <1>4
  <2>2. QED BY <1>3, <2>1
<1>5. CASE j \in 1..Len(box)
  BY <1>1, <1>2, <1>3, <1>5 DEF Sorted
<1>6. QED BY <1>1, <1>2, <1>4, <1>5

LEMMA SortedTail ==
  ASSUME NEW box \in Seq(Nat), box # <<>>, Sorted(box)
  PROVE  LET report == ReadOldest(box).report
             rest == ReadOldest(box).rest
         IN  /\ Sorted(rest)
             /\ report # 0 => \A m \in ToSet(rest) \ {0} : report < m
<1> DEFINE report == ReadOldest(box).report
           rest == ReadOldest(box).rest
<1>1. /\ report = box[1] /\ rest \in Seq(Nat)
      /\ Len(box) \in Nat \ {0} /\ Len(rest) = Len(box) - 1
      /\ \A k \in 1..Len(box) - 1 : rest[k] = box[k + 1]
  BY Reading
<1>2. DOMAIN rest = 1..Len(box) - 1 /\ DOMAIN box = 1..Len(box)
  BY <1>1, LenProperties
<1> HIDE DEF rest, report
<1>3. \A k \in DOMAIN rest : k + 1 \in DOMAIN box /\ rest[k] = box[k + 1] /\ k \in Nat \ {0}
  BY <1>1, <1>2
<1>4. 1 \in DOMAIN box
  BY <1>1, <1>2
<1>5. Sorted(rest)
  <2> SUFFICES ASSUME NEW i \in DOMAIN rest, NEW j \in DOMAIN rest, i < j, rest[i] # 0, rest[j] # 0
               PROVE  rest[i] < rest[j]
    BY DEF Sorted
  <2>1. i + 1 < j + 1
    BY <1>3
  <2>2. QED BY <1>3, <2>1 DEF Sorted
<1>6. ASSUME report # 0, NEW m \in ToSet(rest) \ {0} PROVE report < m
  <2>1. PICK k \in 1..Len(rest) : rest[k] = m
    BY <1>1, InSequence
  <2>2. k \in DOMAIN rest
    BY <1>1, <1>2, <2>1
  <2>3. 1 < k + 1
    BY <1>3, <2>2
  <2>4. QED BY <1>1, <1>3, <1>4, <1>6, <2>1, <2>2, <2>3 DEF Sorted
<1>7. QED BY <1>5, <1>6 DEF report, rest

LEMMA TriggerEffect ==
  ASSUME HubTypeOK, NEW d \in Devices, NEW a, Triggers(d, a), a \in Actions
  PROVE  LET n == Len(log[d]) + 1
         IN  /\ n \in Nat \ {0} /\ \A k \in DOMAIN log[d] : k \in Nat /\ k < n
             /\ inbox[d] \in Seq(Nat) /\ inbox'[d] = Append(inbox[d], n)
             /\ ToSet(inbox'[d]) = ToSet(inbox[d]) \cup {n}
             /\ ToSet(inbox[d]) \subseteq {0} \cup DOMAIN log[d]
             /\ DOMAIN log'[d] = DOMAIN log[d] \cup {n}
             /\ \A k \in DOMAIN log[d] : log'[d][k] = log[d][k]
             /\ \A e \in Devices \ {d} : inbox'[e] = inbox[e] /\ log'[e] = log[e]
             /\ UNCHANGED <<devices, learned, routes, phase, src, num, targets, gone, told>>
<1>1. BoxTypeOK(d) /\ inbox = [e \in Devices |-> inbox[e]] /\ log = [e \in Devices |-> log[e]]
  BY DEF HubTypeOK, DeviceTypeOK
<1>2. /\ log' = [log EXCEPT ![d] = Append(@, a)]
      /\ inbox' = [inbox EXCEPT ![d] = Append(@, Len(log[d]) + 1)]
      /\ UNCHANGED <<devices, learned, routes, phase, src, num, targets, gone, told>>
  BY DEF Triggers, startVars, loopVars
<1>3. /\ inbox'[d] = Append(inbox[d], Len(log[d]) + 1) /\ log'[d] = Append(log[d], a)
      /\ \A e \in Devices \ {d} : inbox'[e] = inbox[e] /\ log'[e] = log[e]
  BY <1>1, <1>2
<1>4. /\ log'[d] \in Seq(Actions) /\ Len(log'[d]) = Len(log[d]) + 1 /\ Len(log[d]) \in Nat
      /\ \A k \in 1..Len(log[d]) : log'[d][k] = log[d][k]
  BY <1>1, <1>3, AddLast DEF BoxTypeOK
<1>5. DOMAIN log[d] = 1..Len(log[d]) /\ DOMAIN log'[d] = 1..Len(log[d]) + 1
  BY <1>1, <1>4, LenProperties DEF BoxTypeOK
<1>6. Len(log[d]) + 1 \in Nat
  BY <1>4
<1>7. ToSet(inbox'[d]) = ToSet(inbox[d]) \cup {Len(log[d]) + 1}
  BY <1>1, <1>3, <1>6, AddLast DEF BoxTypeOK
<1>8. DOMAIN log'[d] = DOMAIN log[d] \cup {Len(log[d]) + 1}
  BY <1>4, <1>5
<1>9. \A k \in DOMAIN log[d] : k \in Nat /\ k < Len(log[d]) + 1 /\ log'[d][k] = log[d][k]
  BY <1>4, <1>5
<1>10. Len(log[d]) + 1 \in Nat \ {0}
  BY <1>4
<1>11. QED BY <1>1, <1>2, <1>3, <1>7, <1>8, <1>9, <1>10 DEF BoxTypeOK

LEMMA OtherEffect ==
  ASSUME HubTypeOK, NEW d \in Devices, OtherReport(d)
  PROVE  /\ inbox[d] \in Seq(Nat) /\ inbox'[d] = Append(inbox[d], 0)
         /\ ToSet(inbox'[d]) = ToSet(inbox[d]) \cup {0}
         /\ \A e \in Devices \ {d} : inbox'[e] = inbox[e]
         /\ UNCHANGED <<devices, learned, routes, phase, src, num, targets, log, gone, told>>
<1>1. BoxTypeOK(d) /\ inbox = [e \in Devices |-> inbox[e]]
  BY DEF HubTypeOK, DeviceTypeOK
<1>2. /\ inbox' = [inbox EXCEPT ![d] = Append(@, 0)]
      /\ UNCHANGED <<devices, learned, routes, phase, src, num, targets, log, gone, told>>
  BY DEF OtherReport, startVars, loopVars
<1>3. inbox[d] \in Seq(Nat) /\ ToSet(Append(inbox[d], 0)) = ToSet(inbox[d]) \cup {0}
  BY <1>1, AddLast DEF BoxTypeOK
<1>4. QED BY <1>1, <1>2, <1>3

LEMMA ReadEffect ==
  ASSUME HubTypeOK, PollTrigger \/ PollOther, NEW d, d = devices[turn]
  PROVE  LET report == ReadOldest(inbox[d]).report
             rest == ReadOldest(inbox[d]).rest
         IN  /\ d \in Devices /\ inbox[d] \in Seq(Nat) /\ inbox[d] # <<>> /\ inbox'[d] = rest
             /\ report \in {0} \cup DOMAIN log[d]
             /\ ToSet(inbox[d]) = {report} \cup ToSet(inbox'[d])
             /\ \A e \in Devices \ {d} : inbox'[e] = inbox[e]
             /\ phase = "broker" /\ src = NoDevice
             /\ UNCHANGED <<devices, learned, routes, phase, log, gone, told>>
<1>1. d \in Devices /\ inbox[d] # <<>> /\ inbox' = [inbox EXCEPT ![d] = ReadOldest(inbox[d]).rest]
      /\ phase = "broker" /\ src = NoDevice
      /\ UNCHANGED <<devices, learned, routes, phase, log, gone, told>>
  BY TurnOfDevice DEF PollTrigger, PollOther, Polling, startVars
<1>2. BoxTypeOK(d) /\ inbox = [e \in Devices |-> inbox[e]]
  BY <1>1 DEF HubTypeOK, DeviceTypeOK
<1>3. inbox'[d] = ReadOldest(inbox[d]).rest /\ \A e \in Devices \ {d} : inbox'[e] = inbox[e]
  BY <1>1, <1>2
<1>4. QED BY <1>1, <1>2, <1>3, NextReport DEF BoxTypeOK

(* Everything else leaves inboxes and logs alone.                           *)
LEMMA BoxSteps ==
  ASSUME HubTypeOK, [HubNext]_hubVars
  PROVE  \/ PollTrigger \/ PollOther \/ UNCHANGED <<inbox, log>>
         \/ \E d \in Devices : OtherReport(d) \/ \E a \in Actions : Triggers(d, a)
<1>1. \A d \in Devices : Emits[d] \subseteq Actions
  BY BrokerAssumption
<1>2. QED
  BY <1>1 DEF HubNext, HubStep, hubVars, deviceVars, Open, OpenFails, BuildRoutes, Unplug,
              PollNothing, Forward, Stop

(* Logs only grow, and what comes to wait is newer than all before it.      *)
LEMMA OnlyNewer ==
  ASSUME HubTypeOK, [HubNext]_hubVars, NEW s \in Devices
  PROVE  /\ \A n \in DOMAIN log[s] : n \in DOMAIN log'[s] /\ log'[s][n] = log[s][n]
         /\ \A m \in Waiting(s)' : m \in Waiting(s) \/ \A n \in DOMAIN log[s] : n < m
<1>1. ASSUME NEW d \in Devices, NEW a \in Actions, Triggers(d, a)
      PROVE  /\ \A n \in DOMAIN log[s] : n \in DOMAIN log'[s] /\ log'[s][n] = log[s][n]
             /\ \A m \in Waiting(s)' : m \in Waiting(s) \/ \A n \in DOMAIN log[s] : n < m
  BY <1>1, TriggerEffect DEF Waiting
<1>2. ASSUME NEW d \in Devices, OtherReport(d)
      PROVE  UNCHANGED log /\ Waiting(s)' = Waiting(s)
  BY <1>2, OtherEffect DEF Waiting
<1>3. CASE PollTrigger \/ PollOther
  <2>1. UNCHANGED log /\ ToSet(inbox'[s]) \subseteq ToSet(inbox[s])
    BY <1>3, ReadEffect
  <2>2. Waiting(s)' \subseteq Waiting(s)
    BY <2>1 DEF Waiting
  <2>3. QED BY <2>1, <2>2
<1>4. CASE UNCHANGED <<inbox, log>>
  BY <1>4 DEF Waiting
<1>5. QED BY <1>1, <1>2, <1>3, <1>4, BoxSteps

LEMMA InboxSortedKept ==
  ASSUME HubTypeOK, InboxSorted, [HubNext]_hubVars
  PROVE  InboxSorted'
<1> SUFFICES ASSUME NEW s \in Devices PROVE Sorted(inbox'[s])
  BY DEF InboxSorted, Sorted
<1>0. Sorted(inbox[s])
  BY DEF InboxSorted
<1>1. ASSUME NEW d \in Devices, NEW a \in Actions, Triggers(d, a) PROVE Sorted(inbox'[s])
  <2>1. CASE s = d
    <3> DEFINE n == Len(log[d]) + 1
    <3>1. /\ n \in Nat \ {0} /\ inbox[d] \in Seq(Nat) /\ inbox'[d] = Append(inbox[d], n)
          /\ ToSet(inbox[d]) \subseteq {0} \cup DOMAIN log[d]
          /\ \A m \in DOMAIN log[d] : m < n
      BY <1>1, TriggerEffect
    <3> HIDE DEF n
    <3>2. n \in Nat /\ \A m \in ToSet(inbox[d]) : m < n
      BY <3>1
    <3>3. QED BY <1>0, <2>1, <3>1, <3>2, SortedAppend
  <2>2. CASE s # d
    BY <1>0, <1>1, <2>2, TriggerEffect
  <2>3. QED BY <2>1, <2>2
<1>2. ASSUME NEW d \in Devices, OtherReport(d) PROVE Sorted(inbox'[s])
  <2>1. CASE s = d
    <3>1. inbox[d] \in Seq(Nat) /\ inbox'[d] = Append(inbox[d], 0) /\ 0 \in Nat
      BY <1>2, OtherEffect
    <3>2. QED BY <1>0, <2>1, <3>1, SortedAppend
  <2>2. CASE s # d
    BY <1>0, <1>2, <2>2, OtherEffect
  <2>3. QED BY <2>1, <2>2
<1>3. CASE PollTrigger \/ PollOther
  <2>1. CASE s = devices[turn]
    <3>1. inbox[s] \in Seq(Nat) /\ inbox[s] # <<>> /\ inbox'[s] = ReadOldest(inbox[s]).rest
      BY <1>3, <2>1, ReadEffect
    <3>2. Sorted(ReadOldest(inbox[s]).rest)
      BY <1>0, <3>1, SortedTail
    <3>3. QED BY <3>1, <3>2
  <2>2. CASE s # devices[turn]
    BY <1>0, <1>3, <2>2, ReadEffect
  <2>3. QED BY <2>1, <2>2
<1>4. CASE UNCHANGED <<inbox, log>>
  BY <1>0, <1>4
<1>5. QED BY <1>1, <1>2, <1>3, <1>4, BoxSteps

(* Where a report that is read goes.                                        *)
LEMMA Taken ==
  ASSUME HubTypeOK, InboxSorted, PollTrigger, NEW d, d = devices[turn],
         NEW n, n = ReadOldest(inbox[d]).report
  PROVE  /\ d \in Devices /\ n \in Waiting(d) /\ n \in DOMAIN log[d]
         /\ log[d][n] \in Actions
         /\ \A m \in Waiting(d)' : n < m
         /\ \/ Targets(d, log[d][n]) = {} /\ UNCHANGED <<src, num, targets>>
            \/ /\ Targets(d, log[d][n]) # {}
               /\ src' = d /\ num' = n /\ targets' = Targets(d, log[d][n])
<1>1. n # 0 /\ \/ Targets(d, log[d][n]) = {} /\ UNCHANGED <<src, num, targets>>
               \/ /\ Targets(d, log[d][n]) # {}
                  /\ src' = d /\ num' = n /\ targets' = Targets(d, log[d][n])
  BY DEF PollTrigger
<1>2. /\ d \in Devices /\ inbox[d] \in Seq(Nat) /\ inbox[d] # <<>>
      /\ inbox'[d] = ReadOldest(inbox[d]).rest
      /\ n \in {0} \cup DOMAIN log[d] /\ ToSet(inbox[d]) = {n} \cup ToSet(inbox'[d])
  BY ReadEffect
<1>3. n \in Waiting(d) /\ n \in DOMAIN log[d]
  BY <1>1, <1>2 DEF Waiting
<1>4. \A m \in Waiting(d)' : n < m
  <2>1. Sorted(inbox[d])
    BY <1>2 DEF InboxSorted
  <2>2. \A m \in ToSet(ReadOldest(inbox[d]).rest) \ {0} : n < m
    BY <1>1, <1>2, <2>1, SortedTail
  <2>3. QED BY <1>2, <2>2 DEF Waiting
<1>5. log[d][n] \in Actions
  <2>1. log[d] \in Seq(Actions)
    BY <1>2 DEF HubTypeOK, DeviceTypeOK, BoxTypeOK
  <2>2. n \in 1..Len(log[d])
    BY <1>3, <2>1, LenProperties
  <2>3. QED BY <2>1, <2>2, ElementOfSeq
<1>6. QED BY <1>1, <1>2, <1>3, <1>4, <1>5

LEMMA LoggedAreActions ==
  ASSUME HubTypeOK, NEW s \in Devices, NEW n \in DOMAIN log[s]
  PROVE  log[s][n] \in Actions /\ n \in Nat
<1>1. log[s] \in Seq(Actions)
  BY DEF HubTypeOK, DeviceTypeOK, BoxTypeOK
<1>2. n \in 1..Len(log[s])
  BY <1>1, LenProperties
<1>3. QED BY <1>1, <1>2, ElementOfSeq

LEMMA TableIsRightKept ==
  ASSUME HubTypeOK, TableIsRight, [HubNext]_hubVars
  PROVE  TableIsRight'
<1> USE DEF TableIsRight
<1>1. CASE Open
  <2>1. PICK part \in SUBSET Handles[Head(found)] :
          learned' = [learned EXCEPT ![Head(found)] = part]
    BY <1>1 DEF Open
  <2>2. \A d \in Devices : learned'[d] \subseteq Handles[d]
    BY <2>1 DEF HubTypeOK, StartTypeOK
  <2>3. QED BY <1>1, <2>2 DEF Open, loopVars
<1>2. CASE BuildRoutes
  BY <1>2 DEF BuildRoutes, Route, Opened
<1>3. CASE UNCHANGED <<devices, learned, routes>> /\ (phase' = "start" <=> phase = "start")
  BY <1>3 DEF Route, Opened
<1>4. \/ Open \/ BuildRoutes
      \/ UNCHANGED <<devices, learned, routes>> /\ (phase' = "start" <=> phase = "start")
  BY DEF HubNext, HubStep, hubVars, startVars, loopVars, OpenFails, Triggers, OtherReport, Unplug,
         PollTrigger, PollOther, PollNothing, Forward, Stop
<1>5. QED BY <1>1, <1>2, <1>3, <1>4

LEMMA NoneReadYetKept ==
  ASSUME HubTypeOK, NoneReadYet, [HubNext]_hubVars
  PROVE  NoneReadYet'
<1> USE DEF NoneReadYet
<1>1. ASSUME NEW d \in Devices, NEW a \in Actions, Triggers(d, a) PROVE NoneReadYet'
  BY <1>1, TriggerEffect
<1>2. ASSUME NEW d \in Devices, OtherReport(d) PROVE NoneReadYet'
  BY <1>2, OtherEffect
<1>3. CASE PollTrigger \/ PollOther
  BY <1>3, ReadEffect
<1>4. CASE UNCHANGED <<inbox, log>> /\ (phase' = "start" => phase = "start")
  BY <1>4
<1>5. phase' = "start" => phase = "start"
  BY DEF HubNext, HubStep, hubVars, loopVars, Open, OpenFails, BuildRoutes, Triggers, OtherReport,
         Unplug, PollTrigger, PollOther, PollNothing, Forward, Stop
<1>6. QED BY <1>1, <1>2, <1>3, <1>4, <1>5, BoxSteps

(* How the report in hand changes.                                          *)
LEMMA HandSteps ==
  ASSUME HubTypeOK, [HubNext]_hubVars
  PROVE  \/ PollTrigger /\ UNCHANGED told
         \/ \E h \in Devices : Forward(h)
         \/ UNCHANGED <<src, num, targets, told>>
BY DEF HubNext, HubStep, hubVars, loopVars, Open, OpenFails, BuildRoutes, Triggers, OtherReport,
       Unplug, PollOther, PollTrigger, PollNothing, Stop

(* The routing table is made while nothing is in hand and nothing told.     *)
LEMMA RoutesSteps ==
  ASSUME HubTypeOK, TableIsRight, [HubNext]_hubVars
  PROVE  \A a \in Actions : routes[a] \subseteq routes'[a]
<1>1. CASE BuildRoutes
  BY <1>1 DEF BuildRoutes, TableIsRight
<1>2. CASE UNCHANGED routes
  BY <1>2
<1>3. BuildRoutes \/ UNCHANGED routes
  BY DEF HubNext, HubStep, hubVars, startVars, Open, OpenFails, Triggers, OtherReport, Unplug,
         PollTrigger, PollOther, PollNothing, Forward, Stop
<1>4. QED BY <1>1, <1>2, <1>3

LEMMA InHandKept ==
  ASSUME HubTypeOK, InboxSorted, InHand, TableIsRight, [HubNext]_hubVars
  PROVE  InHand'
<1>1. CASE PollTrigger /\ UNCHANGED told
  <2>0. PICK d, n : d = devices[turn] /\ n = ReadOldest(inbox[d]).report
    OBVIOUS
  <2>1. /\ d \in Devices /\ n \in DOMAIN log[d] /\ \A m \in Waiting(d)' : n < m
        /\ \/ UNCHANGED <<src, num, targets>>
           \/ src' = d /\ num' = n /\ targets' = Targets(d, log[d][n])
    BY <1>1, <2>0, Taken
  <2>2. UNCHANGED <<log, routes>> /\ src = NoDevice
    BY <1>1, <2>0, ReadEffect
  <2>3. QED BY <2>1, <2>2 DEF InHand, Targets
<1>2. ASSUME NEW h \in Devices, Forward(h) PROVE InHand'
  <2>1. /\ src # NoDevice /\ targets' \subseteq targets /\ UNCHANGED <<log, routes, inbox>>
        /\ (src' = src /\ num' = num) \/ src' = NoDevice
    BY <1>2 DEF Forward, startVars, deviceVars
  <2>2. QED BY <2>1 DEF InHand, Waiting
<1>3. CASE UNCHANGED <<src, num, targets>>
  <2> SUFFICES ASSUME src # NoDevice
               PROVE  /\ \A h \in targets : h # src /\ h \in routes'[log'[src][num]]
                      /\ \A m \in Waiting(src)' : num < m
    BY <1>3 DEF InHand, Waiting
  <2>0. PICK s, n : s = src /\ n = num
    OBVIOUS
  <2>1. s \in Devices /\ n \in DOMAIN log[s]
    BY <2>0 DEF HubTypeOK, LoopTypeOK
  <2>2. /\ log'[s][n] = log[s][n] /\ log[s][n] \in Actions
        /\ \A m \in Waiting(s)' : m \in Waiting(s) \/ n < m
    BY <2>1, OnlyNewer, LoggedAreActions
  <2>3. /\ \A h \in targets : h # s /\ h \in routes[log[s][n]]
        /\ \A m \in Waiting(s) : n < m
    BY <2>0 DEF InHand
  <2>4. \A h \in targets : h # s /\ h \in routes'[log'[s][n]]
    BY <2>2, <2>3, RoutesSteps
  <2>5. QED BY <1>3, <2>0, <2>2, <2>3, <2>4 DEF Waiting
<1>4. QED BY <1>1, <1>2, <1>3, HandSteps

(* What has been told stays as it was.                                      *)
LEMMA ToldStays ==
  ASSUME HubTypeOK, InboxSorted, TableIsRight, [HubNext]_hubVars,
         NEW h \in Devices, NEW s \in Devices, NEW n \in Nat, ToldBefore(h, s, n)
  PROVE  ToldBefore(h, s, n)'
<1>1. /\ s # h /\ n \in DOMAIN log[s] /\ h \in routes[log[s][n]]
      /\ \A m \in Waiting(s) : n < m
      /\ s = src => n <= num /\ (h \in targets => n < num)
  BY DEF ToldBefore
<1>2. /\ n \in DOMAIN log'[s] /\ log'[s][n] = log[s][n] /\ log[s][n] \in Actions
      /\ \A m \in Waiting(s)' : n < m
  BY <1>1, OnlyNewer, LoggedAreActions
<1>3. h \in routes'[log'[s][n]]
  BY <1>1, <1>2, RoutesSteps
<1>4. s = src' => n <= num' /\ (h \in targets' => n < num')
  <2>1. CASE PollTrigger /\ UNCHANGED told
    <3> DEFINE d == devices[turn]
               k == ReadOldest(inbox[d]).report
    <3>1. /\ k \in Waiting(d) /\ d \in Devices /\ k \in DOMAIN log[d]
          /\ \/ UNCHANGED <<src, num, targets>>
             \/ src' = d /\ num' = k
      BY <2>1, Taken
    <3>2. k \in Nat
      BY <3>1, LoggedAreActions
    <3> HIDE DEF d, k
    <3>3. QED BY <1>1, <3>1, <3>2
  <2>2. ASSUME NEW g \in Devices, Forward(g)
        PROVE  s = src' => n <= num' /\ (h \in targets' => n < num')
    <3>1. targets' \subseteq targets /\ ((src' = src /\ num' = num) \/ src' = NoDevice)
      BY <2>2 DEF Forward
    <3>2. s # NoDevice
      BY BrokerAssumption
    <3>3. QED BY <1>1, <3>1, <3>2
  <2>3. CASE UNCHANGED <<src, num, targets>>
    BY <1>1, <2>3
  <2>4. QED BY <2>1, <2>2, <2>3, HandSteps
<1>5. QED BY <1>1, <1>2, <1>3, <1>4 DEF ToldBefore

(* What a device is told next.                                              *)
LEMMA ForwardTells ==
  ASSUME HubTypeOK, InHand, NEW h \in Devices, Forward(h)
  PROVE  /\ src \in Devices /\ num \in DOMAIN log[src] /\ num \in Nat
         /\ h # src /\ h \in routes[log[src][num]] /\ \A m \in Waiting(src) : num < m
         /\ h \in targets /\ targets' = targets \ {h} /\ src # NoDevice
         /\ (targets = {h} /\ src' = NoDevice) \/ (targets # {h} /\ src' = src /\ num' = num)
         /\ UNCHANGED <<devices, learned, log, routes, inbox, gone, phase>>
         /\ \/ h \in gone /\ UNCHANGED told
            \/ /\ h \notin gone /\ told[h] \in Seq(Devices \X Nat)
               /\ told'[h] = Append(told[h], <<src, num>>)
               /\ \A g \in Devices \ {h} : told'[g] = told[g]
               /\ told' = [told EXCEPT ![h] = Append(@, <<src, num>>)]
<1>1. /\ src # NoDevice /\ h \in targets /\ targets' = targets \ {h}
      /\ (targets = {h} /\ src' = NoDevice) \/ (targets # {h} /\ src' = src /\ num' = num)
      /\ UNCHANGED <<devices, learned, log, routes, inbox, gone, phase>>
      /\ told' = IF h \in gone THEN told ELSE [told EXCEPT ![h] = Append(@, <<src, num>>)]
  BY DEF Forward, startVars, deviceVars
<1>2. src \in Devices /\ num \in DOMAIN log[src] /\ told \in [Devices -> Seq(Devices \X Nat)]
  BY <1>1 DEF HubTypeOK, LoopTypeOK, ToldTypeOK
<1>3. num \in Nat
  BY <1>2, LoggedAreActions
<1>4. h # src /\ h \in routes[log[src][num]] /\ \A m \in Waiting(src) : num < m
  BY <1>1 DEF InHand
<1>5. QED BY <1>1, <1>2, <1>3, <1>4

(* A telling is an old one or the one that was in hand.                     *)
LEMMA Tellings ==
  ASSUME HubTypeOK, [HubNext]_hubVars, InHand, NEW h \in Devices
  PROVE  /\ told[h] \in Seq(Devices \X Nat) /\ told'[h] \in Seq(Devices \X Nat)
         /\ DOMAIN told[h] \subseteq DOMAIN told'[h]
         /\ \A k \in DOMAIN told[h] : told'[h][k] = told[h][k] /\ told[h][k] \in Devices \X Nat
         /\ \A k \in DOMAIN told'[h] \ DOMAIN told[h] :
              /\ Forward(h) /\ told'[h][k] = <<src, num>>
              /\ \A j \in DOMAIN told[h] : j < k
         /\ \A i, j \in DOMAIN told'[h] \ DOMAIN told[h] : i = j
<1>1. told[h] \in Seq(Devices \X Nat)
  BY DEF HubTypeOK, ToldTypeOK
<1>2. DOMAIN told[h] = 1..Len(told[h]) /\ Len(told[h]) \in Nat
  BY <1>1, LenProperties
<1>3. \A k \in DOMAIN told[h] : told[h][k] \in Devices \X Nat
  BY <1>1, <1>2, ElementOfSeq
<1>4. CASE told'[h] = told[h]
  BY <1>1, <1>3, <1>4
<1>5. CASE Forward(h) /\ told'[h] # told[h]
  <2>1. <<src, num>> \in Devices \X Nat /\ told'[h] = Append(told[h], <<src, num>>)
    BY <1>5, ForwardTells
  <2>2. /\ told'[h] \in Seq(Devices \X Nat) /\ Len(told'[h]) = Len(told[h]) + 1
        /\ told'[h][Len(told[h]) + 1] = <<src, num>>
        /\ \A k \in 1..Len(told[h]) : told'[h][k] = told[h][k]
    BY <1>1, <2>1, AddLast
  <2>3. DOMAIN told'[h] = 1..Len(told[h]) + 1
    BY <2>2, LenProperties
  <2>4. \A k \in DOMAIN told'[h] \ DOMAIN told[h] :
          k = Len(told[h]) + 1 /\ \A j \in DOMAIN told[h] : j < k
    BY <1>2, <2>3
  <2>5. DOMAIN told[h] \subseteq DOMAIN told'[h]
    BY <1>2, <2>3
  <2>6. QED BY <1>2, <1>3, <1>1, <1>5, <2>2, <2>4, <2>5
<1>6. told'[h] = told[h] \/ Forward(h)
  <2>1. CASE \E g \in Devices : Forward(g)
    BY <2>1, ForwardTells
  <2>2. QED BY <2>1, HandSteps
<1>7. QED BY <1>4, <1>5, <1>6

LEMMA AllToldBeforeKept ==
  ASSUME HubTypeOK, InboxSorted, InHand, AllToldBefore, TableIsRight, [HubNext]_hubVars
  PROVE  AllToldBefore'
<1>1. ASSUME NEW h \in Devices, NEW k \in DOMAIN told'[h], NEW s, NEW n, told'[h][k] = <<s, n>>
      PROVE  ToldBefore(h, s, n)'
  <2>1. CASE k \in DOMAIN told[h]
    <3>1. told[h][k] = <<s, n>> /\ <<s, n>> \in Devices \X Nat
      BY <1>1, <2>1, Tellings
    <3>2. ToldBefore(h, s, n)
      BY <2>1, <3>1 DEF AllToldBefore
    <3>3. QED BY <3>1, <3>2, ToldStays
  <2>2. CASE k \notin DOMAIN told[h]
    <3>1. Forward(h) /\ s = src /\ n = num
      BY <1>1, <2>2, Tellings
    <3>2. n \in Nat /\ s \in Devices
      BY <3>1, ForwardTells
    <3>3. s = src' => n <= num' /\ h \notin targets'
      BY <3>1, <3>2, ForwardTells, BrokerAssumption
    <3>4. QED BY <3>1, <3>3, ForwardTells DEF ToldBefore, Waiting
  <2>3. QED BY <2>1, <2>2
<1>2. ASSUME NEW h \in Devices, NEW k \in DOMAIN told'[h]
      PROVE  ToldBefore(h, told[h][k][1], told[h][k][2])'
  <2>1. PICK s, n : told'[h][k] = <<s, n>>
    <3>1. told'[h] \in Seq(Devices \X Nat)
      BY Tellings
    <3>2. told'[h][k] \in Devices \X Nat
      BY <3>1, ElementOfSeq, LenProperties
    <3>3. QED BY <3>2
  <2>2. ToldBefore(h, s, n)'
    BY <1>1, <2>1
  <2>3. s = told'[h][k][1] /\ n = told'[h][k][2]
    BY <2>1
  <2>4. QED BY <2>2, <2>3
<1>3. QED BY <1>2 DEF AllToldBefore

LEMMA OnceInOrderKept ==
  ASSUME HubTypeOK, InHand, AllToldBefore, OnceInOrder, [HubNext]_hubVars
  PROVE  OnceInOrder'
<1> SUFFICES ASSUME NEW h \in Devices, NEW i \in DOMAIN told'[h], NEW j \in DOMAIN told'[h],
                    i < j, told'[h][i][1] = told'[h][j][1]
             PROVE  told'[h][i][2] < told'[h][j][2]
  BY DEF OnceInOrder
<1>0. i \in Nat /\ j \in Nat
  <2>1. told'[h] \in Seq(Devices \X Nat)
    BY Tellings
  <2>2. QED BY <2>1, LenProperties
<1>1. CASE i \in DOMAIN told[h] /\ j \in DOMAIN told[h]
  <2>1. told'[h][i] = told[h][i] /\ told'[h][j] = told[h][j]
    BY <1>1, Tellings
  <2>2. QED BY <1>1, <2>1 DEF OnceInOrder
<1>2. CASE i \in DOMAIN told[h] /\ j \notin DOMAIN told[h]
  <2>1. Forward(h) /\ told'[h][j] = <<src, num>> /\ told'[h][i] = told[h][i]
    BY <1>2, Tellings
  <2>2. ToldBefore(h, told[h][i][1], told[h][i][2])
    BY <1>2 DEF AllToldBefore
  <2>3. QED BY <2>1, <2>2, ForwardTells DEF ToldBefore
<1>3. CASE i \notin DOMAIN told[h]
  <2>1. j \notin DOMAIN told[h]
    BY <1>0, <1>3, Tellings
  <2>2. QED BY <1>0, <1>3, <2>1, Tellings
<1>4. QED BY <1>1, <1>2, <1>3

(* Nothing that was told is untold.                                         *)
LEMMA TellingsStay ==
  ASSUME HubTypeOK, [HubNext]_hubVars, InHand, NEW h \in Devices
  PROVE  ToSet(told[h]) \subseteq ToSet(told'[h])
<1> SUFFICES ASSUME NEW e \in ToSet(told[h]) PROVE e \in ToSet(told'[h])
  OBVIOUS
<1>1. told[h] \in Seq(Devices \X Nat) /\ told'[h] \in Seq(Devices \X Nat)
  BY Tellings
<1>2. DOMAIN told[h] = 1..Len(told[h]) /\ DOMAIN told'[h] = 1..Len(told'[h])
  BY <1>1, LenProperties
<1>3. PICK k \in 1..Len(told[h]) : told[h][k] = e
  BY <1>1, InSequence
<1>4. k \in 1..Len(told'[h]) /\ told'[h][k] = e
  BY <1>2, <1>3, Tellings
<1>5. QED BY <1>1, <1>4, InSequence

LEMMA NothingForgottenKept ==
  ASSUME HubTypeOK, InboxSorted, InHand, TableIsRight, NoneReadYet, NothingForgotten,
         [HubNext]_hubVars
  PROVE  NothingForgotten'
<1> SUFFICES ASSUME phase' = "broker", NEW s \in Devices, NEW n \in DOMAIN log'[s],
                    NEW h \in Opened' \ (gone' \cup {s}), log'[s][n] \in learned'[h]
             PROVE  \/ n \in ToSet(inbox'[s])
                    \/ src' = s /\ num' = n /\ h \in targets'
                    \/ <<s, n>> \in ToSet(told'[h])
  BY DEF NothingForgotten
<1> DEFINE Kept == \/ n \in ToSet(inbox'[s])
                   \/ src' = s /\ num' = n /\ h \in targets'
                   \/ <<s, n>> \in ToSet(told'[h])
<1>0. h \in Devices
  BY StartTypeKept, InSequence DEF StartTypeOK, Opened
<1>1. CASE BuildRoutes
  BY <1>1 DEF BuildRoutes, deviceVars, NoneReadYet
<1>2. CASE phase = "broker" /\ UNCHANGED <<devices, learned, routes>> /\ gone \subseteq gone'
  <2>0. ASSUME n \in DOMAIN log[s]
        PROVE  \/ n \in ToSet(inbox[s])
               \/ src = s /\ num = n /\ h \in targets
               \/ <<s, n>> \in ToSet(told[h])
    <3>1. log[s][n] \in learned[h] /\ h \in Opened \ (gone \cup {s})
      BY <1>2, <2>0, OnlyNewer DEF Opened
    <3>2. QED BY <1>2, <2>0, <3>1 DEF NothingForgotten
  <2>1. <<s, n>> \in ToSet(told[h]) => Kept
    BY <1>0, TellingsStay
  <2>2. ASSUME NEW d \in Devices, NEW a \in Actions, Triggers(d, a) PROVE Kept
    <3>1. CASE s = d /\ n \notin DOMAIN log[s]
      BY <2>2, <3>1, TriggerEffect
    <3>2. CASE n \in DOMAIN log[s]
      BY <2>0, <2>1, <2>2, <3>2, TriggerEffect
    <3>3. QED BY <2>2, <3>1, <3>2, TriggerEffect
  <2>3. ASSUME NEW d \in Devices, OtherReport(d) PROVE Kept
    BY <2>0, <2>1, <2>3, OtherEffect
  <2>4. CASE PollOther
    <3>1. n \in DOMAIN log[s] /\ src = NoDevice /\ s # NoDevice
      BY <2>4, ReadEffect, BrokerAssumption
    <3>2. CASE n \in ToSet(inbox[s])
      <4>1. ReadOldest(inbox[devices[turn]]).report = 0 /\ n # 0
        BY <2>4, <3>1 DEF PollOther, HubTypeOK, DeviceTypeOK, BoxTypeOK
      <4>2. QED BY <2>4, <3>2, <4>1, ReadEffect
    <3>3. QED BY <2>0, <2>1, <3>1, <3>2
  <2>5. CASE PollTrigger
    <3>0. PICK d, k : d = devices[turn] /\ k = ReadOldest(inbox[d]).report
      OBVIOUS
    <3>1. n \in DOMAIN log[s] /\ src = NoDevice /\ s # NoDevice /\ UNCHANGED <<log, routes>>
      BY <2>5, <3>0, ReadEffect, BrokerAssumption
    <3>2. CASE n \in ToSet(inbox[s]) /\ ~(s = d /\ n = k)
      BY <2>5, <3>0, <3>2, ReadEffect
    <3>3. CASE s = d /\ n = k
      <4>1. log[s][n] \in Actions /\ log'[s][n] = log[s][n]
        BY <3>1, LoggedAreActions
      <4>2. h \in Route(log[s][n])
        BY <1>2, <4>1 DEF Route, Opened
      <4>3. h \in routes[log[s][n]]
        BY <1>2, <4>1, <4>2 DEF TableIsRight
      <4>4. h \in Targets(d, log[d][k])
        BY <3>3, <4>3 DEF Targets
      <4>5. QED BY <2>5, <3>0, <3>3, <4>4, Taken
    <3>4. QED BY <2>0, <2>1, <3>1, <3>2, <3>3
  <2>6. ASSUME NEW g \in Devices, Forward(g) PROVE Kept
    <3>1. n \in DOMAIN log[s] /\ ToSet(inbox'[s]) = ToSet(inbox[s])
      BY <2>6, ForwardTells
    <3>2. CASE src = s /\ num = n /\ h \in targets
      <4>1. CASE g = h
        <5>1. h \notin gone
          BY <1>2
        <5>2. told[h] \in Seq(Devices \X Nat) /\ <<s, n>> \in Devices \X Nat
              /\ told'[h] = Append(told[h], <<s, n>>)
          BY <2>6, <3>2, <4>1, <5>1, ForwardTells
        <5>3. <<s, n>> \in ToSet(told'[h])
          BY <5>2, AddLast
        <5>4. QED BY <5>3
      <4>2. CASE g # h
        BY <2>6, <3>2, <4>2, ForwardTells
      <4>3. QED BY <4>1, <4>2
    <3>3. QED BY <2>0, <2>1, <3>1, <3>2
  <2>7. CASE UNCHANGED <<inbox, log, src, num, targets>>
    BY <2>0, <2>1, <2>7
  <2>8. UNCHANGED <<src, num, targets>> \/ PollTrigger \/ \E g \in Devices : Forward(g)
    BY HandSteps
  <2>9. QED BY <2>2, <2>3, <2>4, <2>5, <2>6, <2>7, <2>8, BoxSteps
<1>3. BuildRoutes \/ (phase = "broker" /\ UNCHANGED <<devices, learned, routes>> /\ gone \subseteq gone')
  BY DEF HubNext, HubStep, hubVars, startVars, loopVars, deviceVars, Open, OpenFails, Triggers,
         OtherReport, Unplug, PollTrigger, PollOther, PollNothing, Forward, Stop
<1>4. QED BY <1>1, <1>2, <1>3

-----------------------------------------------------------------------------
LEMMA HubInvariant == HubSpec => []HubInv
<1>1. HubInit => HubInv
  <2> SUFFICES ASSUME HubInit PROVE HubInv
    OBVIOUS
  <2>1. HubTypeOK
    BY HubTypeHolds
  <2>2. ASSUME NEW d \in Devices PROVE inbox[d] = <<>> /\ log[d] = <<>> /\ told[d] = <<>>
    BY DEF HubInit
  <2>3. DOMAIN <<>> = {}
    BY EmptySeq, LenProperties
  <2>4. InboxSorted /\ AllToldBefore /\ NoneReadYet /\ OnceInOrder
    BY <2>2, <2>3 DEF InboxSorted, Sorted, AllToldBefore, NoneReadYet, OnceInOrder
  <2>5. InHand /\ TableIsRight /\ NothingForgotten
    BY BrokerAssumption DEF HubInit, InHand, TableIsRight, NothingForgotten
  <2>6. QED BY <2>1, <2>4, <2>5 DEF HubInv
<1>2. HubInv /\ [HubNext]_hubVars => HubInv'
  BY HubTypeStep, InboxSortedKept, InHandKept, AllToldBeforeKept, TableIsRightKept,
     NoneReadYetKept, OnceInOrderKept, NothingForgottenKept DEF HubInv
<1>3. QED BY <1>1, <1>2, PTL DEF HubSpec

(* Whatever the devices do, whichever are unplugged and however far the hub *)
(* gets, no trigger is written to a device twice and those of one source    *)
(* are written in order (hid_viz_hub.py:239-251, 270-283).                  *)
THEOREM OnceInOrderInvariant == HubSpec => []OnceInOrder
<1>1. HubInv => OnceInOrder
  BY DEF HubInv
<1>2. QED BY <1>1, HubInvariant, PTL

(* Only a device that said it handles an action is written it, and never    *)
(* the one that triggered it (hid_viz_hub.py:198-204, 244).                 *)
THEOREM OnlyToHandlersInvariant == HubSpec => []OnlyToHandlers
<1>1. HubInv => OnlyToHandlers
  <2> SUFFICES ASSUME HubInv, NEW h \in Devices, NEW k \in DOMAIN told[h]
               PROVE  LET s == told[h][k][1]
                          n == told[h][k][2]
                      IN  s # h /\ n \in DOMAIN log[s] /\ log[s][n] \in Handles[h]
    BY DEF OnlyToHandlers
  <2>1. told[h] \in Seq(Devices \X Nat)
    BY DEF HubInv, HubTypeOK, ToldTypeOK
  <2>2. told[h][k] \in Devices \X Nat
    BY <2>1, ElementOfSeq, LenProperties
  <2>3. PICK s \in Devices, n \in Nat : told[h][k] = <<s, n>>
    BY <2>2
  <2>4. s # h /\ n \in DOMAIN log[s] /\ h \in routes[log[s][n]]
    BY <2>3 DEF HubInv, AllToldBefore, ToldBefore
  <2>5. log[s][n] \in Actions
    BY <2>4, LoggedAreActions DEF HubInv
  <2>6. log[s][n] \in learned[h]
    BY <2>4, <2>5 DEF HubInv, TableIsRight, Route
  <2>7. log[s][n] \in Handles[h]
    BY <2>6 DEF HubInv, TableIsRight
  <2>8. QED BY <2>3, <2>4, <2>7
<1>2. QED BY <1>1, HubInvariant, PTL

(* While the hub brokers, what it has read is written, or about to be       *)
(* written, to every other device known to handle it that is still there    *)
(* (hid_viz_hub.py:243-251).                                                *)
THEOREM NothingForgottenInvariant == HubSpec => []NothingForgotten
<1>1. HubInv => NothingForgotten
  BY DEF HubInv
<1>2. QED BY <1>1, HubInvariant, PTL

-----------------------------------------------------------------------------
(* What the hub is about to write is the oldest its handler is owed.        *)
LEMMA OldestOwed ==
  ASSUME HubInv, NEW h \in Devices, Forward(h), h \notin gone
  PROVE  num \in Promise!Owed(src, h) /\ \A m \in Promise!Owed(src, h) : num <= m
<1> USE DEF HubInv
<1>0. Promise!ToSet(told[h]) = ToSet(told[h])
  BY DEF Promise!ToSet, ToSet
<1>1. /\ src \in Devices /\ num \in DOMAIN log[src] /\ num \in Nat
      /\ h # src /\ h \in routes[log[src][num]] /\ \A m \in Waiting(src) : num < m
      /\ h \in targets /\ phase = "broker"
  BY ForwardTells DEF Forward
<1>2. <<src, num>> \notin ToSet(told[h])
  <2> SUFFICES ASSUME <<src, num>> \in ToSet(told[h]) PROVE FALSE
    OBVIOUS
  <2>1. told[h] \in Seq(Devices \X Nat)
    BY DEF HubTypeOK, ToldTypeOK
  <2>2. PICK k \in 1..Len(told[h]) : told[h][k] = <<src, num>>
    BY <2>1, InSequence
  <2>3. k \in DOMAIN told[h]
    BY <2>1, LenProperties
  <2>4. ToldBefore(h, src, num)
    BY <2>2, <2>3 DEF AllToldBefore
  <2>5. QED BY <1>1, <2>4 DEF ToldBefore
<1>3. ASSUME NEW m \in Promise!Owed(src, h) PROVE num <= m
  <2>1. m \in DOMAIN log[src] /\ h \in routes[log[src][m]] /\ <<src, m>> \notin ToSet(told[h])
    BY <1>0, <1>3 DEF Promise!Owed, Promise!Wants, Promise!Told
  <2>2. log[src][m] \in Actions /\ m \in DOMAIN log[src] /\ m \in Nat
    BY <1>1, <2>1, LoggedAreActions
  <2>3. h \in Opened /\ log[src][m] \in learned[h]
    BY <1>1, <2>1, <2>2 DEF TableIsRight, Route
  <2>4. m \in ToSet(inbox[src]) \/ num = m
    BY <1>1, <2>1, <2>3 DEF NothingForgotten
  <2>5. m # 0
    <3>1. log[src] \in Seq(Actions)
      BY <1>1 DEF HubTypeOK, DeviceTypeOK, BoxTypeOK
    <3>2. QED BY <2>1, <3>1, LenProperties
  <2>6. QED BY <1>1, <2>2, <2>4, <2>5 DEF Waiting
<1>4. QED BY <1>0, <1>1, <1>2, <1>3 DEF Promise!Owed, Promise!Wants, Promise!Told

(* Every step of the hub and its devices is one the broker it promises to   *)
(* be may take, or none; that what is owed is told in the end is left to    *)
(* the model checker (tools/hid_viz_hub.py:198-204, 239-283).               *)
THEOREM RefinesBroker ==
  HubSpec => Promise!BrokerInit /\ [][Promise!BrokerNext]_(Promise!brokerVars)
<1> USE BrokerAssumption
<1>1. HubInit => Promise!BrokerInit
  BY DEF HubInit, Promise!BrokerInit
<1>2. HubInv /\ [HubNext]_hubVars => [Promise!BrokerNext]_(Promise!brokerVars)
  <2> SUFFICES ASSUME HubInv, [HubNext]_hubVars
               PROVE  Promise!BrokerNext \/ UNCHANGED Promise!brokerVars
    OBVIOUS
  <2> USE DEF Promise!brokerVars
  <2>0. HubTypeOK /\ InHand
    BY DEF HubInv
  <2>1. CASE Open \/ OpenFails
    BY <2>1 DEF Open, OpenFails, loopVars, deviceVars
  <2>2. CASE BuildRoutes
    <3>1. routes' \in [Actions -> SUBSET Devices]
      BY <2>0, StartTypeKept DEF StartTypeOK
    <3>2. PICK table : table = routes'
      OBVIOUS
    <3>3. phase = "start" /\ phase' = "broker" /\ UNCHANGED <<log, told, gone>>
      BY <2>2 DEF BuildRoutes, deviceVars
    <3>4. Promise!Serve(table)
      BY <3>2, <3>3 DEF Promise!Serve
    <3>5. QED BY <3>1, <3>2, <3>4 DEF Promise!BrokerNext
  <2>3. ASSUME NEW d \in Devices, NEW a \in Actions, Triggers(d, a) PROVE Promise!BrokerNext
    <3>1. Promise!Trigger(d, a)
      BY <2>3 DEF Triggers, Promise!Trigger, startVars, loopVars
    <3>2. QED BY <3>1 DEF Promise!BrokerNext
  <2>4. ASSUME NEW d \in Devices, OtherReport(d) PROVE UNCHANGED Promise!brokerVars
    BY <2>4 DEF OtherReport, startVars, loopVars
  <2>5. ASSUME NEW d \in Devices, Unplug(d) PROVE Promise!BrokerNext
    <3>1. gone' = gone \cup {d} /\ UNCHANGED <<log, told, routes, phase>>
      BY <2>5 DEF Unplug, startVars, loopVars
    <3>2. Promise!Leave(d)
      BY <3>1 DEF Promise!Leave
    <3>3. QED BY <3>2 DEF Promise!BrokerNext
  <2>6. CASE PollTrigger \/ PollOther \/ PollNothing
    BY <2>6 DEF PollTrigger, PollOther, PollNothing, startVars, deviceVars
  <2>7. ASSUME NEW h \in Devices, Forward(h)
        PROVE  Promise!BrokerNext \/ UNCHANGED Promise!brokerVars
    <3>1. phase = "broker" /\ UNCHANGED <<log, routes, phase, gone>> /\ src \in Devices /\ src # h
      BY <2>0, <2>7, ForwardTells DEF Forward
    <3>2. CASE h \in gone
      BY <2>7, <3>1, <3>2 DEF Forward
    <3>3. CASE h \notin gone
      <4>1. told' = [told EXCEPT ![h] = Append(@, <<src, num>>)]
        BY <2>7, <3>3 DEF Forward
      <4>2. Promise!Tell(src, h)
        BY <2>7, <3>1, <3>3, <4>1, OldestOwed DEF Promise!Tell
      <4>3. QED BY <3>1, <4>2 DEF Promise!BrokerNext
    <3>4. QED BY <3>2, <3>3
  <2>8. CASE Stop
    BY <2>8 DEF Stop, Promise!BrokerNext, Promise!Retire, startVars, deviceVars
  <2>9. CASE UNCHANGED hubVars
    BY <2>9 DEF hubVars, startVars, loopVars, deviceVars
  <2>10. \A d \in Devices : Emits[d] \subseteq Actions
    OBVIOUS
  <2>11. QED
    BY <2>1, <2>2, <2>3, <2>4, <2>5, <2>6, <2>7, <2>8, <2>9, <2>10 DEF HubNext, HubStep
<1>3. QED BY <1>1, <1>2, HubInvariant, PTL DEF HubSpec
=============================================================================
