---------------------------- MODULE WorkersProofs ----------------------------
(***************************************************************************)
(* The safety of the firmware's components: the transmit funnel for every  *)
(* set of threads with distinct priorities, the dispatcher's queue for     *)
(* every depth and every set of commands, the manifest worker's hand-over  *)
(* for every length of the stream; and of the three joined (Workers).      *)
(***************************************************************************)
EXTENDS Workers, SequenceTheorems, TLAPS

-----------------------------------------------------------------------------
(***************************************************************************)
(* The funnel (hid_viz_send.c).                                            *)
(***************************************************************************)
(* The funnel's safety needs no fairness: what is said of TxSteps holds of  *)
(* every system whose steps in the funnel are steps of this one.            *)
TxSteps == TxInit /\ [][TxNext]_txVars

LEMMA TxTypes == TxSteps => []TxTypeOK
<1>1. TxInit => TxTypeOK
  <2> SUFFICES ASSUME TxInit PROVE TxTypeOK
    OBVIOUS
  <2>1. 0 \in 0..WaitCap
    BY TxAssumption DEF TxAssumption
  <2>2. QED BY <2>1 DEF TxInit, TxTypeOK, TxStates
<1>2. TxTypeOK /\ [TxNext]_txVars => TxTypeOK'
  <2> SUFFICES ASSUME TxTypeOK, [TxNext]_txVars PROVE TxTypeOK'
    OBVIOUS
  <2> USE TxAssumption DEF TxTypeOK, TxStates
  <2>1. CASE HostRead
    BY <2>1 DEF HostRead
  <2>2. ASSUME NEW t \in Threads, Lock(t) PROVE TxTypeOK'
    BY <2>2 DEF Lock
  <2>3. ASSUME NEW t \in Threads, Write(t) PROVE TxTypeOK'
    BY <2>3 DEF Write
  <2>4. ASSUME NEW t \in Threads, GiveUp(t) PROVE TxTypeOK'
    BY <2>4 DEF GiveUp
  <2>5. ASSUME NEW t \in Threads, Unlock(t) PROVE TxTypeOK'
    <3>1. waited' \in [Threads -> 0..WaitCap]
      BY <2>5 DEF Unlock, CountReport
    <3>2. tx' \in [Threads -> TxStates] /\ owner' \in Threads \cup {NoThread}
      BY <2>5 DEF Unlock, HandOver, Waiters
    <3>3. QED BY <2>5, <3>1, <3>2 DEF Unlock
  <2>6. CASE UNCHANGED txVars
    BY <2>6 DEF txVars
  <2>7. QED
    BY <2>1, <2>2, <2>3, <2>4, <2>5, <2>6 DEF TxNext, TxStep
<1>3. QED BY <1>1, <1>2, PTL DEF TxSteps

(* Type correctness: each variable keeps its type whoever calls             *)
(* hid_viz_send(), from whichever contexts.                                 *)
THEOREM TxTypeCorrect == TxSpec => []TxTypeOK
BY TxTypes, PTL DEF TxSpec, TxSteps

-----------------------------------------------------------------------------
(* The owner of the mutex is exactly the thread in the transport.           *)
OwnerInTransport ==
  /\ \A t \in Threads : InTransport(t) <=> owner = t
  /\ owner = NoThread => Waiters = {}

LEMMA OwnerInTransportInvariant == TxSteps => []OwnerInTransport
<1> USE DEF InTransport
<1>1. TxInit => OwnerInTransport
  BY TxAssumption DEF TxInit, OwnerInTransport, Waiters
<1>2. TxTypeOK /\ OwnerInTransport /\ [TxNext]_txVars => OwnerInTransport'
  <2> SUFFICES ASSUME TxTypeOK, OwnerInTransport, [TxNext]_txVars
               PROVE  OwnerInTransport'
    OBVIOUS
  <2> USE TxAssumption DEF TxTypeOK, TxStates, OwnerInTransport, Waiters
  <2>1. CASE HostRead
    BY <2>1 DEF HostRead
  <2>2. ASSUME NEW t \in Threads, Lock(t) PROVE OwnerInTransport'
    BY <2>2 DEF Lock
  <2>3. ASSUME NEW t \in Threads, Write(t) PROVE OwnerInTransport'
    BY <2>3 DEF Write
  <2>4. ASSUME NEW t \in Threads, GiveUp(t) PROVE OwnerInTransport'
    BY <2>4 DEF GiveUp
  <2>5. ASSUME NEW t \in Threads, Unlock(t) PROVE OwnerInTransport'
    <3>1. CASE HandOver(t)
      <4>1. PICK u \in Waiters :
              owner' = u /\ tx' = [tx EXCEPT ![t] = "out", ![u] = "sending"]
        BY <3>1 DEF HandOver
      <4>2. u # t /\ owner = t
        BY <4>1, <2>5 DEF Unlock
      <4>3. QED BY <4>1, <4>2
    <3>2. CASE Waiters = {} /\ owner' = NoThread /\ tx' = [tx EXCEPT ![t] = "out"]
      BY <3>2, <2>5 DEF Unlock
    <3>3. QED BY <2>5, <3>1, <3>2 DEF Unlock
  <2>6. CASE UNCHANGED txVars
    BY <2>6 DEF txVars
  <2>7. QED
    BY <2>1, <2>2, <2>3, <2>4, <2>5, <2>6 DEF TxNext, TxStep
<1>3. QED BY <1>1, <1>2, TxTypes, PTL DEF TxSteps

LEMMA NeverTwo == TxSteps => []OneInTransport
<1>1. OwnerInTransport => OneInTransport
  BY DEF OwnerInTransport, OneInTransport
<1>2. QED BY <1>1, OwnerInTransportInvariant, PTL

(* Two senders are never inside the transport's send_report() together.     *)
THEOREM MutualExclusion == TxSpec => []OneInTransport
BY NeverTwo, PTL DEF TxSpec, TxSteps

LEMMA SleepersWake == TxSteps => []SleepersHaveHolder
<1>1. TxTypeOK /\ OwnerInTransport => SleepersHaveHolder
  BY DEF TxTypeOK, OwnerInTransport, SleepersHaveHolder, Waiters
<1>2. QED BY <1>1, TxTypes, OwnerInTransportInvariant, PTL

(* A sender asleep on hid_viz_tx_mutex always has someone to wake it.       *)
THEOREM NoLostWakeup == TxSpec => []SleepersHaveHolder
BY SleepersWake, PTL DEF TxSpec, TxSteps

-----------------------------------------------------------------------------
(* While the most urgent thread sleeps no report has gone by, because the   *)
(* first one to leave the transport hands the mutex to it.                  *)
UrgentServedFirst ==
  \A t \in Threads : MostUrgent(t) =>
    /\ tx[t] \in {"out", "waiting"} => waited[t] = 0
    /\ InTransport(t) => waited[t] <= 1

LEMMA UrgentWait == TxSteps => []MostUrgentWaitsOneReport
<1> USE DEF InTransport
<1>1. TxInit => UrgentServedFirst
  BY DEF TxInit, UrgentServedFirst
<1>2. TxTypeOK /\ UrgentServedFirst /\ [TxNext]_txVars => UrgentServedFirst'
  <2> SUFFICES ASSUME TxTypeOK, UrgentServedFirst, [TxNext]_txVars,
                      NEW t \in Threads, MostUrgent(t)
               PROVE  /\ tx'[t] \in {"out", "waiting"} => waited'[t] = 0
                      /\ InTransport(t)' => waited'[t] <= 1
    BY DEF UrgentServedFirst, MostUrgent
  <2> USE TxAssumption DEF TxTypeOK, TxStates, UrgentServedFirst
  <2>1. CASE HostRead
    BY <2>1 DEF HostRead
  <2>2. ASSUME NEW u \in Threads, Lock(u) \/ Write(u) \/ GiveUp(u)
        PROVE  /\ tx'[t] \in {"out", "waiting"} => waited'[t] = 0
               /\ InTransport(t)' => waited'[t] <= 1
    BY <2>2 DEF Lock, Write, GiveUp
  <2>3. ASSUME NEW u \in Threads, Unlock(u)
        PROVE  /\ tx'[t] \in {"out", "waiting"} => waited'[t] = 0
               /\ InTransport(t)' => waited'[t] <= 1
    <3>1. CASE t = u
      BY <2>3, <3>1 DEF Unlock, CountReport, HandOver, Waiters
    <3>2. CASE t # u /\ tx[t] # "waiting"
      BY <2>3, <3>2 DEF Unlock, CountReport, HandOver, Waiters
    <3>3. CASE t # u /\ tx[t] = "waiting"
      <4>1. PICK w \in Waiters :
              /\ \A v \in Waiters : Prio[v] <= Prio[w]
              /\ tx' = [tx EXCEPT ![u] = "out", ![w] = "sending"]
        BY <2>3, <3>3 DEF Unlock, HandOver, Waiters
      <4>2. w = t
        BY <3>3, <4>1 DEF Waiters, MostUrgent
      <4>3. InTransport(t)' /\ waited'[t] <= 1
        BY <2>3, <3>3, <4>1, <4>2 DEF Unlock, CountReport, Waiters
      <4>4. QED BY <4>3
    <3>4. QED BY <3>1, <3>2, <3>3
  <2>4. CASE UNCHANGED txVars
    BY <2>4 DEF txVars
  <2>5. QED BY <2>1, <2>2, <2>3, <2>4 DEF TxNext, TxStep
<1>3. TxTypeOK /\ UrgentServedFirst => MostUrgentWaitsOneReport
  BY DEF TxTypeOK, TxStates, UrgentServedFirst, MostUrgentWaitsOneReport
<1>4. QED BY <1>1, <1>2, <1>3, TxTypes, PTL DEF TxSteps

(* The claim of hid_viz_send.h:21 holds for the most urgent sender: at most *)
(* one report goes out while it waits, in every configuration.              *)
THEOREM UrgentBound == TxSpec => []MostUrgentWaitsOneReport
BY UrgentWait, PTL DEF TxSpec, TxSteps

-----------------------------------------------------------------------------
(***************************************************************************)
(* The dispatcher's queue (command_dispatch.c).                            *)
(***************************************************************************)
(* Safety needs no fairness; what is said of QueueSteps holds of every      *)
(* system that handles the queue as this one does.                          *)
QueueSteps == QueueInit /\ [][QueueNext]_queueVars

LEMMA QueueTypes == QueueSteps => []QueueTypeOK
<1> USE QueueAssumption
<1>1. QueueInit => QueueTypeOK
  BY DEF QueueInit, QueueTypeOK
<1>2. QueueTypeOK /\ [QueueNext]_queueVars => QueueTypeOK'
  <2> SUFFICES ASSUME QueueTypeOK, [QueueNext]_queueVars PROVE QueueTypeOK'
    OBVIOUS
  <2> USE DEF QueueTypeOK
  <2>1. ASSUME NEW c \in Commands, Put(c) PROVE QueueTypeOK'
    <3>1. CASE PutToWorker(c)
      BY <2>1, <3>1 DEF Put, PutToWorker
    <3>2. CASE PutInQueue(c)
      BY <2>1, <3>2 DEF Put, PutInQueue
    <3>3. CASE Drop
      BY <2>1, <3>3 DEF Put, Drop
    <3>4. QED BY <2>1, <3>1, <3>2, <3>3 DEF Put
  <2>2. CASE Finish
    <3>1. CASE cmd_msgq = <<>>
      BY <2>2, <3>1 DEF Finish
    <3>2. CASE cmd_msgq # <<>>
      <4>1. /\ Head(cmd_msgq) \in Commands
            /\ Tail(cmd_msgq) \in Seq(Commands)
            /\ Len(Tail(cmd_msgq)) = Len(cmd_msgq) - 1
        BY <3>2, HeadTailProperties
      <4>2. QED BY <2>2, <3>2, <4>1 DEF Finish
    <3>3. QED BY <3>1, <3>2
  <2>3. CASE UNCHANGED queueVars
    BY <2>3 DEF queueVars
  <2>4. QED BY <2>1, <2>2, <2>3 DEF QueueNext
<1>3. QED BY <1>1, <1>2, PTL DEF QueueSteps

(* Type correctness; in particular cmd_msgq never exceeds its depth.        *)
THEOREM QueueTypeCorrect == QueueSpec => []QueueTypeOK
BY QueueTypes, PTL DEF QueueSpec, QueueSteps

-----------------------------------------------------------------------------
LEMMA AcceptedIsServed == QueueSteps => []NothingLost
<1> USE QueueAssumption
<1>1. QueueInit => NothingLost
  BY DEF QueueInit, NothingLost
<1>2. QueueTypeOK /\ NothingLost /\ [QueueNext]_queueVars => NothingLost'
  <2> SUFFICES ASSUME QueueTypeOK, NothingLost, [QueueNext]_queueVars
               PROVE  NothingLost'
    OBVIOUS
  <2> USE DEF QueueTypeOK, NothingLost
  <2>1. ASSUME NEW c \in Commands, PutToWorker(c), UNCHANGED served
        PROVE  NothingLost'
    BY <2>1 DEF PutToWorker
  <2>2. ASSUME NEW c \in Commands, PutInQueue(c), UNCHANGED served
        PROVE  NothingLost'
    BY <2>2 DEF PutInQueue
  <2>3. CASE Drop /\ UNCHANGED served
    BY <2>3 DEF Drop
  <2>4. CASE Finish
    <3>1. CASE cmd_msgq = <<>>
      BY <2>4, <3>1 DEF Finish
    <3>2. CASE cmd_msgq # <<>>
      <4>1. /\ Len(cmd_msgq') = Len(cmd_msgq) - 1
            /\ \A k \in 1..Len(cmd_msgq') : cmd_msgq'[k] = cmd_msgq[k + 1]
            /\ cmd_msgq' \in Seq(Commands)
        BY <2>4, <3>2, HeadTailProperties DEF Finish
      <4>2. /\ item # NoCommand /\ item' = cmd_msgq[1] /\ item' \in Commands
            /\ served' = served + 1 /\ accepted' = accepted
            /\ Len(cmd_msgq) \in Nat \ {0}
        BY <2>4, <3>2 DEF Finish
      <4>3. accepted'[served' + 1] = item'
        BY <4>2
      <4>4. ASSUME NEW k \in 1..Len(cmd_msgq')
            PROVE  accepted'[served' + 1 + k] = cmd_msgq'[k]
        <5>1. k + 1 \in 1..Len(cmd_msgq)
          BY <4>1, <4>2
        <5>2. accepted[served + 1 + (k + 1)] = cmd_msgq[k + 1]
          BY <5>1, <4>2
        <5>3. QED BY <4>1, <4>2, <5>2
      <4>5. Len(accepted') = served' + 1 + Len(cmd_msgq')
        <5>1. Len(accepted) = served + 1 + Len(cmd_msgq)
          BY <4>2
        <5>2. QED BY <4>1, <4>2, <5>1
      <4>6. QED BY <4>2, <4>3, <4>4, <4>5
    <3>3. QED BY <3>1, <3>2
  <2>5. CASE UNCHANGED queueVars
    BY <2>5 DEF queueVars
  <2>6. QED BY <2>1, <2>2, <2>3, <2>4, <2>5 DEF QueueNext, Put
<1>3. QED BY <1>1, <1>2, QueueTypes, PTL DEF QueueSteps

(* Nothing the listener accepted is lost, doubled or overtaken.             *)
THEOREM NothingLostInvariant == QueueSpec => []NothingLost
BY AcceptedIsServed, PTL DEF QueueSpec, QueueSteps

-----------------------------------------------------------------------------
(* Step simulation: the listener's put is an Accept or a Refuse of the      *)
(* abstract FIFO, the worker's return to k_msgq_get a Serve.                *)
THEOREM RefinesLossyFifo ==
  QueueSpec => Fifo!FifoInit /\ [][Fifo!FifoNext]_(Fifo!fifoVars)
<1> USE QueueAssumption
<1>1. QueueInit => Fifo!FifoInit
  BY DEF QueueInit, Fifo!FifoInit
<1>2. QueueTypeOK /\ NothingLost /\ [QueueNext]_queueVars
        => [Fifo!FifoNext]_(Fifo!fifoVars)
  <2> SUFFICES ASSUME QueueTypeOK, NothingLost, [QueueNext]_queueVars
               PROVE  Fifo!FifoNext \/ UNCHANGED Fifo!fifoVars
    OBVIOUS
  <2> USE DEF QueueTypeOK, NothingLost
  <2>1. ASSUME NEW c \in Commands, PutToWorker(c), UNCHANGED served
        PROVE  Fifo!Accept(c)
    BY <2>1 DEF PutToWorker, Fifo!Accept, Fifo!Due
  <2>2. ASSUME NEW c \in Commands, PutInQueue(c), UNCHANGED served
        PROVE  Fifo!Accept(c)
    BY <2>2 DEF PutInQueue, Fifo!Accept, Fifo!Due
  <2>3. CASE Drop /\ UNCHANGED served
    BY <2>3 DEF Drop, Fifo!Refuse, Fifo!FifoNext
  <2>4. CASE Finish
    <3>1. CASE cmd_msgq = <<>>
      <4>1. Len(accepted) = served + 1 /\ served' = served + 1
            /\ item' = NoCommand /\ UNCHANGED <<accepted, refused>>
        BY <2>4, <3>1 DEF Finish
      <4>2. Fifo!Due(accepted, served') = NoCommand
        BY <4>1 DEF Fifo!Due
      <4>3. QED BY <4>1, <4>2 DEF Fifo!Serve, Fifo!FifoNext
    <3>2. CASE cmd_msgq # <<>>
      <4>1. /\ served' = served + 1 /\ item' = cmd_msgq[1]
            /\ UNCHANGED <<accepted, refused>>
            /\ Len(cmd_msgq) \in Nat \ {0} /\ item # NoCommand
        BY <2>4, <3>2 DEF Finish
      <4>2. accepted[served + 2] = cmd_msgq[1] /\ served + 1 < Len(accepted)
        BY <4>1
      <4>3. Fifo!Due(accepted, served') = item'
        BY <4>1, <4>2 DEF Fifo!Due
      <4>4. QED BY <4>1, <4>2, <4>3 DEF Fifo!Serve, Fifo!FifoNext
    <3>3. QED BY <3>1, <3>2 DEF Fifo!FifoNext
  <2>5. CASE UNCHANGED queueVars
    BY <2>5 DEF queueVars, Fifo!fifoVars
  <2>6. QED
    BY <2>1, <2>2, <2>3, <2>4, <2>5 DEF QueueNext, Put, Fifo!FifoNext
<1>3. QED
  BY <1>1, <1>2, QueueTypeCorrect, NothingLostInvariant, PTL DEF QueueSpec

-----------------------------------------------------------------------------
(***************************************************************************)
(* The manifest worker's hand-over of requests (manifest.c).               *)
(***************************************************************************)
(* Safety needs no fairness; what is said of ManifestSteps holds of every   *)
(* system in which the manifest worker takes these steps.                   *)
ManifestSteps == ManifestInit /\ [][ManifestNext]_manifestVars

LEMMA ManifestTypes == ManifestSteps => []ManifestTypeOK
<1> USE ManifestAssumption DEF ManifestTypeOK, WorkerStates
<1>1. ManifestInit => ManifestTypeOK
  BY DEF ManifestInit
<1>2. ManifestTypeOK /\ [ManifestNext]_manifestVars => ManifestTypeOK'
  <2> SUFFICES ASSUME ManifestTypeOK, [ManifestNext]_manifestVars
               PROVE  ManifestTypeOK'
    OBVIOUS
  <2>1. ASSUME NEW i \in StartIndices, Request(i) PROVE ManifestTypeOK'
    BY <2>1 DEF Request
  <2>2. CASE Give
    BY <2>2 DEF Give
  <2>3. CASE ReadStart
    BY <2>3 DEF ReadStart
  <2>4. CASE Mute
    BY <2>4 DEF Mute
  <2>5. CASE NextEntry \/ EndStream
    BY <2>5 DEF NextEntry, EndStream
  <2>6. CASE Unmute
    BY <2>6 DEF Unmute
  <2>7. CASE UNCHANGED manifestVars
    BY <2>7 DEF manifestVars
  <2>8. QED
    BY <2>1, <2>2, <2>3, <2>4, <2>5, <2>6, <2>7 DEF ManifestNext, WorkerStep
<1>3. QED BY <1>1, <1>2, PTL DEF ManifestSteps

(* Type correctness; in particular the semaphore stays at most 1.           *)
THEOREM ManifestTypeCorrect == ManifestSpec => []ManifestTypeOK
BY ManifestTypes, PTL DEF ManifestSpec, ManifestSteps

-----------------------------------------------------------------------------
(* A worker asleep has used its semaphore up.  When the latest request has  *)
(* been signalled and no wakeup is pending, a stream has begun for it.      *)
NoWakeupPending ==
  listener = "idle" /\ manifest_sem = 0 /\ worker # "woken"

Handed ==
  /\ worker = "asleep" => manifest_sem = 0
  /\ NoWakeupPending /\ requests > 0 => streams > 0 /\ begun = manifest_start_idx

LEMMA HandedInvariant == ManifestSteps => []Handed
<1> USE ManifestAssumption DEF Handed, NoWakeupPending, ManifestTypeOK, WorkerStates
<1>1. ManifestInit => Handed
  BY DEF ManifestInit
<1>2. ManifestTypeOK /\ Handed /\ [ManifestNext]_manifestVars => Handed'
  <2> SUFFICES ASSUME ManifestTypeOK, Handed, [ManifestNext]_manifestVars
               PROVE  Handed'
    OBVIOUS
  <2>1. ASSUME NEW i \in StartIndices, Request(i) PROVE Handed'
    BY <2>1 DEF Request
  <2>2. CASE Give
    BY <2>2 DEF Give
  <2>3. CASE ReadStart
    BY <2>3 DEF ReadStart
  <2>4. CASE Mute \/ NextEntry \/ EndStream
    BY <2>4 DEF Mute, NextEntry, EndStream
  <2>5. CASE Unmute
    BY <2>5 DEF Unmute
  <2>6. CASE UNCHANGED manifestVars
    BY <2>6 DEF manifestVars
  <2>7. QED BY <2>1, <2>2, <2>3, <2>4, <2>5, <2>6 DEF ManifestNext, WorkerStep
<1>3. QED BY <1>1, <1>2, ManifestTypes, PTL DEF ManifestSteps

LEMMA LatestIsServed == ManifestSteps => []LatestRequestServed
<1>1. Handed => LatestRequestServed
  BY DEF Handed, NoWakeupPending, LatestRequestServed
<1>2. QED BY <1>1, HandedInvariant, PTL

(* The index may be overwritten while a stream runs, and several gives may  *)
(* become one; the latest request still gets its stream.                    *)
THEOREM LatestRequestInvariant == ManifestSpec => []LatestRequestServed
BY LatestIsServed, PTL DEF ManifestSpec, ManifestSteps

-----------------------------------------------------------------------------
LEMMA OneStreamPerRequest == ManifestSteps => []StreamsNeverExceedRequests
<1> USE ManifestAssumption DEF StreamsNeverExceedRequests, ManifestTypeOK, WorkerStates
<1>1. ManifestInit => StreamsNeverExceedRequests
  BY DEF ManifestInit
<1>2. ManifestTypeOK /\ StreamsNeverExceedRequests /\ [ManifestNext]_manifestVars
        => StreamsNeverExceedRequests'
  <2> SUFFICES ASSUME ManifestTypeOK, StreamsNeverExceedRequests,
                      [ManifestNext]_manifestVars
               PROVE  StreamsNeverExceedRequests'
    OBVIOUS
  <2>1. ASSUME NEW i \in StartIndices, Request(i) PROVE StreamsNeverExceedRequests'
    BY <2>1 DEF Request
  <2>2. CASE Give
    BY <2>2 DEF Give
  <2>3. CASE ReadStart
    BY <2>3 DEF ReadStart
  <2>4. CASE Mute \/ NextEntry \/ EndStream
    BY <2>4 DEF Mute, NextEntry, EndStream
  <2>5. CASE Unmute
    BY <2>5 DEF Unmute
  <2>6. CASE UNCHANGED manifestVars
    BY <2>6 DEF manifestVars
  <2>7. QED BY <2>1, <2>2, <2>3, <2>4, <2>5, <2>6 DEF ManifestNext, WorkerStep
<1>3. QED BY <1>1, <1>2, ManifestTypes, PTL DEF ManifestSteps

(* A request is worth one wakeup and a wakeup one stream.                   *)
THEOREM StreamsBound == ManifestSpec => []StreamsNeverExceedRequests
BY OneStreamPerRequest, PTL DEF ManifestSpec, ManifestSteps

-----------------------------------------------------------------------------
(***************************************************************************)
(* The components joined.  Whatever the handlers do, each component takes  *)
(* its own steps only.                                                     *)
(***************************************************************************)
LEMMA WorkersStep ==
  [WorkersNext]_workersVars
    => [TxNext]_txVars /\ [QueueNext]_queueVars /\ [ManifestNext]_manifestVars
<1> SUFFICES ASSUME [WorkersNext]_workersVars
             PROVE  /\ TxNext \/ UNCHANGED txVars
                    /\ QueueNext \/ UNCHANGED queueVars
                    /\ ManifestNext \/ UNCHANGED manifestVars
  OBVIOUS
<1>1. CASE Reads \/ Signal \/ EndCommand \/ ManifestTurn \/ UNCHANGED workersVars
  BY <1>1 DEF Reads, Signal, EndCommand, ManifestTurn, workersVars, TxNext, QueueNext,
     ManifestNext
<1>2. ASSUME NEW c \in Commands, Receive(c)
      PROVE  /\ TxNext \/ UNCHANGED txVars
             /\ QueueNext \/ UNCHANGED queueVars
             /\ ManifestNext \/ UNCHANGED manifestVars
  BY <1>2 DEF Receive, QueueNext, ManifestNext
<1>3. ASSUME NEW t \in Threads, Call(t) \/ InSend(t)
      PROVE  /\ TxNext \/ UNCHANGED txVars
             /\ UNCHANGED <<queueVars, manifestVars>>
  BY <1>3 DEF Call, InSend, TxNext
<1>4. QED BY <1>1, <1>2, <1>3 DEF WorkersNext

(* With the USB callback feeding both workers and every thread sending at   *)
(* any time: no two threads are in the transport together, no sender sleeps *)
(* without someone to wake it and ZMK's context waits for one report at     *)
(* most (hid_viz_send.h:6-22); no accepted command is lost or overtaken     *)
(* (command_dispatch.c:24-71); the latest manifest request is answered and  *)
(* none twice (manifest.c:202-256).                                         *)
THEOREM WorkersKeepPromises ==
  WorkersSpec => []( /\ OneInTransport /\ SleepersHaveHolder /\ MostUrgentWaitsOneReport
                     /\ NothingLost
                     /\ LatestRequestServed /\ StreamsNeverExceedRequests )
<1>1. WorkersSpec => TxSteps /\ QueueSteps /\ ManifestSteps
  BY WorkersStep, PTL
     DEF WorkersSpec, WorkersInit, TxSteps, QueueSteps, ManifestSteps
<1>2. QED
  BY <1>1, NeverTwo, SleepersWake, UrgentWait, AcceptedIsServed, LatestIsServed,
     OneStreamPerRequest, PTL
=============================================================================
