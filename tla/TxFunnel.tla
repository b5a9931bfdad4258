------------------------------ MODULE TxFunnel ------------------------------
(***************************************************************************)
(* hid_viz_send(): the one function through which every outbound report of *)
(* the firmware leaves (src/hid_viz_send.c, contract in hid_viz_send.h).   *)
(*                                                                         *)
(* A sender takes hid_viz_tx_mutex, raises raw_hid_sent_event, which runs  *)
(* the transport's send_report() in the sender's own context, and gives    *)
(* the mutex back.  The mutex is a Zephyr k_mutex and the transport is     *)
(* zmk-raw-hid: both are outside the repository and modelled from how the  *)
(* code uses them and what hid_viz_send.h says of them.                    *)
(*                                                                         *)
(* A report has no content here: what is copied to the endpoint, and when, *)
(* is the business of the module that composes this one (HidViz).          *)
(***************************************************************************)
EXTENDS Naturals

CONSTANTS
  Threads,   (* the contexts that send: ZMK's own, the two workers          *)
  NoThread,  (* owner of a free mutex                                       *)
  Prio,      (* Zephyr priority of each thread; a larger number is more urgent *)
  WaitCap    (* the history variable waited stops counting here             *)

ASSUME TxAssumption ==
  /\ NoThread \notin Threads
  /\ Prio \in [Threads -> Nat]
  /\ \A t, u \in Threads : Prio[t] = Prio[u] => t = u
  /\ WaitCap \in Nat

VARIABLES
  tx,     (* tx[t]: how far t is in hid_viz_send()                          *)
  owner,  (* the thread that holds hid_viz_tx_mutex                         *)
  busy,   (* the IN endpoint holds a report the host has not read           *)
  waited  (* history: reports others sent during t's wait for the mutex     *)

txVars == <<tx, owner, busy, waited>>

(* "out": not in the function; "waiting": blocked in k_mutex_lock;          *)
(* "sending": in send_report(); "sent": send_report() has returned.         *)
TxStates == {"out", "waiting", "sending", "sent"}

Waiters == {t \in Threads : tx[t] = "waiting"}

(* A k_mutex lends its owner the priority of whoever sleeps on it, and a    *)
(* thread runs only while no more urgent one is ready to.  Two threads are  *)
(* compared by their own priorities and those they have been lent.          *)
Lenders(t) == {t} \cup {u \in Threads : owner = t /\ tx[u] = "waiting"}
Outranks(u, t) == \E v \in Lenders(u) : \A w \in Lenders(t) : Prio[v] > Prio[w]

InTransport(t) == tx[t] \in {"sending", "sent"}

(* In send_report(), asleep until the host reads the previous report.       *)
Stalled(t) == tx[t] = "sending" /\ busy

(* Of the other threads only those in the transport are known to be ready.  *)
TxRuns(t) ==
  \A u \in Threads : InTransport(u) /\ ~Stalled(u) => ~Outranks(u, t)

TxInit ==
  /\ tx = [t \in Threads |-> "out"]
  /\ owner = NoThread
  /\ busy = FALSE
  /\ waited = [t \in Threads |-> 0]

(* Slip, for the run: a try-lock whose result nobody looks at.              *)
LockTry(t) ==
  /\ tx[t] = "out"
  /\ owner' = IF owner = NoThread THEN t ELSE owner
  /\ tx' = [tx EXCEPT ![t] = "sending"]
  /\ UNCHANGED <<busy, waited>>

(***************************************************************************)
(* k_mutex_lock(&hid_viz_tx_mutex, K_FOREVER): take it, or go to sleep.    *)
(***************************************************************************)
Lock(t) ==
  /\ tx[t] = "out"
  /\ \/ /\ owner = NoThread
        /\ owner' = t
        /\ tx' = [tx EXCEPT ![t] = "sending"]
     \/ /\ owner # NoThread
        /\ tx' = [tx EXCEPT ![t] = "waiting"]
        /\ UNCHANGED owner
  /\ UNCHANGED <<busy, waited>>

(* send_report() finds the endpoint free and writes the report to it.       *)
Write(t) ==
  /\ tx[t] = "sending"
  /\ ~busy
  /\ busy' = TRUE
  /\ tx' = [tx EXCEPT ![t] = "sent"]
  /\ UNCHANGED <<owner, waited>>

(* send_report() waited some 30 ms for the host to read the previous report *)
(* and returns without having sent this one.                                *)
GiveUp(t) ==
  /\ tx[t] = "sending"
  /\ busy
  /\ tx' = [tx EXCEPT ![t] = "sent"]
  /\ UNCHANGED <<owner, busy, waited>>

(* k_mutex_unlock() with sleepers: the mutex passes to the most urgent one, *)
(* which wakes up as its owner.                                             *)
HandOver(t) ==
  \E u \in Waiters :
    /\ \A v \in Waiters : Prio[v] <= Prio[u]
    /\ owner' = u
    /\ tx' = [tx EXCEPT ![t] = "out", ![u] = "sending"]

(* One report more for everyone asleep on the mutex; the leaver is done.    *)
CountReport(t) ==
  waited' = [u \in Threads |->
               IF u = t THEN 0
               ELSE IF tx[u] = "waiting" /\ waited[u] < WaitCap
               THEN waited[u] + 1 ELSE waited[u]]

(* Slip: a lock that is freed with its sleepers left asleep.                *)
UnlockOnly(t) ==
  /\ tx[t] = "sent"
  /\ owner' = NoThread
  /\ tx' = [tx EXCEPT ![t] = "out"]
  /\ CountReport(t)
  /\ UNCHANGED busy

(* Slip: a lock that any sleeper may get, such as a spin lock.              *)
UnlockToAny(t) ==
  /\ tx[t] = "sent"
  /\ \/ /\ Waiters = {}
        /\ owner' = NoThread
        /\ tx' = [tx EXCEPT ![t] = "out"]
     \/ \E u \in Waiters :
          owner' = u /\ tx' = [tx EXCEPT ![t] = "out", ![u] = "sending"]
  /\ CountReport(t)
  /\ UNCHANGED busy

Unlock(t) ==
  /\ tx[t] = "sent"
  /\ \/ /\ Waiters = {}
        /\ owner' = NoThread
        /\ tx' = [tx EXCEPT ![t] = "out"]
     \/ HandOver(t)
  /\ CountReport(t)
  /\ UNCHANGED busy

(* The host polls the IN endpoint and reads the report in it.               *)
HostRead ==
  /\ busy
  /\ busy' = FALSE
  /\ UNCHANGED <<tx, owner, waited>>

(* A sleeper in the transport is woken by a timer, whoever is running.      *)
TxStep(t) == (TxRuns(t) /\ (Write(t) \/ Unlock(t))) \/ GiveUp(t)

TxNext ==
  \/ HostRead
  \/ \E t \in Threads : (TxRuns(t) /\ Lock(t)) \/ TxStep(t)

(* A thread inside the function gets on with it: send_report() returns on   *)
(* its timeout at the latest.  Nobody has to call the function, and the     *)
(* host does not have to read.                                              *)
TxSpec ==
  /\ TxInit /\ [][TxNext]_txVars
  /\ \A t \in Threads : WF_txVars(TxStep(t))

-----------------------------------------------------------------------------
(***************************************************************************)
(* Properties.                                                             *)
(***************************************************************************)

(* Every variable has its type.                                             *)
TxTypeOK ==
  /\ tx \in [Threads -> TxStates]
  /\ owner \in Threads \cup {NoThread}
  /\ busy \in BOOLEAN
  /\ waited \in [Threads -> 0..WaitCap]

(* send_report() is not thread-safe: two senders are never inside it, so no *)
(* report is written while another is being sent (hid_viz_send.h:15-20).    *)
OneInTransport ==
  \A t, u \in Threads : InTransport(t) /\ InTransport(u) => t = u

(* No lost wakeup: a sender sleeps on the mutex only while some thread is   *)
(* in the transport, which will hand the mutex over when it leaves.         *)
SleepersHaveHolder ==
  \A t \in Threads :
    tx[t] = "waiting" => \E u \in Threads : owner = u /\ InTransport(u)

MostUrgent(t) == \A u \in Threads : Prio[u] <= Prio[t]

(* ZMK's own context, the most urgent sender, never waits for more than the *)
(* one report that was in the transport when it called (hid_viz_send.h:21). *)
MostUrgentWaitsOneReport ==
  \A t \in Threads : MostUrgent(t) => waited[t] <= 1

(* A send by the most urgent context returns even if the host stops reading *)
(* for good: neither the mutex nor the endpoint can block it for ever.      *)
MostUrgentReturns ==
  \A t \in Threads : MostUrgent(t) => (tx[t] # "out" ~> tx[t] = "out")
=============================================================================
