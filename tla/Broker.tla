------------------------------- MODULE Broker -------------------------------
(***************************************************************************)
(* What the hub promises (tools/hid_viz_hub.py): each action a device      *)
(* triggers is told to every other device that handles it, once, and the   *)
(* actions of one device reach another in the order they were triggered.   *)
(* Nothing is said of actions of different devices, nor of devices that    *)
(* have been unplugged.                                                    *)
(***************************************************************************)
EXTENDS Naturals, Sequences, FiniteSets, SequencesExt

CONSTANTS
  Devices,     (* devices the hub may broker between                        *)
  Actions      (* action ids with a wire byte                               *)

VARIABLES
  log,         (* [Devices -> Seq(Actions)]: what each has triggered        *)
  told,        (* [Devices -> Seq(<<source, number>>)]: what it was told    *)
  handlers,    (* [Actions -> SUBSET Devices]: who handles what             *)
  serving,     (* is the hub brokering?                                     *)
  gone         (* devices that have been unplugged                          *)

brokerVars == <<log, told, handlers, serving, gone>>

BrokerInit ==
  /\ log = [d \in Devices |-> <<>>] /\ told = [d \in Devices |-> <<>>]
  /\ handlers = [a \in Actions |-> {}]
  /\ serving = FALSE /\ gone = {}

Wants(h, a) == h \in handlers[a]
Told(s, h) == {n \in DOMAIN log[s] : <<s, n>> \in ToSet(told[h])}
Owed(s, h) == {n \in DOMAIN log[s] : Wants(h, log[s][n])} \ Told(s, h)

Serve(routes) ==
  /\ ~serving /\ serving' = TRUE
  /\ handlers' = routes
  /\ UNCHANGED <<log, told, gone>>

Trigger(s, a) ==
  /\ log' = [log EXCEPT ![s] = Append(@, a)]
  /\ UNCHANGED <<told, handlers, serving, gone>>

(* The oldest that is owed.                                                 *)
Tell(s, h) ==
  /\ serving /\ s # h /\ h \notin gone
  /\ \E n \in Owed(s, h) :
       /\ \A m \in Owed(s, h) : n <= m
       /\ told' = [told EXCEPT ![h] = Append(@, <<s, n>>)]
  /\ UNCHANGED <<log, handlers, serving, gone>>

Leave(d) == gone' = gone \cup {d} /\ UNCHANGED <<log, told, handlers, serving>>
Retire == serving' = FALSE /\ UNCHANGED <<log, told, handlers, gone>>

BrokerNext ==
  \/ Retire
  \/ \E routes \in [Actions -> SUBSET Devices] : Serve(routes)
  \/ \E d \in Devices :
       \/ Leave(d)
       \/ \E a \in Actions : Trigger(d, a)
       \/ \E h \in Devices : Tell(d, h)

(* A source that is gone may have left reports nobody can read.             *)
BrokerSpec ==
  /\ BrokerInit /\ [][BrokerNext]_brokerVars
  /\ \A s, h \in Devices : WF_brokerVars(Tell(s, h) /\ s \notin gone)
=============================================================================
