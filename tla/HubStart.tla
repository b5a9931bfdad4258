------------------------------ MODULE HubStart ------------------------------
(***************************************************************************)
(* main() in tools/hid_viz_hub.py up to the routing table: find_devices()  *)
(* chooses the interfaces, and each is opened and asked for its manifest   *)
(* before the next.  What find_devices() keeps is gone when it returns.    *)
(***************************************************************************)
EXTENDS HubDiscovery, HubQuery

VARIABLES
  looking,   (* find_devices() has not returned                             *)
  metas,     (* how many of the devices found are still to be opened        *)
  opened     (* has a device been opened?                                   *)

startVars == <<discoveryVars, queryVars, looking, metas, opened>>

StartInit ==
  /\ DiscoveryInit
  /\ QueryInit /\ manifest = <<>>
  /\ looking = TRUE /\ metas = 0 /\ opened = FALSE

Look == looking /\ DiscoveryNext /\ UNCHANGED <<queryVars, looking, metas, opened>>

(* find_devices() returns; with nothing found the program ends.             *)
Return ==
  /\ looking /\ Discovered
  /\ looking' = FALSE /\ metas' = Len(chosen)
  /\ rows' = <<>> /\ row' = 1 /\ groups' = <<>> /\ chosen' = <<>>
  /\ UNCHANGED <<queryVars, opened>>

NextMeta ==
  /\ opened => Ended
  /\ metas > 0 /\ metas' = metas - 1
  /\ UNCHANGED <<discoveryVars, looking>>

(* A device is opened; it may be streaming for somebody who asked before.   *)
Open ==
  /\ NextMeta
  /\ opened' = TRUE
  /\ manifest' \in Manifests
  /\ unsent' \in (IF Overlap THEN UnderWay(manifest') ELSE {<<>>})
  /\ overlapped' = (unsent' # <<>>)
  /\ pipe' = <<>> /\ used' = FALSE
  /\ hub' = "asking" /\ reports' = <<>> /\ now' = 0 /\ last_rx' = 0
  /\ lost' = 0 /\ others' = 0

(* open_path() raises OSError: the hub does without the device.             *)
OpenFails == NextMeta /\ UNCHANGED <<queryVars, opened>>

Query == opened /\ QueryNext /\ UNCHANGED <<discoveryVars, looking, metas, opened>>

StartNext == Look \/ Return \/ Open \/ OpenFails \/ Query

(* As in HubQuery; find_devices() need not return for what is asked here.   *)
StartSpec ==
  /\ StartInit /\ [][StartNext]_startVars
  /\ WF_startVars(Query /\ Ask) /\ WF_startVars(Query /\ DeviceSends)
  /\ WF_startVars(Query /\ Tick) /\ WF_startVars(Query /\ Read)
  /\ WF_startVars(Query /\ StopDraining)
=============================================================================
