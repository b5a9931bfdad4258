---------------------------- MODULE HubDiscovery ----------------------------
(***************************************************************************)
(* find_devices() in tools/hid_viz_hub.py: the system lists every          *)
(* interface of every device, and the hub must open one handle for each    *)
(* device and no more.                                                     *)
(***************************************************************************)
EXTENDS Integers, Sequences, FiniteSets, SequencesExt

CONSTANTS
  Interfaces,  (* what may be listed: [unit, model, number, viz]; model      *)
               (* stands for vid and pid, viz for usage page and usage      *)
  Wanted,      (* models the command line lets through                      *)
  MaxRows      (* bound: rows of a listing                                  *)

(* A unit is of one model.  number is -1 for the interface macOS combines,  *)
(* 999 where the system gives none.                                         *)
ASSUME DiscoveryAssumption ==
  /\ \A r \in Interfaces : r.number \in {-1} \cup 0..999
  /\ \A r1, r2 \in Interfaces : r1.unit = r2.unit => r1.model = r2.model
  /\ MaxRows \in Nat

VARIABLES
  rows,        (* hid.enumerate()                                           *)
  row,         (* the next row                                              *)
  groups,      (* rows of each model, in the order of their first row       *)
  chosen       (* one row for each group                                    *)

discoveryVars == <<rows, row, groups, chosen>>

DiscoveryInit ==
  /\ rows \in BoundedSeq(Interfaces, MaxRows)
  /\ row = 1 /\ groups = <<>> /\ chosen = <<>>

Wants(r) == r.model \in Wanted /\ r.viz

PassOver ==
  /\ row <= Len(rows) /\ ~Wants(rows[row])
  /\ row' = row + 1
  /\ UNCHANGED <<rows, groups, chosen>>

(* Slip: rows are taken for one device by their unit's serial and interface.*)
SameInterface(r, group) == group[1].unit = r.unit /\ group[1].number = r.number

SameDevice(r, group) == group[1].model = r.model

Group ==
  /\ row <= Len(rows) /\ Wants(rows[row])
  /\ row' = row + 1
  /\ IF \E g \in DOMAIN groups : SameDevice(rows[row], groups[g])
       THEN \E g \in DOMAIN groups :
              /\ SameDevice(rows[row], groups[g])
              /\ groups' = [groups EXCEPT ![g] = Append(@, rows[row])]
       ELSE groups' = Append(groups, <<rows[row]>>)
  /\ UNCHANGED <<rows, chosen>>

(* _rank(): the combined interface, then the lowest number.                 *)
Rank(r) == r.number

(* The first of the best ranked, for each group in turn (the sort is stable).*)
Choose ==
  /\ row > Len(rows) /\ Len(chosen) < Len(groups)
  /\ LET group == groups[Len(chosen) + 1]
         first == SelectInSeq(group, LAMBDA r : \A s \in ToSet(group) : Rank(r) <= Rank(s))
     IN  chosen' = Append(chosen, group[first])
  /\ UNCHANGED <<rows, row, groups>>

DiscoveryNext == PassOver \/ Group \/ Choose

DiscoverySpec == DiscoveryInit /\ [][DiscoveryNext]_discoveryVars

-----------------------------------------------------------------------------
Discovered == row > Len(rows) /\ Len(chosen) = Len(groups)

(* "Opening two handles to the same endpoint corrupts the manifest reads"   *)
(* (hid_viz_hub.py:93-95): no unit is chosen twice, however its rows are    *)
(* listed.  And no device is left out, unless for a twin of the same vid    *)
(* and pid (hid_viz_hub.py:97-100); where there is a combined interface it  *)
(* is that one that is opened.                                              *)
OneHandlePerUnit ==
  /\ \A i, j \in DOMAIN chosen : i # j => chosen[i].unit # chosen[j].unit
  /\ Discovered => \A r \in {s \in ToSet(rows) : Wants(s)} : \E c \in ToSet(chosen) :
       c.model = r.model /\ (r.number = -1 => c.number = -1)
=============================================================================
