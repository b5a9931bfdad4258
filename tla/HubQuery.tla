------------------------------ MODULE HubQuery ------------------------------
(***************************************************************************)
(* The host asks a device for its manifest: query_manifest() and drain()   *)
(* in tools/hid_viz_hub.py against a device that streams it (manifest.c).  *)
(*                                                                         *)
(* Time passes in slots of some 30 ms, the longest that one report takes   *)
(* (manifest.c:130-132): a device that has something to send puts at least *)
(* one report through the endpoint, or gives it up, in each.  The hub      *)
(* polls every 10 ms, so it has read what arrived before a slot ends.      *)
(***************************************************************************)
EXTENDS ManifestFormat

CONSTANTS
  Manifests,  (* what the device may have to say; <<>> if it has no manifest *)
  Settle,     (* settle_ms in slots; 20 in the code                         *)
  Idle,       (* idle_ms in slots; 4 in the code                            *)
  Overlap,    (* may a stream asked for earlier still be under way?         *)
  MayFail,    (* may a read fail, as when the device is unplugged?          *)
  MaxLost,    (* bound: reports given up by the transport                   *)
  MaxOthers   (* bound: key events and triggers among the stream            *)

ASSUME QueryAssumption ==
  /\ Manifests \subseteq Seq(Strings)
  /\ Settle \in Nat \ {0} /\ Idle \in Nat \ {0}
  /\ Overlap \in BOOLEAN /\ MayFail \in BOOLEAN
  /\ MaxLost \in Nat /\ MaxOthers \in Nat

VARIABLES
  manifest,   (* the device's manifest                                      *)
  unsent,     (* reports the device has still to send                       *)
  pipe,       (* reports the host's system holds for the hub                *)
  used,       (* has a report been sent in this slot?                       *)
  hub,        (* "asking", "draining", "done" or "failed"                   *)
  reports,    (* what drain() has collected                                 *)
  now,        (* slots since drain() began                                  *)
  last_rx,    (* when it last received a report                             *)
  overlapped, (* history: a stream was under way                            *)
  lost,       (* history: reports given up                                  *)
  others      (* history: reports sent that are not of the stream           *)

queryVars == <<manifest, unsent, pipe, used, hub, reports, now, last_rx,
               overlapped, lost, others>>

-----------------------------------------------------------------------------
(* Slip: a resumed stream that numbers its entries from zero.               *)
UnderWayRenumbered(m) == {StreamOf(part) : part \in Suffixes(m)}

(* What is left of a stream asked for earlier, from whatever index.         *)
UnderWay(m) == Suffixes(StreamOf(m))

QueryInit ==
  /\ manifest \in Manifests
  /\ unsent \in (IF Overlap THEN UnderWay(manifest) ELSE {<<>>})
  /\ overlapped = (unsent # <<>>)
  /\ pipe = <<>> /\ used = FALSE
  /\ hub = "asking" /\ reports = <<>> /\ now = 0 /\ last_rx = 0
  /\ lost = 0 /\ others = 0

(* The 0xF9 goes out.  The device finishes what it is streaming first and   *)
(* begins anew (ManifestWorker).                                            *)
Ask ==
  /\ hub = "asking"
  /\ hub' = "draining"
  /\ unsent' = unsent \o StreamOf(manifest)
  /\ UNCHANGED <<manifest, pipe, used, reports, now, last_rx, overlapped, lost, others>>

(* The next report of the stream, or its loss when the wait for the         *)
(* endpoint ends.                                                           *)
DeviceSends ==
  /\ hub = "draining"
  /\ unsent # <<>>
  /\ unsent' = Tail(unsent) /\ used' = TRUE
  /\ \/ pipe' = Append(pipe, Head(unsent)) /\ UNCHANGED lost
     \/ lost < MaxLost /\ ~used /\ lost' = lost + 1 /\ UNCHANGED pipe
  /\ UNCHANGED <<manifest, hub, reports, now, last_rx, overlapped, others>>

(* A key event or a trigger, which no mute holds back, gets the funnel.     *)
OtherReport ==
  /\ hub = "draining"
  /\ others < MaxOthers
  /\ others' = others + 1 /\ used' = TRUE
  /\ pipe' = Append(pipe, [type |-> "other"])
  /\ UNCHANGED <<manifest, unsent, hub, reports, now, last_rx, overlapped, lost>>

(* Slips: the time limit is looked at only once something has come; the     *)
(* silence counts from the start of drain().                                *)
SettledAfterReport(t) == reports # <<>> /\ t > Settle
QuietSinceStart(t) == reports # <<>> /\ t > Idle

SettledBy(t) == t > Settle
QuietBy(t) == reports # <<>> /\ t - last_rx > Idle

Tick ==
  /\ hub = "draining"
  /\ unsent # <<>> => used
  /\ pipe = <<>>
  /\ ~SettledBy(now) /\ ~QuietBy(now)
  /\ now <= Settle  (* bound: the clock stops once the limit has passed *)
  /\ now' = now + 1 /\ used' = FALSE
  /\ UNCHANGED <<manifest, unsent, pipe, hub, reports, last_rx, overlapped, lost, others>>

(* One turn of drain()'s loop: the limit first, then a read; silence counts *)
(* only when the read finds nothing.                                        *)
Read ==
  /\ hub = "draining"
  /\ ~SettledBy(now)
  /\ pipe # <<>>
  /\ reports' = Append(reports, Head(pipe)) /\ pipe' = Tail(pipe)
  /\ last_rx' = now
  /\ UNCHANGED <<manifest, unsent, used, hub, now, overlapped, lost, others>>

StopDraining ==
  /\ hub = "draining"
  /\ SettledBy(now) \/ (pipe = <<>> /\ QuietBy(now))
  /\ hub' = "done"
  /\ UNCHANGED <<manifest, unsent, pipe, used, reports, now, last_rx, overlapped, lost, others>>

(* An OSError ends the collection; what has come so far is used.            *)
ReadFails ==
  /\ MayFail
  /\ hub = "draining"
  /\ hub' = "failed"
  /\ UNCHANGED <<manifest, unsent, pipe, used, reports, now, last_rx, overlapped, lost, others>>

QueryNext ==
  Ask \/ DeviceSends \/ OtherReport \/ Tick \/ Read \/ StopDraining \/ ReadFails

(* The device sends what it has to, the hub's loop goes round, time passes. *)
QuerySpec ==
  /\ QueryInit /\ [][QueryNext]_queryVars
  /\ WF_queryVars(Ask) /\ WF_queryVars(DeviceSends) /\ WF_queryVars(Tick)
  /\ WF_queryVars(Read) /\ WF_queryVars(StopDraining)

-----------------------------------------------------------------------------
(***************************************************************************)
(* Properties.                                                             *)
(***************************************************************************)
(* Every variable has its type.                                             *)
QueryTypeOK ==
  /\ manifest \in Manifests
  /\ hub \in {"asking", "draining", "done", "failed"}
  /\ used \in BOOLEAN /\ overlapped \in BOOLEAN
  /\ now \in 0..Settle + 1 /\ last_rx \in 0..Settle
  /\ lost \in 0..MaxLost /\ others \in 0..MaxOthers

(* What a full reading of a manifest gives.                                 *)
SaidCaps(m) == FlattenSeq([k \in DOMAIN m |-> IF m[k] \in Ids THEN <<Bytes(m[k])>> ELSE <<>>])
Said(m) ==
  LET read(s) == IF s \in ToSet(m) THEN Bytes(s) ELSE NUL
  IN  [name |-> read(BoardName), config |-> read(ConfigId), caps |-> SaidCaps(m)]

Ended == hub \in {"done", "failed"}

(* A query that nothing disturbs returns exactly the device's name, config  *)
(* id and capabilities, with triggers in between, as long as the stream and *)
(* those fit the hub's window; a device without a manifest returns nothing. *)
WholeManifestRead ==
  hub = "done" /\ ~overlapped /\ lost = 0 /\ Len(StreamOf(manifest)) + others <= Settle =>
    HostManifest(reports) = Said(manifest)

(* However early the reading ends (time limit, silence, a read that fails,  *)
(* hid_viz_hub.py:133-143), the hub believes only what the device said: its *)
(* capabilities are the first of the device's, of which the last may have   *)
(* lost its end.                                                            *)
EarlyEndOnlyTruncates ==
  Ended /\ ~overlapped /\ lost = 0 =>
    LET caps == HostManifest(reports).caps
        all == Said(manifest).caps
    IN  /\ Len(caps) <= Len(all)
        /\ \A k \in DOMAIN caps : IF k < Len(caps) THEN caps[k] = all[k]
                                  ELSE IsPrefix(caps[k], all[k])

(* Whatever is lost, fails or is still under way from an earlier request,   *)
(* the hub makes no string out of pieces of two (hid_viz_hub.py:158-167): an *)
(* id may be cut, doubled or beheaded, but its bytes are those of one       *)
(* string of the device.                                                    *)
NothingInvented ==
  Ended => \A n \in Numbers(reports) :
    \E s \in ToSet(manifest) : ToSet(HostString(reports, n)) \subseteq ToSet(Bytes(s))

(* drain() always comes to an end, whatever the device does                 *)
(* (hid_viz_hub.py:131-145): a silent one as well as one that never stops.  *)
QueryEnds == []<>(hub # "draining")
=============================================================================
