--------------------------- MODULE ManifestWorker ---------------------------
(***************************************************************************)
(* The manifest query (src/manifest.c): the listener on                    *)
(* raw_hid_received_event records the start index of a 0xF9 request and    *)
(* signals a semaphore; the worker thread wakes up, reads the index, mutes *)
(* layer notifications and streams the entries from there on.              *)
(*                                                                         *)
(* How an entry is sent is the business of the module that composes this   *)
(* one; here a stream steps through its entries.                           *)
(***************************************************************************)
EXTENDS Naturals

CONSTANTS
  LastEntry,    (* last_idx of the stream: entries are numbered 0..LastEntry *)
  StartIndices, (* byte[1] of the requests the host may send                 *)
  MaxRequests   (* bound: how many requests arrive in a behaviour            *)

ASSUME ManifestAssumption ==
  /\ LastEntry \in Nat
  /\ StartIndices \subseteq Nat
  /\ 0 \in StartIndices
  /\ MaxRequests \in Nat

VARIABLES
  manifest_start_idx, (* written by the listener, read by the worker         *)
  manifest_sem,       (* K_SEM_DEFINE(manifest_sem, 0, 1)                    *)
  listener,           (* "idle", or "give": between the write and the give   *)
  worker,             (* where manifest_thread_fn stands                     *)
  cursor,             (* the next entry of the stream                        *)
  suppress,           (* hid_viz_suppress_notifications                      *)
  requests,           (* history: requests received                          *)
  streams,            (* history: streams begun                              *)
  begun               (* history: first entry asked of the latest stream     *)

manifestVars == <<manifest_start_idx, manifest_sem, listener, worker, cursor,
                  suppress, requests, streams, begun>>

WorkerStates == {"asleep", "woken", "mute", "stream", "unmute"}

ManifestInit ==
  /\ manifest_start_idx = 0
  /\ manifest_sem = 0
  /\ listener = "idle"
  /\ worker = "asleep"
  /\ cursor = 0
  /\ suppress = FALSE
  /\ requests = 0
  /\ streams = 0
  /\ begun = 0

-----------------------------------------------------------------------------
(* Slip: a stream that works on the shared index itself.                    *)
RequestMovesCursor(i) ==
  /\ listener = "idle" /\ requests < MaxRequests
  /\ manifest_start_idx' = i /\ cursor' = i
  /\ listener' = "give"
  /\ requests' = requests + 1
  /\ UNCHANGED <<manifest_sem, worker, suppress, streams, begun>>

(* manifest_command_handler(), in the USB SetReport callback: first the     *)
(* index is stored, over whatever request it finds there ...                *)
Request(i) ==
  /\ listener = "idle"
  /\ requests < MaxRequests
  /\ manifest_start_idx' = i
  /\ listener' = "give"
  /\ requests' = requests + 1
  /\ UNCHANGED <<manifest_sem, worker, cursor, suppress, streams, begun>>

(* Slip: a wakeup that a busy worker misses.                                *)
GiveToSleeper ==
  /\ listener = "give" /\ listener' = "idle"
  /\ worker' = IF worker = "asleep" THEN "woken" ELSE worker
  /\ UNCHANGED <<manifest_start_idx, manifest_sem, cursor, suppress, requests,
                 streams, begun>>

(* ... then k_sem_give().  It wakes a worker asleep in k_sem_take, and else *)
(* raises the count to its limit of 1 (Zephyr's k_sem).                     *)
Give ==
  /\ listener = "give"
  /\ listener' = "idle"
  /\ IF worker = "asleep"
       THEN worker' = "woken" /\ UNCHANGED manifest_sem
       ELSE manifest_sem' = 1 /\ UNCHANGED worker
  /\ UNCHANGED <<manifest_start_idx, cursor, suppress, requests, streams, begun>>

-----------------------------------------------------------------------------
(* manifest_thread_fn(), one turn of its loop.                              *)
ReadStart ==
  /\ worker = "woken"
  /\ worker' = "mute"
  /\ cursor' = manifest_start_idx
  /\ begun' = manifest_start_idx
  /\ streams' = streams + 1
  /\ UNCHANGED <<manifest_start_idx, manifest_sem, listener, suppress, requests>>

Mute ==
  /\ worker = "mute"
  /\ worker' = "stream"
  /\ suppress' = TRUE
  /\ UNCHANGED <<manifest_start_idx, manifest_sem, listener, cursor,
                 requests, streams, begun>>

(* Slip: an entry counter that wraps before the last entry is past.         *)
NextEntryWraps ==
  /\ worker = "stream"
  /\ cursor' = (cursor + 1) % (LastEntry + 1)
  /\ UNCHANGED <<manifest_start_idx, manifest_sem, listener, worker, suppress,
                 requests, streams, begun>>

(* manifest_stream() sends the entries from start_idx on; none when the     *)
(* index is past the last one.                                              *)
NextEntry ==
  /\ worker = "stream"
  /\ cursor <= LastEntry
  /\ cursor' = cursor + 1
  /\ UNCHANGED <<manifest_start_idx, manifest_sem, listener, worker, suppress,
                 requests, streams, begun>>

EndStream ==
  /\ worker = "stream"
  /\ cursor > LastEntry
  /\ worker' = "unmute"
  /\ UNCHANGED <<manifest_start_idx, manifest_sem, listener, cursor, suppress,
                 requests, streams, begun>>

(* Slip: a take that leaves the semaphore up.                               *)
UnmuteAndPeek ==
  /\ worker = "unmute"
  /\ suppress' = FALSE
  /\ worker' = IF manifest_sem = 1 THEN "woken" ELSE "asleep"
  /\ UNCHANGED <<manifest_start_idx, manifest_sem, listener, cursor, requests,
                 streams, begun>>

(* Notifications resume; back in k_sem_take the worker goes on at once if   *)
(* the semaphore was given meanwhile.                                       *)
Unmute ==
  /\ worker = "unmute"
  /\ suppress' = FALSE
  /\ IF manifest_sem = 1
       THEN manifest_sem' = 0 /\ worker' = "woken"
       ELSE worker' = "asleep" /\ UNCHANGED manifest_sem
  /\ UNCHANGED <<manifest_start_idx, listener, cursor, requests, streams, begun>>

WorkerStep == ReadStart \/ Mute \/ NextEntry \/ EndStream \/ Unmute

ManifestNext == Give \/ WorkerStep \/ \E i \in StartIndices : Request(i)

(* The callback always reaches its give; the worker, the least urgent       *)
(* thread, gets on when nothing else runs, and nothing else runs for ever.  *)
ManifestSpec ==
  /\ ManifestInit /\ [][ManifestNext]_manifestVars
  /\ WF_manifestVars(Give) /\ WF_manifestVars(WorkerStep)

-----------------------------------------------------------------------------
(* Every variable has its type.                                             *)
ManifestTypeOK ==
  /\ manifest_start_idx \in StartIndices
  /\ manifest_sem \in {0, 1}
  /\ listener \in {"idle", "give"}
  /\ worker \in WorkerStates
  /\ cursor \in Nat
  /\ suppress \in BOOLEAN
  /\ requests \in Nat
  /\ streams \in Nat
  /\ begun \in StartIndices

(* Requests may overwrite one another, but the latest is never forgotten:   *)
(* once worker and listener are idle, the last stream began where the last  *)
(* request asked (manifest.c:205-207, 214-215, 254-256).                    *)
LatestRequestServed ==
  worker = "asleep" /\ listener = "idle" /\ requests > 0
    => streams > 0 /\ begun = manifest_start_idx

(* Requests are coalesced, never multiplied: the streams begun and still to *)
(* come never outnumber the requests.                                       *)
StreamsNeverExceedRequests ==
  streams + manifest_sem + (IF worker = "woken" THEN 1 ELSE 0)
          + (IF listener = "give" THEN 1 ELSE 0) <= requests

(* A query ends: the worker is back asleep, its semaphore used up, again    *)
(* and again, however requests fall into a running stream.                  *)
WorkerComesToRest == []<>(worker = "asleep" /\ manifest_sem = 0)
=============================================================================
