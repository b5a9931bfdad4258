--------------------------- MODULE ManifestStream ---------------------------
(***************************************************************************)
(* How a manifest stream comes about (manifest.c: seen_id, count_caps,     *)
(* send_manifest_entry, manifest_stream).  The capabilities lie in a ROM   *)
(* section filled by the linker, in any number and with duplicates.  What  *)
(* goes over the wire, and how the host reads it, is in ManifestFormat.    *)
(***************************************************************************)
EXTENDS ManifestFormat

CONSTANTS
  MaxCaps,    (* MANIFEST_MAX_CAPS; 64 in the code                          *)
  Width,      (* how many values a uint8_t has; 256 in the code             *)
  MaxTable,   (* bound: entries in the ROM section                          *)
  MaxStart,   (* bound: largest start index asked for                       *)
  MaxLost     (* bound: reports the transport gives up                      *)

ASSUME StreamAssumption ==
  /\ Width \in Nat \ {0}
  /\ MaxCaps \in Nat /\ MaxTable \in Nat /\ MaxStart \in Nat /\ MaxLost \in Nat

VARIABLES
  caps,      (* the section, in link order                                  *)
  start_idx, (* first entry asked for                                       *)
  last_idx,  (* number of the last entry, counted beforehand                *)
  row,       (* which row of the section (or identity) is next              *)
  seq,       (* the sequence number it gets                                 *)
  seen,      (* ids recorded so far                                         *)
  offset,    (* bytes of the row's string already sent                      *)
  received,  (* what the host has read                                      *)
  lost       (* history: reports given up                                   *)

streamVars == <<caps, start_idx, last_idx, row, seq, seen, offset, received, lost>>

-----------------------------------------------------------------------------
(* Slip: a full list that takes every id for a seen one.                    *)
SeenOrFull(list, id) == id \in list \/ Cardinality(list) >= MaxCaps

(* seen_id(): the list is full at MaxCaps ids, and then stays as it is.     *)
Seen(list, id) == id \in list
Record(list, id) == IF Cardinality(list) < MaxCaps THEN list \cup {id} ELSE list

(* Slip: a count of the distinct ids, though a full list lets some repeat.  *)
CountDistinct(table) == Cardinality(ToSet(table)) % Width

(* count_caps(), in a uint8_t: the ids seen and the count after n entries.  *)
CountCaps(table) ==
  LET counted[n \in 0..Len(table)] ==
        IF n = 0 THEN [seen |-> {}, count |-> 0]
        ELSE LET was == counted[n - 1]
             IN  IF Seen(was.seen, table[n]) THEN was
                 ELSE [seen |-> Record(was.seen, table[n]), count |-> (was.count + 1) % Width]
  IN  counted[Len(table)].count

Rows(table) == Identity \o table

LastIdx(table) ==
  LET total == (Len(Identity) + CountCaps(table)) % Width
  IN  IF total > 0 THEN total - 1 ELSE 0

IsCap(n) == n > Len(Identity)

-----------------------------------------------------------------------------
StreamInit ==
  /\ caps \in BoundedSeq(Ids, MaxTable)
  /\ start_idx \in 0..MaxStart
  /\ last_idx = LastIdx(caps)
  /\ row = 1 /\ seq = 0 /\ seen = {} /\ offset = 0
  /\ received = <<>> /\ lost = 0

Finished == row > Len(Rows(caps))
Current == Rows(caps)[row]

(* Slip: only capabilities are numbered.                                    *)
AdvanceCaps ==
  /\ row' = row + 1
  /\ seq' = IF IsCap(row) THEN (seq + 1) % Width ELSE seq
  /\ offset' = 0
  /\ seen' = IF IsCap(row) THEN Record(seen, Current) ELSE seen

(* The row is done with: the next one gets the next number, a uint8_t.      *)
Advance ==
  /\ row' = row + 1
  /\ seq' = (seq + 1) % Width
  /\ offset' = 0
  /\ seen' = IF IsCap(row) THEN Record(seen, Current) ELSE seen

(* A duplicate takes no number.                                             *)
SkipDuplicate ==
  /\ ~Finished
  /\ IsCap(row) /\ Seen(seen, Current)
  /\ row' = row + 1
  /\ UNCHANGED <<caps, start_idx, last_idx, seq, seen, offset, received, lost>>

ToSend == ~Finished /\ ~(IsCap(row) /\ Seen(seen, Current))

(* Slip: rows the host did not ask for are not recorded.                    *)
SkipUnrecorded ==
  /\ ToSend /\ seq < start_idx
  /\ row' = row + 1 /\ seq' = (seq + 1) % Width
  /\ UNCHANGED <<caps, start_idx, last_idx, seen, offset, received, lost>>

(* A row before the one asked for takes its number unsent.                  *)
SkipEarlier ==
  /\ ToSend
  /\ seq < start_idx
  /\ Advance
  /\ UNCHANGED <<caps, start_idx, last_idx, received, lost>>

(* send_manifest_entry(), one turn of its loop.  hid_viz_send() does not    *)
(* tell when the transport gave the report up.                              *)
SendChunk ==
  /\ ToSend
  /\ seq >= start_idx
  /\ LET report == Chunk(seq, Current, offset, seq = last_idx)
     IN  /\ \/ received' = Append(received, report) /\ UNCHANGED lost
            \/ lost < MaxLost /\ lost' = lost + 1 /\ UNCHANGED received
         /\ IF report.more
              THEN offset' = offset + ChunkSize /\ UNCHANGED <<row, seq, seen>>
              ELSE Advance
  /\ UNCHANGED <<caps, start_idx, last_idx>>

StreamNext == SkipDuplicate \/ SkipEarlier \/ SendChunk

StreamSpec == StreamInit /\ [][StreamNext]_streamVars

-----------------------------------------------------------------------------
(***************************************************************************)
(* Properties.                                                             *)
(***************************************************************************)
(* What the manifest should list, without reference to how it is streamed:  *)
(* the identity, and each capability where it first occurs.  Only an id that *)
(* comes when the list of seen ones is full is listed every time.           *)
Recorded(table, n) == Cardinality(ToSet(SubSeq(table, 1, n - 1))) < MaxCaps
Repeated(table, n) == \E m \in 1..n - 1 : table[m] = table[n] /\ Recorded(table, m)
Listed(table) ==
  FlattenSeq([n \in DOMAIN table |-> IF Repeated(table, n) THEN <<>> ELSE <<table[n]>>])
Manifest == Identity \o Listed(caps)

(* The uint8_t arithmetic is good for fewer entries than it has values.     *)
Fits == Len(Manifest) < Width

(* Every variable has its type.                                             *)
StreamTypeOK ==
  /\ row \in 1..Len(Rows(caps)) + 1
  /\ seq \in 0..Width - 1 /\ last_idx \in 0..Width - 1
  /\ seen \subseteq Ids /\ Cardinality(seen) <= MaxCaps
  /\ offset \in Nat
  /\ lost \in 0..MaxLost

(* A host that gets every report reads the manifest from the entry it asked *)
(* for on: the same entries under the same numbers whatever the start, with *)
(* long ids back in one piece (manifest.c:89-94, capabilities.h:101-103).   *)
ReadBack ==
  Finished /\ lost = 0 /\ Fits =>
    /\ Numbers(received) = start_idx..Len(Manifest) - 1
    /\ \A n \in Numbers(received) : HostEntry(received, n) = Entry(Manifest[n + 1])

(* What is streamed is the reference stream of the manifest, report for     *)
(* report, from the entry asked for on: flags, chunks and zeroed headers    *)
(* are those of manifest.c:89-125 whatever the section holds, and the count *)
(* made beforehand agrees with the stream, so that its last report and no   *)
(* other is flagged as the last, even if there are more distinct ids than   *)
(* the list of seen ones can hold (manifest.c:50-52, 73).  HubQuery takes   *)
(* that stream as the device's answer.                                      *)
StreamsTheReference ==
  Finished /\ lost = 0 /\ Fits =>
    received = StreamFrom(Manifest, start_idx)

(* A full list of seen ids costs repeats, never a capability                *)
(* (manifest.c:50-52).                                                      *)
EveryCapabilityListed ==
  Finished /\ lost = 0 /\ start_idx = 0 /\ Len(Rows(caps)) <= Width =>
    {HostString(received, n) : n \in Numbers(received)} = {Bytes(s) : s \in ToSet(Rows(caps))}

(* Whatever reports are lost, the host never makes one string out of pieces *)
(* of two.                                                                  *)
EntriesUnmixed ==
  Len(Rows(caps)) <= Width =>
    \A n \in Numbers(received) : \E s \in Strings :
      ToSet(HostString(received, n)) \subseteq ToSet(Bytes(s))

=============================================================================
