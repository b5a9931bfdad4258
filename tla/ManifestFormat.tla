--------------------------- MODULE ManifestFormat ---------------------------
(***************************************************************************)
(* The manifest on the wire and in the host: what an RSP_MANIFEST_ENTRY    *)
(* report holds (capabilities.h, send_manifest_entry in manifest.c) and    *)
(* what query_manifest() in tools/hid_viz_hub.py makes of the reports it   *)
(* has read (hid_viz_test.py does the same).                               *)
(*                                                                         *)
(* An entry's string is cut into chunks of ChunkSize bytes, one report     *)
(* each, which share a sequence number.  A string is its bytes, and byte k *)
(* of string s is the pair <<s, k>>.                                       *)
(***************************************************************************)
EXTENDS Naturals, Sequences, FiniteSets, Functions, SequencesExt

CONSTANTS
  BoardName,  (* CONFIG_ZMK_KEYBOARD_NAME                                   *)
  ConfigId,   (* CONFIG_HID_VIZ_CONFIG_ID                                   *)
  Ids,        (* capability ids                                             *)
  Length,     (* how many bytes each of these strings has                   *)
  ChunkSize   (* MANIFEST_ENTRY_CHUNK_SIZE; 26 in the code                  *)

Strings == Ids \cup {BoardName, ConfigId}

ASSUME FormatAssumption ==
  /\ BoardName \notin Ids /\ ConfigId \notin Ids /\ BoardName # ConfigId
  /\ Length \in [Strings -> Nat]
  /\ \A id \in Ids : Length[id] > 0
  /\ ChunkSize \in Nat \ {0}

(* The identity rows that come before the capabilities.                     *)
Identity == IF Length[ConfigId] > 0 THEN <<BoardName, ConfigId>> ELSE <<BoardName>>

(* ROLE_IDENTITY and ID_TIER_NAME are 0, as is a continuation's header.     *)
Header(s) ==
  IF s \in Ids THEN "capability" ELSE IF s = ConfigId THEN "config id" ELSE "name"
ZeroHeader == "name"

(* One physical report; positions past the string are NUL.                  *)
NUL == <<"NUL">>
More(s, from) == from + ChunkSize < Length[s]
Body(s, from) == [k \in 1..ChunkSize |-> IF from + k <= Length[s] THEN <<s, from + k>> ELSE NUL]
Chunk(n, s, from, isLast) ==
  [type |-> "MANIFEST_ENTRY", seq |-> n,
   more |-> More(s, from), last |-> isLast /\ ~More(s, from),
   header |-> IF from = 0 THEN Header(s) ELSE ZeroHeader, body |-> Body(s, from)]

(* All reports of an entry, and those of a manifest from an entry on.       *)
Count(s) == IF Length[s] = 0 THEN 1 ELSE (Length[s] + ChunkSize - 1) \div ChunkSize
Chunks(n, s, isLast) == [k \in 1..Count(s) |-> Chunk(n, s, (k - 1) * ChunkSize, isLast)]

StreamFrom(manifest, start) ==
  FlattenSeq([k \in DOMAIN manifest |->
    IF k - 1 >= start THEN Chunks(k - 1, manifest[k], k = Len(manifest)) ELSE <<>>])

StreamOf(manifest) == StreamFrom(manifest, 0)

-----------------------------------------------------------------------------
(***************************************************************************)
(* The host.  Reports other than manifest entries are passed over; entries *)
(* are put together by their sequence number, in the order they come, with *)
(* no look at the flags; a string ends at its first NUL.                   *)
(***************************************************************************)
IsPart(r, n) == r.type = "MANIFEST_ENTRY" /\ r.seq = n
Numbers(reports) == {r.seq : r \in {q \in ToSet(reports) : q.type = "MANIFEST_ENTRY"}}

(* What the parts of an entry hold, one after another.                      *)
Assembled(reports, n) ==
  FlattenSeq([k \in DOMAIN reports |-> IF IsPart(reports[k], n) THEN reports[k].body ELSE <<>>])

(* Slip: the padding of the last chunk stays.                               *)
AllBytes(bytes) == bytes

UpToNul(bytes) ==
  LET end == SelectInSeq(bytes, LAMBDA b : b = NUL)
  IN  IF end = 0 THEN bytes ELSE SubSeq(bytes, 1, end - 1)

HostString(reports, n) == UpToNul(Assembled(reports, n))

(* Role and tier are those of the first report seen.                        *)
HostHeader(reports, n) == reports[SelectInSeq(reports, LAMBDA r : IsPart(r, n))].header
HostEntry(reports, n) ==
  [header |-> HostHeader(reports, n), string |-> HostString(reports, n)]

(* What query_manifest() returns: in the order of the numbers, the last     *)
(* name wins.                                                               *)
Headed(reports, h) == {n \in Numbers(reports) : HostHeader(reports, n) = h}
LastOf(reports, h) ==
  IF Headed(reports, h) = {} THEN NUL ELSE HostString(reports, Max(Headed(reports, h)))
HostCaps(reports) ==
  FlattenSeq([k \in 1..Max({0} \cup Numbers(reports)) + 1 |->
    IF k - 1 \in Headed(reports, "capability") THEN <<HostString(reports, k - 1)>> ELSE <<>>])
HostManifest(reports) ==
  [name |-> LastOf(reports, "name"), config |-> LastOf(reports, "config id"),
   caps |-> HostCaps(reports)]

-----------------------------------------------------------------------------
(* What a manifest says, whatever way it travels.                           *)
Bytes(s) == [k \in 1..Length[s] |-> <<s, k>>]
Entry(s) == [header |-> Header(s), string |-> Bytes(s)]
=============================================================================
