# Specifications of zmk-hid-viz

TLA+ models of the ZMK module in this repository, the TLC configurations that
check them on small instances, and proofs checked by TLAPS. Paths below are
relative to the repository; `notifier.c:57` is line 57 of `src/notifier.c`.

To run: `tlc -config X.cfg M` for a module `M` and a configuration `X.cfg` of
the table under *Runs*, `tlapm M.tla` for a module `M` whose name ends in
`Proofs`.

## The system

The firmware module tells a host which layers are active and which keys are
pressed, and takes commands from it, over a 32-byte raw HID channel that another
module (zmk-raw-hid) provides. All of its code runs in one of four contexts:

| context | priority | runs |
|---|---|---|
| USB SetReport callback | must not block | the two listeners on `raw_hid_received_event` |
| ZMK's own (`"sys"`) | above both workers | layer and key listeners, emit and signal behaviours |
| dispatch worker (`"cmd"`) | one above the lowest | every command handler |
| manifest worker (`"man"`) | the lowest | the manifest stream |

### Components

| component | state | operations | what makes it correct |
|---|---|---|---|
| Transmit funnel, `hid_viz_send.c` | `hid_viz_tx_mutex`; the transport's one IN endpoint | `hid_viz_send()` | one sender in `send_report()`; no lost wakeup; bounded wait; a send always returns |
| Command dispatcher, `command_dispatch.c` | `cmd_msgq`, 8 deep; the command in hand | listener: copy and put; worker: get and raise | what is accepted is handled once, in order; dropped only when full |
| Manifest worker, `manifest.c` | `manifest_start_idx`, `manifest_sem` | listener: store, give; worker: take, mute, stream, unmute | the latest request is served; streams do not multiply or mix |
| Manifest contents, `manifest.c`, `capabilities.h` | the ROM section, scratch lists | deduplicate, number, cut into reports | the host reads back the section, from any start |
| Notifier, `notifier.c` | `layer_buf`, `key_buf` | layer and key listeners, `send_layer_state()` | the host's picture of the layers is the keyboard's |
| Command handler, `command_handler.c` | `response_buf`, the mute flag | device info, config id, 0xFC | no intermediate layer state is reported; one final report |
| Layer actions, `layer_actions.c` | `confirm_buf` | setBase, activate, deactivate, confirm | a confirm per nudge, true, in order |
| RGB actions, `rgb_actions.c` | `cur_h`, `cur_s`, `cur_v`, `cur_effect` | 0xD1 and its receipt 0xD0 | absolute; the rest left alone; statics true |
| Emit and signal behaviours | a static buffer each | press | fire and forget through the funnel |
| Capability registry, Kconfig, CMake | the options set, the files compiled, the rows registered | registration at build time | what is advertised is what the built firmware does |
| Host hub, `tools/hid_viz_hub.py` | devices, reports being read, routing table | discover, query, route, forward | one handle per device; a manifest is read whole; an emit reaches its handlers once, in order |

Interaction: the transport's callback raises `raw_hid_received_event`, which the
dispatcher's listener queues and the manifest's listener turns into a semaphore
give. The dispatch worker re-raises each command as `raw_hid_command_event`,
which all handlers see; a handler may call ZMK's keymap, which raises
`zmk_layer_state_changed` *synchronously*, so the notifier's listener runs in
the caller's context, on either thread. Everything outbound ends in
`hid_viz_send()`. Shared by several contexts without a lock: the mute flag
`hid_viz_suppress_notifications`, `layer_buf`, ZMK's layer state and
`manifest_start_idx`.

The hub runs on the host, one loop over all devices: it opens each, sends it 0xF9
and reads what comes back, builds the routing table, and from then on reads one
report of each device in turn and writes an emit to everyone else who handles it.
It meets the firmware only in reports: `RSP_MANIFEST_ENTRY` and the triggers.

Hard behaviours, each listed with its line in `PROJECT.json` under `hazards`:
`layer_buf` filled by two threads; a scan that is stale when it is sent; changes
dropped while muted; one flag with two owners; a full queue; an index overwritten
and a wakeup coalesced; priorities, inheritance and overtaking at the mutex; a
host that stops reading; strings at chunk boundaries; a full deduplication list;
RGB statics that keys and flash bypass; partial refusal of a command; lists that
must agree across files and languages (rows and handlers, enum and table, wire
bytes and the hub's map); a reading window that may end before a stream; chunks
of two streams in one window; devices unplugged while a trigger is forwarded.

## Modules

| module | models | EXTENDS or composes |
|---|---|---|
| `TxFunnel` | `hid_viz_send()` | |
| `LossyFifo` | abstract: what the dispatcher promises | |
| `CommandQueue` | dispatcher's listener, queue and worker | implements `LossyFifo` (`INSTANCE` with `Capacity <- Depth, current <- item`) |
| `ManifestWorker` | request, semaphore, worker's loop | |
| `Workers` | the three above at work together, whatever the handlers do | `TxFunnel`, `CommandQueue`, `ManifestWorker` |
| `HidViz` | the firmware: three threads, notifier, command handler, layer actions | `INSTANCE`s `TxFunnel`, `CommandQueue`, `ManifestWorker` |
| `ManifestFormat` | the manifest's reports, and what `query_manifest()` makes of them; operators only | |
| `ManifestStream` | how a stream comes about from the section | `ManifestFormat` |
| `HubQuery` | `query_manifest()` and `drain()` against a device that streams, in time | `ManifestFormat` |
| `HubDiscovery` | `find_devices()` | |
| `HubStart` | `main()` up to the routing table: find, open, ask one after another | `HubDiscovery`, `HubQuery` |
| `Broker` | abstract: what the hub promises | |
| `HubBroker` | opening, `build_routes()`, `run_hub()`, `handle_report()` | implements `Broker` (`INSTANCE` with `handlers <- routes, serving <- phase = "broker"`) |
| `RgbActions` | `handle_rgb_set` and the underglow | |
| `Capabilities` | Kconfig and CMake, the rows each file registers, and what the built firmware does with commands and keys | |
| `MC...` | values for TLC | the module of that name |
| `WorkersProofs` | theorems about funnel, queue and manifest worker, each alone and joined | `Workers` |
| `HidVizProofs` | theorems about the firmware | `HidViz`; `INSTANCE`s `WorkersProofs` |
| `ManifestFormatProofs` | lemmas about the manifest's reports and their reading | `ManifestFormat` |
| `ManifestStreamProofs`, `HubStartProofs` | theorems | the module of that name and `ManifestFormatProofs` |
| `RgbActionsProofs`, `HubBrokerProofs`, `CapabilitiesProofs` | theorems | the module of that name |

The components up to `Workers`, and `HubDiscovery` and `HubQuery`, are run in their
composition. `PROJECT.json` maps each definition to the lines it models. A
definition introduced by *Slip* is a wrong version of the one after it; no
specification uses it, and putting it in place of that definition must break the
property that `PROJECT.json` names under `mutants`.

### How state and actions correspond to the code

**TxFunnel.** `owner` is the mutex, `tx[t]` where thread `t` is in
`hid_viz_send()`, `busy` the endpoint. `Lock` takes the mutex or sleeps, `Write`
is the transport's copy to the endpoint once it is free, `GiveUp` its ~30 ms
timeout, `Unlock` hands the mutex to the most urgent sleeper. A thread runs when
no thread known to be ready is more urgent, counting the priority a mutex owner
inherits. `waited` counts the reports others send during a wait.

**CommandQueue.** `Put` is the listener: `PutToWorker` (the message goes straight
to a worker blocked in `k_msgq_get`), `PutInQueue`, or `Drop`. `Finish` is the
end of a synchronous raise and the next `k_msgq_get`.

**ManifestWorker.** `Request` is the store of the index, `Give` the
`k_sem_give` after it; between the two the worker may run. `ReadStart`, `Mute`,
`NextEntry`, `EndStream`, `Unmute` are the worker's loop.

**Workers.** The three components joined, with nothing said of what a handler
does. `Receive` is one report to both listeners, `Signal` the give; `Call` lets any
thread that is at work enter `hid_viz_send()`, any number of times, `InSend` is the
rest of it. `EndCommand` and `ManifestTurn` are the two workers' own steps, which
wait until their thread is out of the funnel.

**HidViz.** `pc[t]` says where a thread stands and `back[t]` where it goes on
after a notification or a send, one call deep. `send_layer_state()` is cut at every read
and write of shared state: `ScanLayer` (one layer per step), `ZeroBuffer`,
`WriteHeader`, `WriteMask`, then the funnel's steps. 0xFC is `SetLayers`,
`ClearLayer`, `FillLayer`, `ReportSetLayers`; setBase is `SetBase`, `LeaveLayer`,
`EnterLayer`; activate and deactivate are `Nudge` and `SendConfirm`. Key events
are `KeyEvent`; the four behaviours that fire triggers are `PressEmit`,
`PressEmitFixed`, `PressSignal`, `PressSignalFixed`, each one `Fire` of a report. `active` is
ZMK's layer set and `KeymapOp` its keymap (outside the repository): a change
notifies in the caller's context, a layer the keymap does not have is refused,
layer 0 stays. `wire` is the history of what reached the endpoint. `disturbed`
records three events after which the code cannot promise the host a current
picture: a change muted away by a stream, two threads composing a layer report
at once, a layer report the transport gave up.

**ManifestStream.** `caps` is an arbitrary section. A row is counted
(`CountCaps`), skipped (`SkipDuplicate`, `SkipEarlier`) or sent in chunks
(`SendChunk`). `HostEntry` and `HostManifest`, in `ManifestFormat`, are
`query_manifest()`; `StreamOf` is the stream of a whole manifest, which
`StreamsTheReference` shows `ManifestStream` to produce and which `HubQuery`
takes for the device's answer.

**HubQuery.** `Ask` is the 0xF9; the device may still be streaming for someone who
asked before (`Overlap`). `Read`, `StopDraining` and `ReadFails` are `drain()`'s
loop: the time limit first, then a read, then silence. `SettledBy` and `QuietBy`
are its two conditions. Time goes in slots of the longest a report takes: `Tick`
needs the device to have sent in this slot what it could, and the hub to have
read it.

**HubDiscovery.** `rows` is what the system lists, in any order and number.
`PassOver`, `Group` and `Choose` are the two loops; `Rank` is `_rank()`.

**HubStart.** `Look` is `find_devices()`; `Return` drops its locals and hands on how
many devices there are. `Open` opens the next one, with any manifest and any stream
under way, `OpenFails` passes it over, `Query` is a step of `HubQuery`. The next
device is opened when the query has ended.

**HubBroker.** `Open`, `OpenFails` and `BuildRoutes` are `main()`; of what a device
handles the hub may have learned any part, which is all that `HubQuery` promises.
`PollTrigger`, `PollOther` and `PollNothing` are one read of the device whose
`turn` it is, `Forward` one `dev.write()`, so that a device may go or trigger
between two writes. `log` and `told` are histories: what each device triggered,
what each was written.

**Capabilities.** `opts` and `nodes` are a configuration and a keymap, chosen at
the start; `Compiled` is CMake, `Registered` the section, `Build` the link.
`HostSends` gives a command to every listener that is compiled in (`waiting`); each
takes it (`Take`, with what it sends) or lets it pass. `LayerChanges`, `KeyMoves`
and the four `Press` actions are the keyboard's own events. It says what is sent,
not when: threads and the funnel are in `HidViz`.

**RgbActions.** `actual` and `on` are the underglow, `cur` the statics. A command
is `Take`, `SetColour`, `SetEffect`, `Switch`, `SendReceipt`; `KeyColour` and
`KeyToggle` are keys bound to `&rgb_ug`, at any moment. The colour is refused
nondeterministically, the effect when out of range.

### Simplifications

- `HidViz!Receive` does the dispatcher's put and the manifest's store in one
  step, and the give in another: nothing reads the index between put and store
  but a worker that is already awake, and for it the order is that of another
  behaviour of the model. `Receive` needs the callback to be idle.
- The transport copies a report when the endpoint is free, after the wait. A
  transport that copied it before the wait would still copy it after the mutex
  has been taken, and a sender that sleeps on the mutex has passed only a pointer.
- `response_buf`, `confirm_buf`, `rgb_buf` and `manifest_buf` each belong to one
  worker, `key_buf`, `emit_buf` and `signal_buf` to ZMK's context: their content
  is passed by value. Only `layer_buf` is passed by name.
- A key press and its release are two events alike; the state byte is left out.
- A behaviour that sends several events one after another is several events.
  A command too short for its handler is `IGNORED`.
- Reports carry what the properties need. Byte layouts and logging are left out.
- The hub's reads are one at a time and its loop is the only one, so that a poll
  and the choice of targets are one step; only the writes are apart. What arrives
  for a device while the hub is asking it is not counted as a trigger: the hub reads
  it and throws it away (`hid_viz_hub.py:159`).
- In a query reads take no time and time is counted in slots, so the last slot ends
  exactly at the limit. In the code the request's way to the device and the polling
  (10 ms, `hid_viz_hub.py:131-145`) take some of the window, so a stream that fills
  it to the last slot may be cut off although `WholeManifestRead` counts it as fitting.
- A full command is one its handler's length check lets pass; `Capabilities` tells
  only full from too short.
- `zmk_keymap_layer_to` leaves alone layers held by a key, so `LeaveLayer` may
  skip any layer.

## Runs

| run | configuration | expects | shows |
|---|---|---|---|
| `workers` | `MCWorkers` | pass | funnel: mutual exclusion, no lost wakeup, the most urgent sender waits one report and returns even if the host never reads; dispatcher: lossy FIFO, refinement with its fairness; manifest worker: the latest request is served, streams are not multiplied, it comes to rest. All of it for any handlers |
| `host` | `MCHidVizHost` on `MCHidViz` | pass | every layer command with key events and triggers: confirms right and in order, key events and triggers once each and in order |
| `mixed` | `MCHidVizMixed` on `MCHidViz` | pass | layer keys, triggers, 0xFC and manifest at once, with a host that may stop reading for good: 0xFC stays muted, the mute has an owner, streams are not interleaved whatever is lost, the host's picture of the layers is current unless disturbed, the firmware uses funnel and queue as they ask to be used, everything comes to rest |
| `manifest_stream` | `MCManifestStream` | pass | the manifest is streamed and read back as it should be, past the deduplication limit too, and lost reports do not mix strings |
| `rgb` | `MCRgbActions` | pass | values are clamped, sets are absolute, statics true, absent settings kept unless bypassed, the light comes on with the colour and effect that the command names |
| `hub_start` | `MCHubStart` | pass | one handle per unit, nobody left out but a twin; an undisturbed manifest that fits the window is read whole; an early end (limit, silence, failed read) only truncates it; no string is made of two, even with streams that overlap; the reading always ends |
| `hub_broker` | `MCHubBroker` | pass | triggers reach those who handle them once, in order, never their source, and none is forgotten; refinement of `Broker` with its fairness: what is owed is told in the end |
| `capabilities` | `MCCapabilities` | pass | in every configuration and keymap: what is advertised is handled, confirmed, triggered and notified as its row says, and deduplication loses nothing |
| `lost` | `MCHidVizLost` on `MCHidViz` | violation | a layer change during a manifest stream is never reported |
| `torn` | `MCHidVizTorn` on `MCHidViz` | violation | a layer report without layer 0 or without a type reaches the host |
| `unmuted` | `MCHidVizUnmuted` on `MCHidViz` | violation | 0xFC takes a stream's mute away |
| `rgb_stale` | `MCRgbActionsStale` on `MCRgbActions` | violation | an RGB set brings back old values of the settings it does not name |

Each module states its variables' types. Where they are proved (see *Proofs*) no run
checks them; `RgbTypeOK` is run as well, because the clamping of the host's values
is in it.

### Bounds, and why they are enough

- *Threads*: all three. *Layers*: three instead of 32 (`LayerBits`): the loops
  treat layers alike, and three give a layer that changes, one that does not and
  layer 0. A command names layer 9, which the keymap does not have.
- *Queue*: depth 2 with four arrivals in `Workers`, depth 1 with two or three in
  `HidViz`: full, empty, direct hand-over and drop all happen.
- *Stream*: two entries; starts at 0, inside and past the end; three requests in
  `Workers`, one more than a semaphore of one can hold apart from the stream that runs.
- *Waits* are counted up to two (`WaitCap`), one more than the bound claimed.
- *Events* (`MaxJobs`): one or two from ZMK's context. Two threads composing at
  once need one; the torn report, or one trigger overtaking another, needs two.
- *Manifest*: chunks of two bytes; strings of one byte, one chunk, exactly two
  chunks, and two chunks and a byte; a deduplication list of two against three
  ids and four rows, so that an id is repeated once the list is full; numbers modulo
  seven, above the six rows with the identity, as 256 is above those of any build.
- *RGB*: components 0..2, one command out of range, one empty, one that lights the
  underglow with a colour and one that does so with an effect as well, two keys.
- *Hub's query*: manifests of none, four and five reports against a window
  (`Settle`) of five slots, so that a stream fits with and without another report
  in between, just fits, and does not fit; silence after two. One report lost, one other in between, any rest of a stream under way.
- *Discovery*: listings of up to five of seven rows: a keyboard under two numbers
  and one foreign usage, twins, a row without a number, a device not asked for.
- *Broker*: three devices, one that triggers, one that handles, one that does both;
  two actions, two triggers each, two reports held.
- *Capabilities*: all of the options; seven nodes, of which two share an action and
  one has an id too large for a byte; positions up to and past a byte; the wire bytes are the real ones.
- Histories (`waited`, `requests`, `streams`, `served`, `refused`, `wire`) are bounded by
  those.

`CHECK_DEADLOCK FALSE` is set where behaviours end by the bounds or, as the
manifest stream does, by finishing.

### Fairness

Weak fairness of each thread's next step: Zephyr runs a ready thread once nothing
more urgent is ready, and the step is enabled only then. The transport's wait has
a timeout, so `GiveUp` is part of a thread's fair steps; that is what keeps a
silent host from blocking a thread. The callback finishes (`Give`). In `Workers` a handler
and a turn of the manifest worker send finitely many reports, and are then through:
that is strong fairness of `EndCommand` and `ManifestTurn`, which a send disables for
a while. The hub's loop
goes round (`HubStep`; `Read`, `StopDraining`): it is one thread that never waits
for a device. In a query time passes (`Tick`) and a device sends what it has to, or
gives it up, within a slot (`DeviceSends`). Keys, commands
and, where `HostMayStall`, reading by the host are not assumed to happen.

## Proofs

Checked by TLAPS for all values of the constants under the assumptions that the
modules name. `TxAssumption`: priorities are distinct. `WorkersAssumption`: the
three contexts are among the threads. `QueueAssumption`, `ManifestAssumption`,
`RgbAssumption`, `HidVizAssumption`, `ComponentAssumption` and `ReportAssumption`:
layers, bounds, indices and bytes are numbers, commands are of the types that the
handlers tell apart. `FormatAssumption`: the board name and the config id are no
capability ids, an id is not empty. `StreamAssumption`: the bounds are numbers, a
counter has a value. `DiscoveryAssumption`: a unit is of one model. `QueryAssumption`:
the time limits are positive. `BrokerAssumption`: no device is found twice, every one
handles and triggers some of the actions. `CapAssumption`: the forms of nodes.

Every invariant and every action property that a passing run checks is a theorem.
Each type invariant is one as well; below it is named where more than types is in it.

- **Workers.** Funnel: inductive with the types is that *the owner is exactly the
  thread in the transport, and nobody sleeps on a free mutex* (`OwnerInTransport`).
  Mutual exclusion and no lost wakeup follow. For the bound, *the most urgent thread
  has counted nothing while it sleeps* (`UrgentServedFirst`): the first to leave
  hands over to it. Queue: `NothingLost` is inductive with the types: history =
  served, then in hand, then queue. The refinement of `LossyFifo` uses it in each
  step. Manifest worker: `Handed` says that a worker asleep has used up its
  semaphore, and if no wakeup is pending the last stream began where the last
  request asked. `LatestRequestServed` alone is not inductive: it says nothing of a
  busy worker. The theorems need no fairness and are about `TxSteps`, `QueueSteps` and
  `ManifestSteps`, which every system implements whose steps are steps of theirs;
  `WorkersKeepPromises` has them of the three joined, for any handlers.
- **HidViz, the flag.** `IInv == Control /\ MuteFlag`. The manifest worker could lower
  the flag during a 0xFC; that it does not is due to priorities only. `Control` says
  that only a thread in `hid_viz_send()` has to do with the mutex and that its
  owner is in the transport. Hence (`ManifestYields`) a dispatch worker in 0xFC's
  loops is ready, the manifest worker outside the funnel owns nothing and has been
  lent no priority, so it does not run. `MuteFlag` adds that the flag is up all
  through the loops, that the loops never call the report, and who owns the flag.
- **HidViz, its components.** `Working` says that only threads with work to
  do are anywhere but at rest, so a thread that takes a step in the funnel is one the
  scheduler may run. With it every step of `HidViz` is a step of `TxNext` and of
  `QueueNext` or leaves their variables alone (`FirmwareUsesComponents`). For the
  manifest worker the same holds once `suppress` is read as *the worker's own wish to
  mute* (`OwnMute`), as 0xFC raises and lowers the flag too. `FirmwareKeepsPromises`:
  what `WorkersProofs` shows of the components holds in the firmware.
- **HidViz, the wire.** `Course` says which labels each thread passes, `Typed` what it
  may hand to `hid_viz_send()`; `TypeCorrect` follows. On these rest:
  - `Streaming`: every entry on the wire precedes the one being sent and the one that
    comes next (`StreamsNotInterleaved`);
  - `OwnInOrder`: as many of ZMK's own reports are on the wire as were called for, less
    the one on its way (`OwnReportsInOrder`);
  - `NudgeCourse` and `ConfirmCount`: a nudge in hand is before its confirm, with ZMK's
    answer kept, or past it, and the confirms on the wire are those of the nudges
    served; `NothingLost` then ties them to the commands accepted (`ConfirmsInOrder`);
  - `Portrait`: unless disturbed one thread at most reports the layers; when no report
    is owed, what it has gathered so far is what they are, and with none under way the
    last one on the wire says what they are (`HostViewCurrent`).
- **Manifest.** `ManifestFormatProofs` shows once what the two other modules need: which
  chunks a string is cut into, what the host puts together from a sequence of reports
  and from two of them (`ReadingConcat`), from the first chunks of an entry
  (`ChunksRead`), from the first entries of a stream (`StreamRead`), and that other
  reports in between change nothing (`ReadingKept`). Of the firmware, `Numbering` says
  that sequence number and list of seen ids are those of the rows passed, also when
  the list is full (`SeenAfter`, `ListHolds`); `Progress` that what was received is the
  reference up to the current chunk. The stream is then the reference, the host reads it
  back, every id is in it, and no string is of two, whatever is lost.
- **HubStart.** `Grouping`: rows of one model are in one group, each model has one, and
  what is chosen ranks best (`OneHandlePerUnit`). `FromTheDevice`: whatever is under way
  to the hub was made from this device's manifest (`NothingInvented`).
  `StreamAccounted`: what has been read, what waits and what is still to come are
  together the stream, if nothing was lost and no other stream came first; what has
  been read is then a beginning of it, which ends in some chunk of some entry
  (`BeginningIsCut`, `EarlyEndOnlyTruncates`). `Timing`: as long as reports are
  outstanding, the slots they need are within the stream's length and the reports in
  between, and the hub has read something in this slot or the one before; neither limit
  can then end the reading (`WholeManifestRead`).
- **RgbActions.** `StaticsFollow` is inductive with the types: a static is only
  written together with the underglow. `Progress` says, for each point a command may
  have reached, which of its settings are done: `AbsoluteSet` follows. `InPlace` says the
  same setting by setting, for commands refused in part and disturbed by keys
  (`LightsUpAsNamed`). `Untouched` says the same of those it does not
  name, as long as their statics were true when it came.
- **HubBroker.** `HubInv`: reports wait in the order they were sent and are newer
  than any that was read; the one in hand is owed to the handlers still to be told,
  and was told to those before; what was read earlier has been told to all; the
  table is what was learned, and nothing is read before it is built. Once, in order
  and nothing forgotten need each other here: a trigger is new to a device because
  everything the device was told is older than what is still unread. The same
  invariant shows each step to be one of `Broker` or none (`RefinesBroker`).
- **Capabilities.** `CapInv`: a listener that is still to be called has not acted,
  only commands wait, and what was sent comes from the event in hand. The rest is a
  case for each listener and row. Nodes are arbitrary; that two rows of one id are the
  same row (`KnownDiffer`) needs the tables as they are written.

Statements about sequences of any length (a concatenation of many, a function defined
by recursion on numbers) are proved by least counterexample (`LeastNatural`, from the
well-foundedness of `<` on the naturals): the first `n` for which the statement fails
has a predecessor for which it holds. `FlattenIs` gives the community modules'
`FlattenSeq` in the form that this needs.

Only model-checked: what needs fairness, that is `MostUrgentReturns`,
`WorkerComesToRest`, `ComesToRest`, `QueryEnds` and the fairness parts of the
refinements of `LossyFifo` and `Broker` (their safety parts are theorems). The four
properties of the violation runs do not hold.

## Where code and documentation differ

The four violation runs, detailed in `PROJECT.json`. More were met that have no run:

- `hid_viz_send.h:20-22` says a concurrent sender waits at most one report. So it
  is for ZMK's context (`UrgentBound`). The dispatch worker may be overtaken by
  ZMK's context any number of times while it sleeps.
- `tools/hid_viz_test.py:10-11` expects the confirm before the layer report; the
  notification is synchronous, so the report comes first (`layer_actions.c:71-72`).
- `capabilities.h:99` says the final chunk is null-terminated. A string of exactly
  26 bytes, such as `core.pointing.dpi.setIndex`, fills its report; `ReadBack` shows
  that the hub reads it nevertheless.
- `capabilities.h:103` tells the host to append chunks while the CONTINUES flag is
  set. The hub joins by sequence number and does not look at the flag
  (`hid_viz_hub.py:167`): when an earlier stream is under way an id of one chunk is
  read twice over.
- When the first report of a long capability is lost, its tail, which has a zeroed
  header (`manifest.c:112-114`), is the hub's identity name (`hid_viz_hub.py:163`).
- The hub reads for 600 ms (`hid_viz_hub.py:154`) whatever the LAST flag says; a
  longer manifest, or one with triggers in between, is cut off.
- `Kconfig:22-27` gives key events an option of their own; they are compiled and sent
  with the layer events (`notifier.c:89-103`, `CMakeLists.txt:23`).
- `README.md:200` lists each emitted action as a trigger; the two-cell
  `&hid_viz_emit` registers nothing.
- `Kconfig:29-32` offers commands without layer or key events; that does not link
  (`command_handler.c:16`, `command_handler.c:106`). `Capabilities` has it as the
  phase `"link error"`.

## Not modelled

- `tools/hid_viz_test.py` and `tools/hid_viz_hammer.py`: interactive drivers without
  state of the system's own.
- Devicetree bindings beyond the enum of actions, and `zephyr/module.yml`: they
  declare, and do nothing.
- BLE: zmk-raw-hid's other transport has no wait for an endpoint.
- The wrap of the manifest's `uint8_t` counters: 256 rows are far from any build.
- What the hub prints, and triggers fired while their device is being asked, which
  the hub reads and throws away.

## Plan

1. `TxFunnel`, `CommandQueue` with `LossyFifo`, `ManifestWorker`, `HidViz`,
   `ManifestStream`, `RgbActions` and their first proofs. *Done.*
2. The hub: `HubDiscovery`, `HubQuery`, `HubStart`; `HubBroker` with the abstract
   `Broker` it implements. *Done.*
3. `Capabilities`: configurations, registered rows and what is sent and handled, with
   the emit and signal behaviours. *Done.*
4. Two streams in one reading window, lost reports, the window's end. *Done.*
5. `Workers`: the components joined for any handlers, with a host that may stop
   reading. *Done.*
6. Proofs that the firmware uses funnel and queue as they are specified, and of the
   remaining RGB, hub and capability properties. *Done.*
7. Proofs of what reaches the wire (the types of `HidViz`, streams, confirms, own
   reports, the host's picture), of the manifest's encoding and reading, and of the hub's
   discovery and query. *Done.*
8. Open: an abstract *host view* that `HidViz` implements as long as it is not disturbed.
