# AI Passport Server Monitor: a TLA+ verification project

The repository holds the firmware of an ESP32-C3 badge that shows the state of a
Linux server, and the small agent that runs on that server. This directory holds
specifications of both, their TLC configurations, and proofs that TLAPS checks.
`PROJECT.json` lists the runs, the mutants, the theorems, the hazards and, for
every definition, the lines of source it stands for.

1. Inventory: the parts of the system, and what makes each correct
2. Modules: which models what, and the decisions taken
3. Runs: what TLC checks, with bounds and fairness
4. Disagreements between code and documentation
5. Proofs: what TLAPS checks, and along which argument
6. What is only model-checked, and what is not modelled

## 1. Inventory

### Firmware (`main/`, one core, FreeRTOS with fixed priorities)

| Part | State | Operations | Interacts with |
| --- | --- | --- | --- |
| server monitor task (`server_monitor.c`, prio 3) | `s_state`, alarm and announcement memory, WSS client, retry/poll/failure timers, `s_quiescent` | one pass of the loop per 100 ms or notification: read configuration, gate, close, open, drain, poll, age | Wi-Fi worker (configuration, link), WebSocket task (queue, atomics), OTA worker (pause), UI (snapshot), event bus |
| WebSocket client task (library, prio 3) | `s_rx` (shared union), `s_ws_connected`, `s_ws_failed` | callbacks: connected, down, data | monitor (queue of 6), stopped by a join |
| HTTP deadline worker (prio 4) | armed socket and deadline | shut down a socket that is late | monitor, under a mutex |
| configuration center (`monitor_config.c`) | RAM copy, one NVS blob, two locks | init, snapshot, save, setting | config worker (prio 2), Wi-Fi worker, everybody reads |
| Wi-Fi worker and portal (`monitor_wifi.c`, prio 4) | view with revision, event bits, retry timers, portal | setup, save, reconnect, connect, note link | HTTP server task (form), driver events, configuration center, monitor |
| OTA worker (`ota/monitor_ota.c`, prio 2) | view, manifest, boot slots | check, install, self check | monitor (pause and quiescence), bootloader, UI |
| event bus (`events/`, prio 4) | queue of 24, drop counter | emit, dispatch | everybody |
| voice alerts (`audio/`, prio 2) | three queues of 4, cooldown stamps | event, worker | event bus, configuration, board codec |
| UI task, power, pages (`monitor_app.c`, `monitor_ui.c`, `power/`, prio 3) | input queue, wake guard, ambient flag, page and selection | key, tick, draw | all views; commands through the bus |
| telemetry (`monitor_app.c`) | battery mailbox, low flag | read, publish, raise the event | fuel gauge, event bus |
| board support (`components/bsp`) | codec, buttons, display, battery | init, sleep, wake, rebuild | drivers |
| board demonstration (`main.c`, `demo_*.c`) | menu, a worker or a radio for each page | enter, key, tick, leave | board support. `main/CMakeLists.txt` builds none of it; the host tests compile it |

### Agent (`server/passport_status.py`)

A sampler thread stores one serialised snapshot a second; an asyncio loop serves it
over HTTPS, and broadcasts it and the alerts on rising edges to up to sixteen WSS
clients, with send timeouts. State: the snapshot and its age, the alert engine's
active set, the client set, the reservations.

### What is hard

* Concurrency without locks: one TLS session and one receive buffer are shared by three
  users, by program order, by a join, and by a pause handshake of two atomics. The voice
  worker scans three queues that the bus resets; the demonstration's pages share their
  state between the input task, LVGL's timer and a radio's own task.
* Ordering: callbacks during a stop, two transports for one stream of snapshots,
  configuration and revision read under different locks, two queues between a key and the
  setting it changes, two writers on one WebSocket.
* Failure: lost messages, power loss in a save, in an update and in the bring-up of the
  gauge; saves, portals and drivers of which one call of several fails.
* Time: back-off, poll, zombie deadline and staleness compete in one loop; connect
  deadline, retry time and late driver events in another; a deadline worker ends an exchange
  from outside; a page's worker answers after the wait for it has timed out.

### What makes each part correct

* monitor: one TLS session; sessions start clean; loss is noticed; nobody sees data
  of another server; recovery and fallback never stop; a pause leads to quiescence; a
  fetch ends, and only its own connection is ever cut.
* data: nothing old replaces something new; alarms and announcements are edges.
* assembler: exactly the whole good messages, and never past the end of the buffer.
* configuration: RAM is what flash holds; records are whole; a save is not undone.
* Wi-Fi: a portal is whole, silent towards the network, and closes; a lost link shows and a
  station comes back.
* OTA: a proven image is always there to boot; nothing older runs; what is installed is
  what was confirmed; the page never stays locked.
* voice: what must stop stops within a chunk; a critical announcement is neither lost nor
  doubled nor held back.
* interface: the waking gesture does nothing else, and nothing else is swallowed; the cursor is on
  an entry; settings end as the keys left them, and a lost key takes none of them back.
* agent: places are returned, clients get things in order, a slow client stops nobody.
* board and pages: a driver never believes a state its hardware is not in; nothing of a page
  outlives it.

## 2. Modules

| Module | Models | Rests on |
| --- | --- | --- |
| `StatusFeed` | what the user is shown: commit, replay checks, ageing, alarms, announcements. Also the abstract specification (`FeedSpec`) of the loop. | - |
| `OneTls` | abstract: one TLS session that is passed on only by being closed | - |
| `ServerMonitor` | the control loop with the WebSocket callbacks, the Wi-Fi worker, the portal, the OTA worker, the refresh key | `StatusFeed` (extends, and implements its `FeedSpec`), `OneTls` (implements) |
| `WsAssembler` | `monitor_ws_chunk` and a sender | - |
| `HttpDeadline` | one HTTPS exchange against the deadline worker | - |
| `ConfigCenter` | configuration store, its two writers, power failure | - |
| `WifiWorker` | Wi-Fi worker, portal, driver events | - |
| `OtaSlots` | update page, worker, self check, boot slots, resets | - |
| `StatusAgent` | the Python agent | - |
| `VoiceAlerts` | event bus, clip choice, cooldown, queues, playback | - |
| `UiTask` | input queue, wake guard, ambient screen | - |
| `UiMenu` | pages, settings, and the way from a key to the configuration | - |
| `AudioCodec`, `Buttons`, `BatteryGauge`, `DisplayPanel` | the drivers of `components/bsp` (the gauge with the telemetry task) | - |
| `SleepPage`, `TonePage`, `BlePage`, `ScanPage` | the pages of the board demonstration that own a worker or a radio | - |
| `StatusPath` | the way of a status, from the agent to the display | `StatusFeed`, `WsAssembler` (extends), `StatusAgent`, `HttpDeadline` (instances) |
| `LinkAndUpdate` | what is stored, how the link is set up, what is installed | `ConfigCenter` (extends), `WifiWorker`, `OtaSlots` (instances) |
| `Interface` | what is heard, seen and pressed | `VoiceAlerts` (extends), `UiTask`, `UiMenu` (instances) |
| `Board` | the drivers and the pages that own hardware | `AudioCodec` (extends), the other drivers and pages (instances) |
| `MC*` | the values for TLC of the module of that name | |
| `*Proofs` | theorems about the module of that name; `ReconfigurationProofs` continues `ServerMonitorProofs`, `BoardProofs` holds those about the drivers of `Board` and `PagesProofs` those about its pages | |

Parts that share state are composed in one module (`ServerMonitor` with its feed and all the
tasks around the TLS session). Where one part only reads from another, the value
it reads is left free. The modules `StatusPath`, `LinkAndUpdate`, `Interface` and
`Board` put such parts side by side, with their constants still parameters; the MC modules give
these their values. As the parts share no variable, a behaviour of all is an
interleaving of a behaviour of each, a property of one part holds in all interleavings if it holds
in that part's behaviours, and so a behaviour of the composite lets a single part (`part`, chosen in the
initial state) move. The proofs do not rest on this choice: they only use that a step of the
whole is a step of one part that leaves the others alone.

### StatusFeed

`state` is `s_state` reduced to what the code compares: presence, stamp (timestamp and
sequence), channels at or above 90%, server of origin, status, mode. `age` is
`now - last_update`, which saturates just above the offline limit because nothing
distinguishes older ages. Each operation of the C code is one action since only the
monitor task writes this state. `events` and `alerts` hold what the latest step emitted;
the source of a snapshot is a history field that no guard reads. The wall-clock
window is a free Boolean at every call: SNTP may step the clock between any two.
Error text, latency and the receive time for the UI are left out.

### ServerMonitor

`pc` names the next step of `server_monitor_task`; between two steps any other task may
run, except where the scheduler forbids it. `close_ws` is a step that starts a join
(`pc = "joining"`, callbacks go on) and one that ends it and clears the buffer, the
queue and the flags. Timers are kept relative to the pass's `now`, with `lag` the time that
has passed since; only the three blocking calls (notification wait, join, fetch) take time.

* The OTA worker (priority 2) runs only while the monitor (3) is blocked: there is one core.
  The mutexes the monitor takes are held for a copy and inherit priority, so waiting for them
  does not let the worker run either. Without this the handshake would be unsafe (mutant
  `OtaAnytime`).
* `monitor_wifi_config` is two steps, because it copies the configuration before it takes
  the lock under which it reads the revision; the save is three (blob, revision, close).
* `LinkUp` needs an empty command queue and a blocked monitor. Association and DHCP take
  longer than the saves still queued and than a stretch of the loop without blocking. It is
  the assumption on which `OneServer` rests, and it is stated in the module.
* Setup and reconnect commands are taken directly by the worker instead of by way of its
  queue; what the monitor sees of them is the same. The worker itself is `WifiWorker`.
* Messages that are neither status nor alert, fragments, and rejected chunks are actions of
  their own; reassembly in detail is `WsAssembler`, the poll in detail `HttpDeadline`.
* A restart after an update is the end of a behaviour; power loss is covered for the
  stored data in `ConfigCenter` and for the slots in `OtaSlots`, everything in this module
  being RAM.

### WsAssembler

A byte is the pair of its message and its position, so that a delivered message can be
compared with the one sent. The sender (the Espressif client, external) sends text or
binary messages of frames of chunks, also too long ones, continues after a rejection until
it is joined, and may be cut off anywhere. Message numbers alternate between two values: the buffer can
hold only bytes of the current message or leftovers of the one before.

### HttpDeadline

`fetch` holds the mutex in `arm_deadline` and `disarm_deadline`, and each of them and each turn of
`deadline_task` is several steps, so that an expiry can fall anywhere. `owner` says whose
connection a socket number is at the moment; numbers are reused by the rest of the
firmware. The server sends one byte at a time, whenever it likes or never.

### ConfigCenter

The record is reduced to credentials (only the form sets them), audio switch (only the
settings do) and volume (both do). A writer's steps are those at which another task can
observe a difference: copy, lock, commit, publish. `CMD_MUTE` reads the configuration
twice, as the code does. The portal's copy and its queueing are one step: a copy that is stale
when it is queued behaves as one that becomes stale in the queue. A power failure
may come between any two steps and forgets everything but the blob.

### WifiWorker

A pass of the worker is a handful of steps (command, portal, bits, loss, expired attempt,
next attempt); driver events come between any two. The driver takes a tick or more to bring
the station up, may fail or give no address for ever, and reports a disconnection
after the call that asked for it. `calm` is the environment's promise, made once and never
withdrawn, to join at once and to drop nothing: recovery is only claimed after it. A form that finds the
portal's queue occupied is handled by the next pass. `WIFI_CMD_RECONNECT` is handled by the code
but sent by nothing, and is left out.

### OtaSlots

An image is its version; a slot whose image is not whole holds `Broken`. The bootloader
and the OTA library (external) keep one selected slot and a trial state per slot; a reset,
asked for or by power failure, may come between any two steps, and an image that was on trial at a
reset is given up for the other. `best` (the newest image ever confirmed) and `agreed` (the version the
user saw when confirming) are history. Hash, header and transfer are one step
that may fail; the pause may fail (its protocol is in `ServerMonitor`).

### StatusAgent

A step is what runs between two awaits of the asyncio loop; the sampler is a thread of its
own. `gather` and `outbox` are the send tasks of a round. A frame is on its way once
`send_str` is called; the await that follows only waits for room. Authentication, TLS, the
process readings and the HTTPS answer (a read of the snapshot) are left out.

### VoiceAlerts

The handler runs in the bus task and is not preempted by the worker, so it is one step;
the worker's look into each queue, its reading of settings before a chunk, and the chunk
itself are steps of their own. One tick is the time the longest clip may take, so a clip ends
within one tick. `spent` says that this tick has passed. `overrun` counts the chunks written after the clip should have stopped.
The assumption says which clip is critical and that its cooldown outlasts two clips.

### UiTask and UiMenu

A gesture is what the button component makes of presses: three presses or more end without
an event. The UI task reads the clock once per pass. `woke` and `verdict` are history: which
gesture woke the screen and what was done with each event. In `UiMenu` a key is one
step of the UI task, which emits commands on the bus; bus and control task are
two bounded queues, and what the key handler knows of the configuration is the copy of the last
drawing. `wanted` is what the keys asked for; it cannot tell whether the copy they started from
was stale, nor what a full queue or a failed save does. That is what `OneStepAhead` is about: for the settings that go
from one value to the next, the stored value and every value still on its way are the one
shown or the next, in that order.

### The drivers

`AudioCodec` composes sets of outcomes (`Then` stops at the first error, `Both` goes on),
so that each function of the driver reads as in C while every call below it may fail, and the codec library
may hide a failure. The other drivers are one step per call of the library below. `BatteryGauge`
keeps the gauge's registers through a reset of the processor; a write that reports failure may have
been made. `DisplayPanel` follows what is alive below the handles it keeps, the first
frame, and the pins through deep sleep. `Buttons` lets the polling task run between the steps of the initialisation.

### The pages

The input task waits a bounded time for a worker's last word, may give up, and may be asked to leave again;
a page that is left is deleted together with its worker. `SleepPage` includes the menu's navigation and the count
of deep sleeps. That count is `RTC_DATA_ATTR`: a wake from deep sleep finds it, every other start, `esp_restart`
included, loads it from the image again (`Reloaded`). It is shown when the program was
woken from deep sleep by its timer, and then is the number of deep sleeps since the last other start. The restart
after a lock that is not to be had and after `esp_deep_sleep_start` returning is one action
(`Restart`). In `BlePage` and `ScanPage` LVGL's timer reads and writes the state without a lock.

## 3. Runs

| Run | Question | Bounds |
| --- | --- | --- |
| `status_path` | from the agent's sampler to the display: is anything old, doubled, out of order, cut off or stuck | 2 servers, 3 stamps including a restarted sequence, 2 channels; buffer 4, chunk 2, frame 5, message 7; 2 connections, 2 samples; 2 sockets, 2 ticks of patience |
| `quiesce` | one TLS session, clean sessions, refinement of both abstract specifications | 1 server, 1 stamp, queue 1, failure cap 1, OTA and Battery Saver on |
| `reconfigure` | two servers never mix | 2 servers, 2 revisions, 2 queued saves, fallback always on |
| `recovery` | WSS attempts and HTTPS polls never stop | no new data at all, threshold 2, cap 3, refresh key and Battery Saver on |
| `sessions` | a pause is honoured, no session is immortal | 1 server, 1 stamp, OTA on |
| `link_and_update` | store, portal, station and slots under failures and resets | 1 set of credentials (or none), 2 volumes, 2 forms, queue 1; 2 ticks for setup and for an attempt, 2 retry times; versions 1, 2, 3 of which 1 and 3 are healthy, 2 servers |
| `interface` | alarms, keys, settings through their queues | 1 server and 1 critical clip, depths 1, cooldowns 1 and 2; 2 gestures, queue 2, clock to 4; control queue 2, 3 changes, the mute key, a volume of 95 |
| `board` | do drivers and pages know the state of their hardware | 2 formats, volumes 50 and 130; 2 callers, voltages at every edge; 2 profile bytes, 2 polls, charges 15 and 50; 2 pins; 2 menu entries, 2 sleeps; 2 chunks |
| `live_mode` | is LIVE shown only with a client (violated) | as `quiesce` without OTA |
| `save_connect` | does the station connect as saved (violated) | 2 sets of credentials, 1 volume, 3 forms |
| `confirm` | is the version installed the one confirmed (violated) | as in `link_and_update` |
| `wake_guard` | is only the waking gesture swallowed (violated) | 4 gestures, 3 in sequence, the code's queue of 12 |

What the properties of the passing runs say:

| Property | Part | Says |
| --- | --- | --- |
| `FeedAgreement` | `StatusFeed` | types; alarm memory = hot channels on display; announced = stored status |
| `SnapshotsAdvance`, `AlertsAreEdges` | `StatusFeed` | only a newer snapshot or a new configuration replaces one; alarms on rising edges only |
| `Delivers` | `WsAssembler` | buffer in bounds, in step with the sender, exactly the good messages, as sent |
| `ClientsServed` | `StatusAgent` | types; reservations = handlers that run; alerts are numbered above all before |
| `InOrder` | `StatusAgent` | no client gets an older snapshot after a newer one |
| `AgentGoesOn` | `StatusAgent` | every round ends; a place whose peer has stopped reading returns |
| `CutsOnlyLate`, `FetchEnds` | `HttpDeadline` | no foreign socket is shut, none early; a fetch always ends |
| `TlsExclusive`, `TurnsAtTls` | `ServerMonitor` | one TLS session; quiescent means idle; refinement of `OneTls` |
| `SessionsWhole` | `ServerMonitor` | types; sessions start clean; loss is flagged until the client is closed |
| `OnlyDataKeepsAlive` | `ServerMonitor` | only new data postpones the zombie deadline |
| `FeedSpec` | `ServerMonitor` | refinement of the feed's specification |
| `OneServer` | `ServerMonitor` | a pass shows, queues and receives data of its server only |
| `RecoveryContinues`, `FallbackPolls`, `PauseQuiesces`, `SessionsEnd` | `ServerMonitor` | liveness |
| `ConfigSafe`, `WholeRecords`, `EditsSettle` | `ConfigCenter` | RAM is what flash holds; whole records only; every edit ends |
| `SetupSafe` | `WifiWorker` | types; the station is silent and not shown during setup; the portal is whole or gone |
| `LinkGoesOn` | `WifiWorker` | the portal closes; a loss shows; with calm air the station ends up connected and knows it |
| `UpdatesSafe`, `BusyEnds` | `OtaSlots` | types; a proven image to fall back on; never older; only healthy ones confirmed; the token for its origin; busy ends |
| `VoiceSafe` | `VoiceAlerts` | types; at most one chunk after a stop is due; no critical clip twice for one cause |
| `CriticalKept`, `CriticalTaken` | `VoiceAlerts` | a permitted critical clip is never discarded, and is taken |
| `ScreenSafe` | `UiTask` | types; nothing of the waking gesture reaches a page |
| `MenuSafe`, `InstallTakesTwo` | `UiMenu` | types and ranges; cursor on an entry; keys take effect in order; lost ones cost a press at most; no install on the first press |
| `CodecSafe`, `WakeRestores` | `AudioCodec` | what plays is configured; a failed release is final; sleep is verified; handles nest; wake restores |
| `ButtonsSafe` | `Buttons` | ready is whole; the ADC outlives its keys; rollback is whole; one key at a time |
| `DisplaySafe` | `DisplayPanel` | stack whole; frames good; pins quiet in sleep |
| `GaugeSafe`, `GaugeRecovers` | `BatteryGauge` | readings are by our profile; each alarm once; an attempt ends, and one succeeds |
| `PagesSafe`, `WorkersPark` | pages | nothing survives a page; acknowledgements are true; a radio is returned; a worker told to stop does |

Why the bounds are enough. Stamps are compared in pairs, so three of them give every
outcome, with one that has a higher timestamp and a lower sequence. One place in a queue
shows full and empty; two sessions' worth of messages are reached through close and reopen. In
`ServerMonitor` one tick stands for
about fifteen seconds; what matters is the order of the timers, so the recovery run has a
poll interval longer than the short back-offs and a zombie deadline no shorter than the
poll: with a poll of one tick and a wait of one tick a poll would always be due when WSS
may be tried, which the real intervals (10 s against 100 ms) exclude. The frame bounds
exceed the buffer by one, so that every comparison in `monitor_ws_chunk` is met on both
sides, also in the sum over frames. Two ticks for setup and for an attempt let both deadlines
fall before, between and after the driver's events. Three versions give an unhealthy newer one and
a healthy one newer still. The critical cooldown is twice the normal one, as 60 s is to 30 s. Two
chunks, bytes and polls are the least with one that is neither the first nor the
last of those that matter; voltages lie on both sides of each window's edge. The charge of 15 is the bound of the alarm.
The header of each MC module says what its values are for.

Each property of a passing run has a mutant in `PROJECT.json`, a plausible bug of the code under
which TLC finds that property violated.

### Fairness

* `ServerMonitor`: `WF(MonitorStep)`, since the task is runnable after every bounded wait and
  has a priority no other task starves; `SF(Wake(1))`, since time passes. Nothing
  says that the drain of a pass ends: an agent that sends as fast as the loop reads keeps it there, away
  from its timers and from a pause request. `PauseQuiesces` and `SessionsEnd` therefore except exactly
  that behaviour (`DrainedForEver`), and so show that nothing else keeps the loop. Nothing is assumed of the network, the agent, the user or the OTA worker.
* `ConfigCenter`: weak fairness of both workers once they hold the lock, and strong fairness of taking the lock, which
  FreeRTOS gives to waiting tasks in priority and arrival order while the holder finishes in bounded
  time.
* `HttpDeadline`: time and the worker (weak); the mutex serves those who wait (strong); the fetch's own
  steps, and a read of a socket that has been shut down (weak). Nothing of the server.
* `WifiWorker`: the worker (weak), which waits only for its own polls; time (strong, because
  each poll is too short for a tick of its own); the driver's report after a disconnection
  that was asked for (weak); joining and a lease only once the air is calm.
* `OtaSlots`: the worker (weak), since all its waits have timeouts.
* `StatusAgent`: the loop runs every ready task; a send ends within its three seconds; a peer that
  does not read is closed or times out (all weak). Nothing of the peers otherwise.
* `VoiceAlerts`, `SleepPage`, `TonePage`: the worker (weak), whose writes to the codec and waits are bounded.
* `BatteryGauge`: the driver's step, whose waits are bounded, and the gauge's computation
  while it has no result (weak).

The other modules (`UiTask`, `UiMenu`, `AudioCodec`, `Buttons`, `DisplayPanel`, `BlePage`, `ScanPage`,
`StatusFeed`, `WsAssembler`) are checked for safety only: nothing in them waits for
anything that is not a bounded call.

Two properties rest on more than fairness. `StationServed` (in `LinkGoesOn`) needs that a
second form in the queue is handled before the station is up, as association takes longer than
the save. `FetchEnds` needs that a socket that is shut down returns from `read`, which lwIP does.

## 4. Disagreements between code and documentation

Each of the first four is a run.

* `LiveMeansSession` (`live_mode`). Battery Saver closes the WSS client without changing the mode.
  If the poll of that pass fails, the Diagnostics page says `WSS LIVE` and the title says `LIVE`
  until the snapshot is stale, with no session.
* `ConnectsAsSaved` (`save_connect`). A mute pressed during setup can put the previous
  credentials back, since the copy it edits is taken before the save lock.
* `ConfirmedTwice` (`confirm`). A check that is queued before the worker has set `busy` runs after
  the user has confirmed the older offer; the installation that follows takes the new
  manifest, a version never shown.
* `OnlyWakeIsConsumed` (`wake_guard`). Three or more presses on a dark screen end without an event
  that would lift the guard, and the next gesture, on a lit screen, is swallowed.

Seen while modelling, without a run of their own:

* The age of the last reception (`monitor_ui.c` line 133) is an unsigned difference of two
  readings taken in different tasks and can wrap for one frame.
* Two quick volume presses may start from one copy (`monitor_ui.c` line 74) and count as one
  step; `MenuSafe` therefore compares with what the last key asked for, not with a sum, and
  `OneStepAhead` says that more than this cannot happen.
* The drain loop (`server_monitor.c` line 237) has no bound; see Fairness.
* `bsp_button.c` line 128 reads callback and argument one after the other; a second registration in
  between would pair them wrongly. The firmware registers once.
* In `demo_ble.c` the timer may overwrite a state that the host task has just set, in
  `demo_wifi.c` a scan that ends before its state is set leaves "Scanning..." on
  display (`ScanShown` states it with that exception). Neither is in the firmware build.

## 5. Proofs

All theorems hold for every value of the constants that satisfies the module's assumption.

* `StatusFeedProofs`. The two agreements (`AlarmsTrackSnapshot`, `AnnouncedMatchesStatus`) are not
  inductive alone. `FeedInv` adds that an empty state has no stamp (so that a first snapshot is
  always newer) and that a snapshot younger than the offline limit is not shown OFFLINE (so
  that a change of server or a commit cannot separate status and announcement). The two action
  properties follow from it step by step.
* `ServerMonitorProofs`. `TypeCorrect`; `ImplementsFeed`: every step of the firmware is a step of
  `FeedNext` or leaves the feed alone, so everything proved of `FeedSpec` holds of the firmware
  (`FirmwareKeepsFeed`). `Handshake` is the inductive
  invariant of the pause protocol: quiescence outlives its pass, so it records that a quiescent task
  is between the idle point and the pause gate, that a waiting OTA worker keeps the pause set, and
  that the worker is not let in at the step between the two. `OneTlsTransport`, `QuiescenceIsSafe` and the
  refinement `TakesTurns` (with the mapping `TlsOwner`) follow. `Sessions` adds to `FreshSession` and
  `LossForcesResync` that a session that has not connected has lost nothing, which is what allows
  the failure flag to be cleared.
* `ReconfigurationProofs`, on top of these. `ServersNeverMix` (`OneServer`): once the task has read the
  current revision and no save is half done, the configuration it holds is the stored one, and
  everything on display, in the queue and on the wire came from it, except while the old data
  is being cleared; and while a pass that was ready goes on, all of it comes from the configuration
  the pass works with, even if a newer one has been saved meanwhile. The two halves meet where a pass
  begins, and there the order of the two reads in `monitor_wifi_config` matters: an address is
  only noted with nothing left to save (`LinkUp`). `OnlyNewDataCounts` (`OnlyDataKeepsAlive`)
  needs in addition that the silence counter never exceeds the zombie deadline by more than a tick.
* `StatusPathProofs`, for any buffer, chunks, frames and messages, any sockets and patience, any
  number of connections, channels and places.
  *The assembler*: `WsInv` is `TypeOK`, `InStep` and the two delivery properties; two lemmas, `GoodChunk` and
  `BadChunk`, say what one call does to a message that fits and to one that does not.
  *The deadline* (`DeadlineCutsOnlyLate`): the mutex tells apart who is between taking and giving
  it; a number is armed only between the middle of `arm_deadline` and `disarm_deadline`, and is
  then the fetch's own; outside `arm_deadline` the worker's clock is the fetch's. A socket that is cut is
  then the fetch's own, and late.
  *The agent* (`ClientsAreServed`, `SnapshotsInOrder`): nobody has been sent a number not yet given, and of
  what a send task still holds only the first message may be a status, no older than anything its
  connection got before. Without that second half, `InOrder` could fail at the step that sends it.
  Places are counted on the set of the handlers, which is finite even if the connections are not.
* `LinkAndUpdateProofs`, for any credentials, volumes, queue depth, deadlines, retry table, versions and servers.
  *The store* (`StoreIsSafe`, `RecordsAreWhole`): `Durable` is inductive with `TypeOK`.
  *The Wi-Fi worker* (`SetupIsSafe`): `Setup` says that the three signs of the portal go together, are up
  only between the end of a scan and the next look, and that the station has been silent
  since before that scan. Isolation alone is not inductive: the portal is opened at the end of a scan,
  and whether the station is silent then was decided where the scan began.
  *The slots* (`UpdatesAreSafe`): at any time either the newest confirmed image runs and another is
  selected only when whole, newer and about to be started (`Proven`), or it waits in the other slot
  behind a newer one on trial, which installs nothing (`OnTrial`). `Offer` and `Download` say that what
  is installed is the manifest's, newer, and from the server the token belongs to.
* `InterfaceProofs`, for any clips of which one is critical, any gestures, depths, lengths and timeouts.
  *The voice* (`AlertsAreSafe`, `CriticalIsKept`): a chunk is on its way only if the clip might
  go on when that was read, hence one chunk too many at most. A critical clip that waits lets no
  tick pass, for what is spoken gives way; while it is spoken one does. With a cooldown of two
  ticks, the same clip is never accepted in between, so the queue holds at most one and always has
  room. This is why `VoiceAssumption` says that there is one critical clip with a cooldown longer
  than two clips (`EV_SERVER_ALERT` of level 2, 60 s).
  *The screen* (`ScreenIsSafe`): events stay in the order of their gestures from the button through the
  queue to the task, and what ends a gesture is the last of it (`InputInOrder`); while the guard is up
  nothing older than the waking gesture is on its way, and once it is down nothing of that
  gesture either (`Guarded`).
  *The menus* (`MenuIsSafe`, `InstallNeedsTwo`): `MenuSafe` speaks of empty queues only. `OnTheWay` says what
  holds before: the commands in the second queue lead from the stored configuration to some other,
  and those in the first lead on to the one the keys asked for. `OneStepAhead` is inductive with it:
  a command moves on, is carried out or is lost, and what remains of the two queues, one after the
  other, still takes each setting from its stored value at most to the one after the value
  shown; the next drawing can only show one of these two.
* `BoardProofs`, for any formats, volumes, callers, voltages, profile, waits and pins.
  *The codec* (`CodecIsSafe`, `WakeIsWhole`): the driver is a composition of sets of outcomes,
  and the proof follows it, with one lemma for each function that says what it leaves alone and what
  an outcome that reports success has achieved. `CodecInv` adds to `Sane` that an initialisation or a
  change of format that reported success did not follow a failed release.
  *The buttons* (`ButtonsAreSafe`): which keys, handles and callbacks exist at each step of
  `bsp_button_init` and of its rollback (`ButtonStage`); the voltage windows are disjoint for any voltages.
  *The gauge* (`GaugeIsSafe`): a gauge that runs with our profile and our flag bases its readings on them
  wherever an attempt was cut off (`GaugeChips`), and the driver knows at each step how
  much of this is there (`GaugeProgress`).
  *The display* (`DisplayIsSafe`): what is open at each step (`Built`), who holds the port's lock
  (`Drawn`), and what the pins have shown since they were parked (`Quieted`).
* `PagesProofs` (`PagesAreSafe`), for any number of chunks, entries and sleeps. What a page that is left
  has given back follows from where its input task and its worker are (`ToneStage`, `BleStage`, `ScanStage`,
  `PageStage`): for instance, an acknowledgement can be pending only while the worker is
  parked, and a scan counts as shown only while its event handler is registered. In `SleepPage` the memory that survives a deep
  sleep counts what the history counts, if its magic number is there, and a start that loads it
  anew finds both at zero.

Theorems about a part that a composite extends are stated of that part's specification, all others
of the composite's, and they name the very properties the runs check. A lemma of each composite (`PathParts`, `LinkParts`, `InterfaceParts`, `BoardDrivers`,
`BoardPages`) shows that every step of the composite is, for each part, a step of its own or none; the
part's invariant then carries over. The composites' named assumptions collect those of
their parts, and every run evaluates them. They ask only that bounds be positive, sets of
credentials, voltages and the like be of the right kind, and what is said above of the critical clip.
The proofs assume the same scheduling as the models (`OtaMayRun`, `LinkUp`).

## 6. Limits

Every invariant and every action property of the passing runs is also proved. Only model-checked is liveness:
`PauseQuiesces`, `SessionsEnd`, `RecoveryContinues`, `FallbackPolls`, `EditsSettle`, `LinkGoesOn`, `BusyEnds`,
`AgentGoesOn`, `FetchEnds`, `CriticalTaken`, `WorkersPark`, `GaugeRecovers`. It needs fairness, and so
`ENABLED`, which the prover has no rule for, and arguments by induction over the data (the length of a
queue, the chunks left of a clip), which its backends cannot instantiate. The specifications keep their bounds
(`MaxSeq`, `MaxGestures` and others) as parameters: the theorems hold for each value of them.

Not modelled, and why:

* The contents of messages: JSON, URLs, version strings, forms. These are pure functions of
  a text that the host tests cover with tables; the models take their verdict as a guard.
* The walk of the captive DNS server over a packet, the I2C scan, the backlight's duty, the
  rounding of areas to the panel's grid, resampling: arithmetic without state.
* Drawing, texts, history plots, and the pages that only draw.
* The start-up sequence of `app_main`: one task that starts the parts in order before any interleaving.
* Release and repository tools: offline scripts without shared state.
