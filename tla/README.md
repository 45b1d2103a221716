# ESP32CAM-RTSP: a TLA+ verification project

The firmware turns an ESP32 camera module into an RTSP server with a web page.
Five FreeRTOS tasks, the AsyncTCP task and the Wi-Fi event task share two frame
buffers, a frame queue, a "latest frame" slot, two client caps, a cached page, a cached
status and a few globals. This directory models those parts in TLA+, checks small
instances with TLC, and proves the main invariants with TLAPS for every value of the
constants.

Paths below are those of the repository; `app/` is `src/app/`, `tasks/` is
`src/tasks/`, `Micro-RTSP/` is `lib/Micro-RTSP/src/`.

## 1. Inventory

| Component | State | Operations | Talks to | What makes it correct |
|---|---|---|---|---|
| Frame pipeline: `tasks/task_camera.cpp`, `tasks/task_rtsp.cpp`, driver buffers | who holds each `camera_fb_t`, `g_frame_queue`, `last_broadcast_ms` | capture, publish, send with timeout, receive, pacing gate, broadcast, return | driver, RTSP server, latest-frame slot | each buffer has one owner and comes back; a frame is not refilled while it is sent; order and pace |
| Latest-frame slot: `app/camera_manager.cpp:245-324`; `/snapshot`, `/stream` in `app/web_ui_service.cpp` | `g_latest_buf/len`, a mutex, one response state per request | publish (5 ms lock), length, copy (50 ms lock), response fillers | task_camera, AsyncTCP | nobody is served a torn frame; copies fit; each MJPEG part is one frame |
| Camera set-up and quality: `app/camera_manager.cpp` | driver configuration | `camera_init`, retries, quality mapping | driver, settings | the mapping stays in the register's range and is monotone |
| RTSP server: `lib/rtsp_server`, `CRtspSession.cpp`, `CStreamer::InitTransport` | slot count, session list, per-session flags, UDP ports | accept, guard, reject, read requests, set up a transport, remove | lwIP sockets, `health_monitor` slots | slots = sessions; open sockets have an owner; a transport that was set up stays with its session; clients that go are removed |
| RTP packets: `CStreamer.cpp`, `OV2640Streamer.cpp` | sequence number, timestamp, `m_prevMsec` | decode a JPEG file, cut it into packets | sockets | packets reassemble to the scan; marker and numbering |
| Network manager: `app/network_manager.cpp`, `tasks/task_network.cpp` | `g_state`, retry count and timer, event bits, debounce time | init, tick, event handler, failure and save callbacks | IotWebConf, radio, page cache | state shown = what the portal does; no invented and no missed disconnect; bounded retries |
| Status: `network_get_status`, `web_ui_update_status`, `handle_status` | the network globals, `g_cached_status_json` | store, read load by load, rebuild every 2 s, serve | task_network, task_web_ui, AsyncTCP | a report of a connection carries nothing of earlier attempts; the JSON tells the truth in the end |
| Settings: `network_manager.cpp` (parameters, `update_camera_settings`, `on_config_saved`), `main.cpp` | NVS, IotWebConf's parameters, the frame duration, the sensor's registers | load, save, apply part by part, restart | sensor, page | no register keeps a setting older than the frame duration in force, unless its write failed |
| Web page: `web_ui_service.cpp` cache, `tasks/task_web_ui.cpp` | `g_cached_template`, `g_cache_valid`, last Wi-Fi state | invalidate, render piecewise, poll, serve | settings, network manager | a cached page shows the settings as the driver has noted them after the last save |
| Boot and watchdog: `main.cpp`, `app/health_monitor.cpp:60-140`, heads of the tasks | task phases, watched set, time since each reset | camera retries, task creation, `health_init`, loops | everything | the watchdog fires only for stuck tasks, and does fire for those it watches |
| Reboot log: `app/health_monitor.cpp:270-400` | NVS counter and reason | log, query | NVS | the counter counts the lives, despite resets and failures |
| HTTP slots: `health_monitor.cpp` and the handlers of `web_ui_service.cpp` | `g_http_client_count`, disconnect hooks | accept, release, 503 paths, redirects | AsyncTCP | a slot is a live connection, exactly once |
| Constants, lookup tables, formatting headers | – | – | – | constants of the modules |
| OV2640 wrapper, SimStreamer, samples | – | not run by this firmware | – | – |
| Vendor stacks (FreeRTOS, esp32-camera, lwIP, IotWebConf, ESPAsyncWebServer) | – | not in the repository | – | environment actions, marked external |

The hard behaviour is nearly all of one kind: two contexts on two cores meet in
state that is only partly locked (queue, mutex, event bits, plain globals), or a
resource is counted on many paths (buffers, slots, sockets, retries). `PROJECT.json`
lists these hazards line by line with the properties that guard them.

## 2. Modules and how they correspond to the code

| Module | Models | Correspondence |
|---|---|---|
| `FramePipeline` | task_camera and task_rtsp | `cam`/`rtsp` are program counters: one action per call that may block or touch shared state (`CamGet`, `CamPublish`, `CamSend`, `CamSendTimeout`, `RtspReceive`, `RtspServe`, `RtspReturn`). A buffer's JPEG is the number of the frame in it. `SensorFrame` is the driver with `CAMERA_GRAB_LATEST`; `Tick` is `millis()`, which wraps |
| `FrameHandoff` | what the pipeline promises | frames in flight, oldest first; each viewer's last frame; frames may be dropped, never reordered or repeated. `FramePipeline` implements it by `INSTANCE ... WITH` |
| `LatestFrame` | slot, `/snapshot`, `/stream` | copies go byte by byte under the mutex, fillers are called with any chunk size; the MJPEG state (`have_part`, `frame_len`, `sent`) is the record `stream` |
| `RtspServer` | `rtsp_server::client_handler` and below | one tick is accept (four outcomes: `AcceptGuarded`, `Accept`, `Reject`, `AcceptNobody`), one read per session (`ReadClosed`, `ReadRequest`, `ReadNothing`), and removal, one session per step (`RemoveStopped`, then `RemoveNoMore`). Requests are abstract commands; several that wait may be swallowed by one read, of which only the first is handled. Any request may come at any time. A UDP socket is its port; `InitTransport` ends with a pair (`PairFound`), without an RTP socket (`NoRtpSocket`) or without an RTCP socket (`NoRtcpSocket`), and a pointer to a deleted socket is `DeletedSocket`. Using one, or sending over a null socket, may panic (`DestroyPanics`, `BroadcastPanics`), after which the device restarts (`Reboot`). `scan` and `forgotten` are history: how a session's last scan ended, and which open sockets nobody points to any more |
| `JpegFile` | `findJPEGheader`, `skipScanBytes`, `nextJpegBlock`, `decodeJPEGfile` | on byte sequences. `JpegOf` builds a file from a record: APP0 or not, tables or not, the contents of each segment, the scan, the ending, the padding. A read beyond the buffer finds the constant `Beyond`, any byte |
| `RtpStream` | `streamFrame`, `SendRtpPacket` | one action per packet, for the files of the images `Recorded`; clock, timestamp and sequence number have their widths as constants |
| `NetworkManager` | network_manager and its loop | one tick is `RetryCheck`, `DoLoop` (or a callback in it), `Dispatch` including the synchronisation at its end, `Delay`. `WifiGotIp` and `WifiDisconnect` are the event task, at any moment. Times are ages in seconds, saturated where nothing tells them apart any more |
| `WifiView` | what network_manager promises to readers | state, retry count, error, "connected once", and the six moves that may change them, without event bits, timers or IotWebConf. `NetworkManager` implements it |
| `StatusReport` | `/status` across three contexts | extends `WifiView`: its moves become lists of stores in the source's order, grouped where the compiler may swap them (`stores`, `ram`). `network_get_status` is one action per load, texts are written and copied in two steps, the JSON is `torn` while it is assigned |
| `CameraSettings` | settings from NVS to the sensor | settings are numbered by the save that made them; part 1 is `g_frame_duration_ms`, the others are registers, written one after the other, each write failing or not without notice (`SetRegister`); `noted` is what `sensor->status` says of them. The frame size is only taken by `CameraInit`. `Reboot` at any moment keeps only NVS |
| `WebPage` | page cache | extends `CameraSettings`: rendering reads Wi-Fi state, the frame duration, what is noted of each register, and the portal flag in separate steps, while a save applies its parts |
| `CameraQuality` | quality mapping and its inverse on the page | integer arithmetic with the source's own bounds |
| `Boot` | setup, task heads, watchdog | a task is absent, waiting, looping, suspended or stuck; `since` is the time since its last watchdog reset. A unit of time is the longest loop of a task (5 s), the timeout two of them |
| `RebootLog` | `log_reboot_reason`, call by call | `written` is what this life wrote, `stored` what survives a reset; each call may fail, a reset may come anywhere |
| `HttpClients` | the handlers as to slots | a connection is open, busy with a response, or closed; each route's order of accept, hook, reply and release |

How they compose: `StatusReport` reads what `NetworkManager` writes, and takes it as
`WifiView`, which `NetworkManager` is proved to implement, so that the two
state machines need not be multiplied. `WebPage` contains `CameraSettings`. `RtpStream`
contains `JpegFile`. `FramePipeline` hands whole frames to `LatestFrame` (its
`CamPublish`) and to the sessions of `RtspServer` (its `RtspServe`), which abstract them.

`MC*` modules only give constants and symmetry. `*Proofs` modules hold theorems.
The map from definitions to lines is in `PROJECT.json`.

Definitions commented `Mutant:` are plausible mistakes in the same code. Each
property of a run has one that breaks it, which shows that it depends on what the code
does.

## 3. Runs

| Run | Instance | Question |
|---|---|---|
| `frame_pipeline` | 2 buffers, 1 queue place, 1 client, intervals 1 and 2, clock mod 3, 4 frames | ownership, stability, pace; implements `FrameHandoff`; `BuffersCirculate`, `CameraNeverStuck` although sends time out |
| `network_manager` | 3 retries, backoffs 1/2/4 s, debounce 5 s, 1 save | `PortalShown`, `ConnectedIsClean`, `NoFalseAlarm`, `LostLinkNoticed`, `FallsBackToPortal`; implements `WifiView` |
| `latest_frame` | slot of 3 bytes, frames of 0, 1, 3, 4 bytes, 3 frames, header 1, chunks 1 and 2 | torn or overflowing copies, parts, renewal |
| `rtsp_server` | 3 clients, cap 2, up to 2 unread requests each, PLAY and TEARDOWN | slots, who ends a session, `BacklogIsServed`, `GoneIsRemoved` |
| `rtsp_sockets` | 2 clients, cap 2, 3 port pairs, port 3 in foreign hands, sockets that may fail; SETUP over UDP and TCP, PLAY, OPTIONS | `SocketsAreOwned`, `TransportStays` |
| `boot` | timeout 2, period 1, 2 camera attempts, 2 faults | watchdog, queue creation, recovery |
| `reboot_log` | 3 reasons, 4 lives | counter |
| `http_clients` | 4 connections, cap 2, no keep-alive | slots |
| `rtp_stream` | 3 scans x 3 endings (whole, cut off, broken by a restart marker) x APP0 x tables x padding, fragment 3, words 8 and 3 | decoding, packets, numbering |
| `web_page` | 3 parts, 2 saves, 2 Wi-Fi states, failing register writes, restarts, with and without a camera | duration and registers of one save, settings shown, changes drop the page |
| `status_report` | 3 retries, 1 connection | `ConnectedReportsAreClean`, `StatusCatchesUp` |
| `web_page_stale` | 2 parts, 3 Wi-Fi states, the rest the same | a real disagreement (section 6) |

Why these bounds suffice.

- `frame_pipeline` has one queue place less than `config.h:173` asserts, because with
  as many places as buffers a send never times out (theorem `SendAlwaysFindsRoom`) and the
  branch that drops a frame would never run. Four frames fill queue, task and driver and
  reuse a buffer; the clock wraps. `FramePipelineShipped.cfg` has the shipped two places,
  two clients, intervals 1 and 3 and a clock mod 4, and checks the safety properties with
  `TypeOK`, `SendFindsRoom` and `CaptureOrder`; the proofs cover all sizes.
- Four frame sizes are all cases of the two comparisons with the slot's size; chunks of
  1 and 2 split header, body and trailer at every place. Again the proofs cover the rest.
- Three clients for two slots make acceptance, rejection and the reuse of a slot happen,
  and two unread requests let one read swallow a PLAY or a TEARDOWN. A client that plays
  without SETUP already brings the panic and the restart, so this run needs no sockets.
- Sockets need two sessions, an owner and another one that may rob it. Of the three
  pairs one is half taken, so that a scan goes past it, and two are free, for both
  sessions or for one that repeats its SETUP; since any attempt to open a socket may
  fail, each also ends without RTP and without RTCP socket.
- Backoffs are the shipped ones; saves are bounded by `MaxSaves` (1 in the checked run,
  2 in those of section 6). `StatusReport` needs one connection with its failures before
  and after it; a second one only adds what `StatusReportWords.cfg` shows.
- Three parts make a save that is interrupted at its begin, in its middle and at its end,
  and one of two registers fail; two saves make an old and a new page with a factory one
  before them. Two Wi-Fi states are enough for `web_page`: the model only asks whether
  two states differ and whether a state is `AP_MODE`.
- Two faults suffice for one to hide the other. Four lives give every order of success,
  failure and reset twice.
- A scan of 2 to 5 bytes with fragments of 3 covers shorter, equal, longer and exact
  multiples; words of 8 and 3 wrap within two frames.

Every bound on a counter (`MaxFrames`, `MaxSaves`, `MaxConnects`, `MaxBoots`,
`MaxFaults`, `MaxInbox`) is a named constant of its module.

Type invariants are checked in `network_manager` and `rtp_stream`, where they also carry a
width or a bound, and in `FramePipelineShipped.cfg`; they are proved for those modules,
for `LatestFrame` and for `RtspServer`. In the other modules `TypeOK` is defined and can
be checked by adding `INVARIANT TypeOK` to the cfg. It holds in `LatestFrame.cfg` (108,470
distinct states), `RtspServer.cfg` (181,392), `RebootLog.cfg` (8,367), `HttpClients.cfg`
(36,774), `Boot.cfg` (46,364), `WebPage.cfg` (653,013) and `StatusReport.cfg` (529,882).

Symmetry is used only in runs without liveness. Deadlock is checked everywhere: the
systems do not stop, and where a life ends (`RebootLog`, bounded counters) the idle
step of the running device is explicit.

## 4. Fairness

Safety runs use `Spec`. `FairSpec` assumes only what schedules the code:

- pipeline: weak fairness of each task's next step. The tasks are on two cores and
  every blocking call has a timeout;
- network manager: weak fairness of each part of the tick; strong fairness of the
  connection timeout, since IotWebConf's timer keeps running while ticks come between;
- latest frame: the copier and the publisher finish what they began. `CopyTake` and
  `StreamFiller` are strongly fair: the publisher holds the lock for one `memcpy`, far
  less than the reader's 50 ms, and AsyncTCP polls open connections;
- RTSP server: the timer ticks, and a panic restarts the device. Nothing is assumed of
  clients, of the heap or of sockets, so `GoneIsRemoved` is conditional on the callback
  reaching its sessions;
- boot: time passes, `setup()` goes on, the tasks of the network, the camera and health
  start when created, tasks that are not stuck loop, an expired watchdog panics. Hanging
  is never forced;
- status: task_network finishes the stores of a move it began, task_web_ui goes on with
  its updates. Moves, which are the radio's and the user's, are not fair, and
  `StatusCatchesUp` speaks only of behaviours in which they end;
- web page: task_network goes on with a save, task_web_ui polls, AsyncTCP ends a
  rendering it began. Saves, requests and restarts are not fair.

## 5. Theorems

All proofs are checked by `tlapm`; none assumes more than the named `ASSUME`s on
constants.

- `FramePipelineProofs`, for any number of buffers, places, clients, intervals and any
  clock width. `TypeInv` adds to `TypeOK` which program counters hold a buffer
  (`HolderPhases`), without which a step out of a phase could not know what it returns.
  `IInv == TypeInv /\ BufferOwnership` is inductive and gives `OwnershipCorrect`.
  `SendAlwaysFindsRoom` follows by counting: the queue holds distinct buffers, none of
  them the one being sent, so it is shorter than the number of buffers, hence not full
  when there are as many places as buffers (`config.h:173`). `BroadcastIsStable` follows
  from ownership. `OutputIsPaced` has its own invariant `PaceInv`: the wrapped difference
  never exceeds the true time passed, so a wrap delays a broadcast and never hastens it.
  `FramesStayInOrder` rests on `OrderInv`: along RTSP task, queue and camera task the
  frames grow, all that is in flight is older than what waits in the driver, and no viewer
  has seen a frame that is still in the queue. `HandoffImplemented` is the step
  simulation: `FlightSteps` says what each action does to the frames in flight (drop one,
  add one, take the oldest, nothing), and with `OrderInv` each is a step of `FrameHandoff`
  or a stutter.
- `LatestFrameProofs`, for any slot, frame sizes, header and chunks: `TypeCorrect`,
  `CopiesFit`, `SnapshotsAreExact`, `PartsAreExact`. The invariant says that the mutex is
  held exactly while bytes are copied (`LockInv`), so the slot is at rest under a reader;
  that a slot at rest is one frame of its own length (`SlotInv`); that what a reader has
  copied so far is in the slot too and a copy that succeeded is a frame (`CopyInv`);
  and that what was sent is a prefix of that frame or of its part (`SnapInv`, `StreamInv`).
  `JobInv` is needed because both requests go through the same copying steps.
- `NetworkManagerProofs`: `TypeCorrect`, `PortalIsShown`, `AlarmsAreNeverFalse`,
  `ConnectionIsClean`, `ViewImplemented`. The invariant adds that `PROVISIONING` is never
  entered, that before `network_init` IotWebConf is in its boot state and the device
  disconnected, that a link needs IotWebConf's station mode, and that a pending disconnect
  bit while connected stands for a real loss. `CleanConnection` strengthens
  `ConnectedIsClean` over the middle of a tick, where a failure may already be counted
  while the state still lags behind; it is also what makes each step one of `WifiView`.
- `BootProofs`: `OnlyTheStuckExpire`, `GivesUpWithReason`. `TurnInv`: a watched task that
  is not stuck came round within `Period`, which the timeout exceeds; nothing is watched
  before `health_init`. `QueueInv`: task_rtsp exists only after task_camera has made
  its queue or has been suspended, which follows from the order of creation.
  Of `RebootLog`: `CounterIsNeverAhead`, `NoLoggedLifeIsLost`. `CountInv` and `LivesInv`
  say where a life has still its own count and log to give, `LoggedInv` that while reads
  succeed both the stored and the unsaved counter cover all that was logged, so that a
  reset may take either.
- `WebPageProofs`: `SavesGoTogether`, `PageShowsSettings`. `UntouchedInv` and
  `ApplyingInv` follow a save part by part: up to where it has come, the duration is the
  saved one, and a register too or unknown after a failed write. What a write left unknown
  the driver may have noted or not; where it did take effect, it was noted, which is why
  the page can be right (`SavedUpTo`). `PageInv` says of each place of a rendering which
  parts of the draft are as noted unless an invalidation was lost, `SizeInv` that no page
  outlives the frame size it shows. And, of `CameraQuality`, `MapInRange`,
  `MapIsAntitone`, `EndsMeet`, `ShownIsClose`, `LowestIsShownAsZero`, for all 256 values
  of the parameter.
  Of `HttpClients`: `SlotsStayConnections`, `RefusalMeansFull`, both on the condition
  `~KeepAlive`. `HooksAreBusy`, that a connection with a slot is still busy with its
  response, is what rules out a second slot.
- `RtspServerProofs`, for any clients, cap, port pairs, foreign sockets and requests in
  any order, with sockets that fail to open anywhere in a scan: `TypeCorrect`,
  `SlotsAreKept`, `OnlyClientsEndSessions`, `SocketsKeepOwners`, `TransportsStay`.
  `ListInv` says that a client stands once, in the waiting line or in the list, and that
  its connection tells in which, so that a slot is given back once; `StopInv` says why a
  session has stopped; `GoneInv` that who has left has left nothing. `SocketInv` is the
  partition of the open sockets: those of each session, and the forgotten ones, are
  disjoint, also from the foreign ones. `ScanInv` ties the pointers to how the last scan
  ended: a found pair is open, a deleted socket is only pointed to after a scan that
  failed or by a session that was robbed. `PanicInv` is what a panic needs.
- `StatusReportProofs`: `ReportsAreClean`, for any number of retries and connections
  and every order of the stores that the compiler may choose. `LastState` says that the
  state in memory, once all stores are done, is the state; `ConnectionInv` that in a
  connection which is not ending, count and error are cleared, or will be before
  `STA_CONNECTED` is stored; `BeforeInv` that a reader cannot see `STA_CONNECTED` before
  the connection; `ReaderInv` that what a reader has taken of a connection by its next
  load is clean.
- `RtpStreamProofs`: `TypeCorrect`, `FramesReassemble` from an invariant that says the
  packets sent so far are consecutive slices ending at `offset` (`Progress`),
  `NumberedWithoutGap`, and `DecodingIsExact`: for recorded images of any size
  (segments with any contents, with or without APP0 and tables, any stuffed scan, any
  padding, whole, cut off or broken by a restart marker) `decodeJPEGfile` finds exactly
  the scan and the tables, or refuses a file that is not whole, whatever lies beyond the
  buffer. `findJPEGheader` is a recursive function; `SearchIsDefined` shows that
  it has a value at every position, by an induction on sets of positions
  (`SetInduction`) that follows from the well-foundedness of `<`. The `Walk` lemmas then
  step from segment to segment; `Positions` and `FileParted` say where the parts of a
  file lie; one lemma for each stage of `decodeJPEGfile` (`FindsSoi`, `FindsTables`,
  `FindsSos`, `FindsMark`, `FindsEoi`, and their `FindsNo` counterparts) says what it
  finds there; and `FilesDecode` puts the stages together.

Only model-checked is what a prover of safety cannot reach, liveness:
`BuffersCirculate`, `CameraNeverStuck`, `LostLinkNoticed`, `FallsBackToPortal`,
`StreamRenewed`, `BacklogIsServed`, `GoneIsRemoved`, `StuckIsReset`,
`SingleFaultRecovers`, `ChangesDropThePage`, `StatusCatchesUp`. Every invariant and every
action property of the passing runs is stated by a theorem.

## 6. Where code and words disagree

`web_page_stale` is a finding: an invalidation that falls into a rendering is
overwritten by `g_cache_valid = true` (`web_ui_service.cpp:192`), so the settings page
stays old although `network_manager.cpp:186-187` says the next `GET /` shows the new
ones. The violated property only asks for settings that took effect. `SettingsShown` in
`web_page` is what does hold: the page is right about them unless such an overlap
occurred.

Further statements of comments and documents are properties of the modules too, and
TLC prints a counterexample for each (`tlc -config X.cfg M`, where `M` is the module the
name of the cfg begins with; `MCNetworkManager` for `NetworkWords`, and
the `MC` module wherever there is one). A cfg with several properties has all but one
commented out: each is checked by itself.

| cfg | Property | Statement | What the code does |
|---|---|---|---|
| `FramePipelineWords` | `FreshestBroadcast` | "always sending the freshest frame" (`task_rtsp.cpp:179-180`) | the FIFO gives the oldest queued frame |
| | `NoStarvation` | `docs/ARCHITECTURE.md:95-96` | both buffers can be queued, so the driver has none to fill |
| `NetworkWords` | `RetryIndexInRange` | the index comment at `network_manager.cpp:471-472` | a save resets the count while a retry is pending: index -1 |
| | `ConnectedShown` | `network_manager.cpp:539-540`, `653-657` | a `GOT_IP` bit that arrives before the tick that enters `STA_CONNECTING` is cleared and not used, and the state stays there |
| | `OnlyLongDisconnects` | "only continuous disconnect for the full debounce period" (`153-155`) | the first event of a glitch acts at once |
| | `AllBackoffsUsed` | 1 s, 2 s, 4 s (`195-198`) | the third failure ends the retries; 4 s is never used |
| | `UnprovisionedStartsInApMode` | `network_manager.cpp:428-433` | credentials are looked at (330) before IotWebConf has loaded them (396) |
| `StatusReportWords` | `SignalOnlyIfConnected` | "Safe to call from any task" (`network_manager.h:67`), RSSI "0 if not connected" (`:33`) | `g_state` is read twice, so a report may be disconnected and have a signal |
| | `UptimeIsATime` | seconds since connected (`network_manager.h:36`) | `millis()` is read before `g_connected_since_ms`; a reconnection in between makes the unsigned difference wrap (`network_manager.cpp:691`) |
| | `ServesReports` | `GET /status` serves the cached JSON (`web_ui_service.cpp:206-207`; `docs/ARCHITECTURE.md:172` has it rebuilt by the request) | the server begins before the first JSON (839-842), and the String is copied while it is assigned |
| `CameraSettingsWords` | `PreferencesApplied` | saved preferences are applied when `network_init()` runs (`main.cpp:105-109`) | only `on_config_saved` applies them; after a restart the sensor keeps its defaults |
| | `FrameSizeChosen` | "fetched dynamically from the web UI settings" (`camera_manager.cpp:81`) | it is read (84) before IotWebConf has loaded the settings (`network_manager.cpp:396`) |
| | `SavedSettingsApplied` | "Apply any camera parameter changes immediately" (`network_manager.cpp:183`) | what the sensor's functions return is ignored (275-301), and the frame size is never applied |
| `WebPageWords` | `PageFollowsConnection` | `task_web_ui.cpp:59-61` | a change that reverts between two polls, or a poll that falls into a rendering, leaves an old page |
| | `PageAgrees` | (one page, one connection state) | the state is read at the start of the rendering and again for the portal link |
| | `NextGetShowsFrameSize` | "the next GET / reflects the new settings" (`network_manager.cpp:186-187`) | the page shows the driver's frame size (`web_ui_service.cpp:668`), which no save changes |
| `LatestFrameWords` | `SizedCopySucceeds` | `camera_manager.h:86` | the frame may grow between length and copy: 503 |
| `RtspServerWords` | `NoSocketForgotten` | (sockets go with their sessions) | a repeated SETUP overwrites the pointers to open sockets (`CStreamer.cpp:136`, `139`) |
| | `StreamsHaveTransport` | (nobody streams without a transport) | PLAY without SETUP starts streaming (`CRtspSession.cpp:387`), and so does PLAY after a scan that came to nothing (`CStreamer.cpp:134-152`) |
| `RtspServerRelease` | `EndedSessionsRelease` | `docs/ARCHITECTURE.md:239-240` | the early returns (`rtsp_server.cpp:61-82`) skip removal |
| `RtspServerAnswers` | `RequestsAreAnswered` | "Public: ... PAUSE" (`CRtspSession.cpp:237`) | no handler for PAUSE (215-229) |
| `BootWords` | `SuspensionIsSafe` | `task_camera.cpp:34-36` | the suspended task is watched: reset after reset |
| | `HealthFeedsForAll` | `docs/EMBEDDED_SYSTEM_DESIGN.md:58`, `:111` | each task resets only its own entry |
| | `WatchedBeforeLoop` | `health_monitor.h:27-28` | tasks loop before `health_init` |
| | `NoCaptureWithoutCamera` | `docs/EMBEDDED_SYSTEM_DESIGN.md:154` | task_camera starts in any case |
| `RebootLogWords` | `ReasonOnEveryBoot` | `health_monitor.h:10` | no log if the watchdog cannot be initialised |
| `HttpClientsKeepAlive` | `SlotsAreConnections` | `web_ui_service.cpp:195-196` | 503 replies without `Connection: close` (323, 331, 337, 409) |
| `RtpStreamWords` | `EachImageItsStamp` | "each image gets a timestamp" (`CStreamer.cpp:63`) | the first two frames share 0 |
| `WebPageSettings` | `NextGetShowsSettings` | the finding above | |

And by theorem `LowestIsShownAsZero`: the comment at `web_ui_service.cpp:669-670` gives
the scale as 1-100, the lowest quality is shown as 0.

## 7. Assumptions of the environment

- `setup()` has priority 1 on core 1, task_camera priority 3 on that core, so
  task_camera creates its queue before task_rtsp is created.
- A UDP port in use, by this firmware or by others, makes `WiFiUDP::begin()` fail. Any
  other `begin()` may fail as well.
- Stopping and deleting a `WiFiUDP` that has been deleted already, or sending over one,
  panics, does nothing, or closes another open socket that has got its memory. What else
  a damaged heap may do is not modelled. A null socket panics when it is sent over.
- A sensor register whose write fails holds anything, and `sensor->status` the old value
  or the new one; a write that succeeds is noted there.
- HTTP connections carry one request each in the checked run (`KeepAlive = FALSE`).
- JPEG files have the OV2640's layout: SOI, perhaps APP0, perhaps two quantisation
  tables, frame header, Huffman tables, SOS, each with any contents, a byte-stuffed scan,
  EOI, padding. A file may be cut off after the scan, or a restart marker may stand in it.
- `RtpStream` is about the packets that are formed. `udpsocketsend` gives up on one after
  three attempts (`platglue-esp32.h:70-87`) and returns its length all the same: the packet
  is missing on the wire, and the sequence numbers have a gap there.
- The network globals are plain ones, stored and loaded word by word. The compiler may
  swap stores that stand between two calls, and no others.

## 8. Not modelled

Parsing of RTSP text; SDP and header formatting; which register does what to the image,
pins and clocks of the camera; the health figures in the status JSON, which are plain
readings; tables and name lookups; the HTML; serial output; the OV2640 wrapper's own
capture, `SimStreamer`, the JPEG samples and `platglue-posix.h`, which the
firmware does not run; vendor libraries.

## 9. Plan

Order of writing, most important behaviour first. Done:

1. `FramePipeline`, `FrameHandoff`, with proofs of ownership, order and refinement.
2. `NetworkManager` with proofs; `LatestFrame` with proofs.
3. `RtspServer`, `JpegFile` and `RtpStream`, with proofs: sessions, decoding, packets.
4. `Boot`, `RebootLog`, with proofs: restarts.
5. `HttpClients`, `WebPage`, `CameraQuality`, with proofs: the web side.
6. `WifiView` and `StatusReport`: the network manager's promise to its readers, and the
   reader that takes it piecewise, with proofs.
7. `CameraSettings` under `WebPage`: settings over saves and restarts.

Open:

- `Boot` composed with `RebootLog`, each watchdog reset logged in the next life. Their
  product has 2 million states for two lives and one fault already; an abstract life
  (starts, perhaps logs, ends) that both implement would keep it small.
- An abstract RTSP server (a set of at most `MaxClients` sessions that come, play and
  go) that `RtspServer` implements, for `FramePipeline`'s viewers to be its sessions.
