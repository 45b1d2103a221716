--------------------------- MODULE FramePipeline ---------------------------
(***************************************************************************)
(* The path of a JPEG frame from the sensor to the RTSP clients.           *)
(*                                                                         *)
(* The esp32-camera driver owns a fixed set of frame buffers (fb_count).   *)
(* task_camera takes one (camera_fb_get), publishes a copy for the web     *)
(* handlers and sends the pointer through g_frame_queue; task_rtsp takes   *)
(* pointers out of the queue, sends the frame to every streaming client    *)
(* when the pacing gate is open, and gives the buffer back to the driver.  *)
(*                                                                         *)
(* A buffer is a name; the JPEG in it is the number of the frame that the  *)
(* sensor wrote there, so that a stale, repeated or overwritten frame is   *)
(* visible.  The driver is external: it is what camera_manager.cpp and     *)
(* task_camera.cpp rely on.                                                *)
(***************************************************************************)
EXTENDS Integers, Sequences, FiniteSets

CONSTANTS
    Buffers,      \* the driver's frame buffers (config.fb_count of them)
    NoBuf,        \* the null camera_fb_t*
    QueueLength,  \* CAMERA_FRAME_QUEUE_LENGTH
    Clients,      \* RTSP clients that may stream
    Intervals,    \* the frame durations the user may configure (in ticks)
    ClockMod,     \* millis() wraps to 0 after ClockMod - 1 ticks
    MaxFrames     \* bound on the frames the sensor produces

ASSUME BuffersAssumption == IsFiniteSet(Buffers) /\ NoBuf \notin Buffers
ASSUME QueueAssumption == QueueLength \in Nat \ {0}
ASSUME ClockAssumption == ClockMod \in Nat \ {0}
ASSUME IntervalsAssumption == Intervals \subseteq Nat /\ Intervals # {}
ASSUME FramesAssumption == MaxFrames \in Nat

VARIABLES
    idle,           \* driver buffers the sensor may overwrite
    ready,          \* the driver buffer holding the latest complete frame, or NoBuf
    content,        \* the number of the frame each buffer holds (0: none yet)
    captured,       \* frames the sensor has produced
    cam,            \* where task_camera is
    camFb,          \* fb of task_camera's loop
    queueMade,      \* g_frame_queue # NULL
    queue,          \* g_frame_queue
    latest,         \* the frame published for the web handlers
    rtsp,           \* where task_rtsp is
    rtspFb,         \* fb of task_rtsp's loop
    streaming,      \* clients with m_streaming /\ ~m_stopped
    toServe,        \* clients broadcastFrame has still to send to
    seen,           \* last frame each client was sent
    netReady,       \* g_network_ready
    clock,          \* millis()
    lastBroadcast,  \* last_broadcast_ms
    elapsed,        \* real ticks since the last broadcast began (history)
    interval        \* g_frame_duration_ms

driverVars == <<idle, ready, content, captured>>
camVars    == <<cam, camFb, queueMade, latest>>
rtspVars   == <<rtsp, rtspFb, streaming, toServe, seen>>
paceVars   == <<clock, lastBroadcast, elapsed, interval>>
vars == <<driverVars, camVars, queue, rtspVars, netReady, paceVars>>

CamPhases  == {"boot", "get", "publish", "send", "delay", "suspended"}
RtspPhases == {"wait", "loop", "receive", "broadcast", "return", "suspended"}

MaybeBuffer == Buffers \cup {NoBuf}
Held(fb) == {fb} \ {NoBuf}          \* a task's buffer, as a set
DriverBuffers == idle \cup Held(ready)

TypeOK ==
    /\ idle \subseteq Buffers
    /\ ready \in MaybeBuffer
    /\ content \in [Buffers -> Nat]
    /\ captured \in Nat
    /\ cam \in CamPhases
    /\ camFb \in MaybeBuffer
    /\ queueMade \in BOOLEAN
    /\ queue \in Seq(Buffers)
    /\ latest \in Nat
    /\ rtsp \in RtspPhases
    /\ rtspFb \in MaybeBuffer
    /\ streaming \subseteq Clients
    /\ toServe \subseteq Clients
    /\ seen \in [Clients -> Nat]
    /\ netReady \in BOOLEAN
    /\ clock \in Nat
    /\ lastBroadcast \in Nat
    /\ elapsed \in Nat
    /\ interval \in Intervals

Init ==
    /\ idle = Buffers
    /\ ready = NoBuf
    /\ content = [b \in Buffers |-> 0]
    /\ captured = 0
    /\ cam = "boot"
    /\ camFb = NoBuf
    /\ queueMade = FALSE
    /\ queue = <<>>
    /\ latest = 0
    /\ rtsp = "wait"
    /\ rtspFb = NoBuf
    /\ streaming = {}
    /\ toServe = {}
    /\ seen = [c \in Clients |-> 0]
    /\ netReady = FALSE
    /\ clock = 0
    /\ lastBroadcast = 0
    /\ elapsed = 0
    /\ interval \in Intervals

-----------------------------------------------------------------------------
(* The environment: sensor, network task, clock, settings.                 *)

\* The sensor completes a frame in a buffer the driver owns.  GRAB_LATEST: the
\* frame that was waiting is recycled, so that fb_get returns the newest.
SensorFrame ==
    /\ captured < MaxFrames
    /\ \E b \in idle :
         /\ content' = [content EXCEPT ![b] = captured + 1]
         /\ idle' = (idle \ {b}) \cup Held(ready)
         /\ ready' = b
    /\ captured' = captured + 1
    /\ UNCHANGED <<camVars, queue, rtspVars, netReady, paceVars>>

\* network_init() has run: LWIP is up.  The flag is never cleared.
NetworkReady ==
    /\ ~netReady
    /\ netReady' = TRUE
    /\ UNCHANGED <<driverVars, camVars, queue, rtspVars, paceVars>>

Tick ==
    /\ clock' = (clock + 1) % ClockMod
    /\ elapsed' = IF elapsed < ClockMod THEN elapsed + 1 ELSE elapsed
    /\ UNCHANGED <<driverVars, camVars, queue, rtspVars, netReady,
                   lastBroadcast, interval>>

\* A saved configuration changes "fd" while frames are in flight.
SetInterval ==
    /\ \E i \in Intervals \ {interval} : interval' = i
    /\ UNCHANGED <<driverVars, camVars, queue, rtspVars, netReady,
                   clock, lastBroadcast, elapsed>>

-----------------------------------------------------------------------------
(* task_camera                                                             *)

\* xQueueCreate; without a queue the task suspends itself for ever.
CamStart ==
    /\ cam = "boot"
    /\ \/ queueMade' = TRUE /\ cam' = "get"
       \/ queueMade' = FALSE /\ cam' = "suspended"
    /\ UNCHANGED <<driverVars, camFb, latest, queue, rtspVars, netReady, paceVars>>

\* camera_fb_get blocks until the driver has a complete frame ...
CamGet ==
    /\ cam = "get"
    /\ ready # NoBuf
    /\ camFb' = ready
    /\ ready' = NoBuf
    /\ cam' = "publish"
    /\ UNCHANGED <<idle, content, captured, queueMade, latest, queue,
                   rtspVars, netReady, paceVars>>

\* ... or returns NULL: PSRAM guard, driver timeout or driver error.
CamGetNull ==
    /\ cam = "get"
    /\ cam' = "delay"
    /\ UNCHANGED <<driverVars, camFb, queueMade, latest, queue, rtspVars,
                   netReady, paceVars>>

\* camera_publish_latest, as the atomic register that LatestFrame implements;
\* it is skipped when the buffer is missing, too small or locked for 5 ms.
CamPublish ==
    /\ cam = "publish"
    /\ latest' \in {latest, content[camFb]}
    /\ cam' = "send"
    /\ UNCHANGED <<driverVars, camFb, queueMade, queue, rtspVars, netReady, paceVars>>

\* xQueueSend stores the pointer ...
CamSend ==
    /\ cam = "send"
    /\ Len(queue) < QueueLength
    /\ queue' = Append(queue, camFb)
    /\ camFb' = NoBuf
    /\ cam' = "delay"
    /\ UNCHANGED <<driverVars, queueMade, latest, rtspVars, netReady, paceVars>>

\* Mutated form of CamSendTimeout: xQueueSend with portMAX_DELAY.
CamSendForever ==
    /\ cam = "send"
    /\ Len(queue) = QueueLength
    /\ UNCHANGED vars

\* ... or times out on a full queue and the frame goes back to the driver.
CamSendTimeout ==
    /\ cam = "send"
    /\ Len(queue) = QueueLength
    /\ idle' = idle \cup {camFb}
    /\ camFb' = NoBuf
    /\ cam' = "delay"
    /\ UNCHANGED <<ready, content, captured, queueMade, latest, queue,
                   rtspVars, netReady, paceVars>>

CamDelay ==
    /\ cam = "delay"
    /\ cam' = "get"
    /\ UNCHANGED <<driverVars, camFb, queueMade, latest, queue, rtspVars,
                   netReady, paceVars>>

CamNext ==
    \/ CamStart \/ CamGet \/ CamGetNull \/ CamPublish
    \/ CamSend \/ CamSendTimeout \/ CamDelay

-----------------------------------------------------------------------------
(* task_rtsp                                                               *)

\* Polls network_is_ready(), builds the server, then looks at the queue once.
\* setup() creates task_camera first, at a priority above its own on the same
\* core, so task_camera has passed xQueueCreate by then.
RtspStart ==
    /\ rtsp = "wait"
    /\ netReady
    /\ cam # "boot"
    /\ rtsp' = IF queueMade THEN "loop" ELSE "suspended"
    /\ UNCHANGED <<driverVars, camVars, queue, rtspFb, streaming, toServe, seen,
                   netReady, paceVars>>

\* server.doLoop(): clients come, PLAY, TEARDOWN and go (module RtspServer).
RtspDoLoop ==
    /\ rtsp = "loop"
    /\ streaming' \in SUBSET Clients
    /\ rtsp' = "receive"
    /\ UNCHANGED <<driverVars, camVars, queue, rtspFb, toServe, seen, netReady, paceVars>>

\* Mutated form of Due: now >= last_broadcast_ms + frame_interval_ms.
DueBySum == clock >= (lastBroadcast + interval) % ClockMod

\* now - last_broadcast_ms >= frame_interval_ms, in unsigned arithmetic.
Due == (clock - lastBroadcast) % ClockMod >= interval

\* Mutated forms of RtspReceive: a frame the pacing gate drops is not returned;
\* the buffer is returned before the broadcast instead of after it.
RtspReceiveLeak ==
    /\ rtsp = "receive"
    /\ queue # <<>>
    /\ rtspFb' = Head(queue)
    /\ queue' = Tail(queue)
    /\ \/ /\ Due
          /\ lastBroadcast' = clock
          /\ elapsed' = 0
          /\ toServe' = streaming
          /\ rtsp' = "broadcast"
       \/ /\ ~Due
          /\ rtsp' = "loop"
          /\ UNCHANGED <<lastBroadcast, elapsed, toServe>>
    /\ UNCHANGED <<driverVars, camVars, streaming, seen, netReady, clock, interval>>

RtspReceiveEarlyReturn ==
    /\ rtsp = "receive"
    /\ queue # <<>>
    /\ rtspFb' = Head(queue)
    /\ queue' = Tail(queue)
    /\ idle' = idle \cup {Head(queue)}
    /\ lastBroadcast' = clock
    /\ elapsed' = 0
    /\ toServe' = streaming
    /\ rtsp' = "broadcast"
    /\ UNCHANGED <<ready, content, captured, camVars, streaming, seen, netReady,
                   clock, interval>>

RtspReceive ==
    /\ rtsp = "receive"
    /\ queue # <<>>
    /\ rtspFb' = Head(queue)
    /\ queue' = Tail(queue)
    /\ \/ /\ Due
          /\ lastBroadcast' = clock
          /\ elapsed' = 0
          /\ toServe' = streaming
          /\ rtsp' = "broadcast"
       \/ /\ ~Due
          /\ rtsp' = "return"
          /\ UNCHANGED <<lastBroadcast, elapsed, toServe>>
    /\ UNCHANGED <<driverVars, camVars, streaming, seen, netReady, clock, interval>>

RtspReceiveNothing ==
    /\ rtsp = "receive"
    /\ queue = <<>>
    /\ rtsp' = "loop"
    /\ UNCHANGED <<driverVars, camVars, queue, rtspFb, streaming, toServe, seen,
                   netReady, paceVars>>

\* broadcastFrame reads fb->buf once per streaming client.
RtspServe(c) ==
    /\ rtsp = "broadcast"
    /\ c \in toServe
    /\ seen' = [seen EXCEPT ![c] = content[rtspFb]]
    /\ toServe' = toServe \ {c}
    /\ UNCHANGED <<driverVars, camVars, queue, rtsp, rtspFb, streaming, netReady, paceVars>>

RtspServed ==
    /\ rtsp = "broadcast"
    /\ toServe = {}
    /\ rtsp' = "return"
    /\ UNCHANGED <<driverVars, camVars, queue, rtspFb, streaming, toServe, seen,
                   netReady, paceVars>>

\* camera_fb_return, broadcast or not; then vTaskDelay.
RtspReturn ==
    /\ rtsp = "return"
    /\ idle' = idle \cup {rtspFb}
    /\ rtspFb' = NoBuf
    /\ rtsp' = "loop"
    /\ UNCHANGED <<ready, content, captured, camVars, queue, streaming, toServe,
                   seen, netReady, paceVars>>

RtspNext ==
    \/ RtspStart \/ RtspDoLoop \/ RtspReceive \/ RtspReceiveNothing
    \/ \E c \in Clients : RtspServe(c)
    \/ RtspServed \/ RtspReturn

-----------------------------------------------------------------------------
Next == SensorFrame \/ NetworkReady \/ Tick \/ SetInterval \/ CamNext \/ RtspNext

Spec == Init /\ [][Next]_vars

\* FreeRTOS runs each task again after its vTaskDelay: the two tasks are on
\* different cores and each is the highest ready priority there most of the
\* time, and the calls they block in have timeouts.
Fairness == WF_vars(CamNext) /\ WF_vars(RtspNext)

FairSpec == Spec /\ Fairness

-----------------------------------------------------------------------------
(* Properties                                                              *)

\* The places a buffer can be, other than the queue, are disjoint from each
\* other and from the queue, no pointer is queued twice, and no buffer is lost:
\* every camera_fb_get is matched by exactly one camera_fb_return.
Elems(s) == {s[i] : i \in DOMAIN s}
Distinct(s) == \A i, j \in DOMAIN s : s[i] = s[j] => i = j
QueuedBuffers == Elems(queue)

OneOwner ==
    /\ ready \notin idle
    /\ DriverBuffers \cap (Held(camFb) \cup QueuedBuffers \cup Held(rtspFb)) = {}
    /\ Held(camFb) \cap (QueuedBuffers \cup Held(rtspFb)) = {}
    /\ Held(rtspFb) \cap QueuedBuffers = {}
    /\ Distinct(queue)

NoneLost ==
    Buffers = DriverBuffers \cup Held(camFb) \cup QueuedBuffers \cup Held(rtspFb)

BufferOwnership == OneOwner /\ NoneLost

\* A task holds a buffer exactly in the part of its loop that uses one.
HolderPhases ==
    /\ camFb # NoBuf <=> cam \in {"publish", "send"}
    /\ rtspFb # NoBuf <=> rtsp \in {"broadcast", "return"}

\* With a queue as long as the driver has buffers, xQueueSend always finds room:
\* the buffer in the sender's hand is one the queue does not hold, so the
\* timeout-and-drop branch of task_camera is dead code in the shipped
\* configuration (static_assert CAMERA_FRAME_QUEUE_LENGTH == CAMERA_FB_COUNT).
SendFindsRoom ==
    QueueLength >= Cardinality(Buffers) /\ cam = "send" => Len(queue) < QueueLength

\* Frames stay in capture order from the driver to the clients, whatever is
\* dropped on the way: no client can be shown a frame older than its last.
AsSeq(fb) == IF fb = NoBuf THEN <<>> ELSE <<fb>>
Outstanding == AsSeq(rtspFb) \o queue \o AsSeq(camFb) \o AsSeq(ready)
FrameOf(bufs) == [i \in DOMAIN bufs |-> content[bufs[i]]]

CaptureOrder ==
    LET frames == FrameOf(Outstanding)
    IN /\ \A i, j \in DOMAIN frames : i < j => frames[i] < frames[j]
       /\ \A c \in Clients, i \in DOMAIN frames : seen[c] <= frames[i]

\* All clients of one broadcast get the same frame: the sensor never overwrites
\* a buffer that task_rtsp is still sending from.
StableBroadcast ==
    rtsp = "broadcast" => \A c \in streaming \ toServe : seen[c] = content[rtspFb]

\* Two broadcasts are at least the configured frame duration apart in real
\* time, also across the wrap of the millisecond counter.
PacedOutput ==
    [][rtsp = "receive" /\ rtsp' = "broadcast" => elapsed >= interval]_vars

\* Once the network is up every buffer that leaves the driver comes back.
BuffersCirculate ==
    \A b \in Buffers : (netReady /\ b \notin DriverBuffers) ~> b \in DriverBuffers

\* task_camera comes back to the top of its loop for ever, whatever the
\* consumer does, unless it suspended itself: the bounded xQueueSend.
CameraNeverStuck == (cam # "suspended") ~> (cam = "get" \/ cam = "suspended")

\* The pipeline is a lossy FIFO of at most fb_count frames.
Handoff == INSTANCE FrameHandoff
    WITH Viewers  <- Clients,
         Capacity <- Cardinality(Buffers),
         flight   <- FrameOf(AsSeq(rtspFb) \o queue \o AsSeq(camFb)),
         shown    <- seen

ImplementsHandoff == Handoff!HandoffSpec

\* The comment at task_rtsp.cpp:179-180, "always sending the freshest frame and
\* dropping the intermediate ones": a broadcast leaves no newer frame queued.
FreshestBroadcast ==
    [][rtsp = "receive" /\ rtsp' = "broadcast" => queue' = <<>>]_vars

\* docs/ARCHITECTURE.md:95-96, "a slow consumer causes frame drops, not buffer
\* starvation": when task_camera asks for a frame the driver owns a buffer to
\* put one in.
NoStarvation == cam = "get" /\ rtsp = "loop" => DriverBuffers # {}
=============================================================================
