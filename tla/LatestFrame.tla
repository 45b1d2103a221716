---------------------------- MODULE LatestFrame ----------------------------
(***************************************************************************)
(* The shared "latest frame" slot of camera_manager.cpp and its two kinds  *)
(* of reader in web_ui_service.cpp, GET /snapshot and GET /stream.         *)
(*                                                                         *)
(* task_camera copies each captured frame into the slot, byte by byte,     *)
(* under a mutex.  The AsyncTCP task runs the handlers and the fillers of  *)
(* their responses one at a time; each takes the mutex for itself, and a   *)
(* snapshot takes it twice, once for the length and once for the bytes.    *)
(* A byte of a JPEG is <<frame, position>>, so that a torn, shifted or     *)
(* overrun copy is visible; a part header is HeaderLen bytes of frame 0.   *)
(***************************************************************************)
EXTENDS Integers, Sequences

CONSTANTS
    Capacity,       \* CAMERA_LATEST_FRAME_BYTES
    Sizes,          \* the sizes a captured frame may have (0: an empty buffer)
    MaxFrames,      \* bound on the frames captured
    HeaderLen,      \* bytes of a multipart part header
    MaxLens         \* the room AsyncTCP may offer to a filler

ASSUME CapacityAssumption == Capacity \in Nat \ {0} /\ Sizes \subseteq Nat
ASSUME StreamAssumption == HeaderLen \in Nat \ {0} /\ MaxLens \subseteq Nat \ {0}
ASSUME MaxFramesAssumption == MaxFrames \in Nat

VARIABLES
    ready,      \* camera_latest_init succeeded
    size,       \* fb->len of each frame the sensor will produce
    frame,      \* frames captured so far
    cam,        \* where camera_publish_latest is
    wrote,      \* bytes its memcpy has written
    mutex,      \* holder of g_latest_mux
    slot,       \* g_latest_buf
    len,        \* g_latest_len
    web,        \* where the AsyncTCP task is
    job,        \* the request it works for
    room,       \* maxLen of the running filler call
    read,       \* bytes its memcpy has read
    snap,       \* the snapshot request
    stream      \* the MjpegStreamState of the stream request

camVars == <<frame, cam, wrote>>
slotVars == <<slot, len>>
webVars == <<web, job, room, read>>
vars == <<ready, size, camVars, mutex, slotVars, webVars, snap, stream>>

NoByte == <<0, 0>>
Empty == [i \in 1..Capacity |-> NoByte]
Frame(f) == [i \in 1..size[f] |-> <<f, i>>]
Header == [i \in 1..HeaderLen |-> <<0, i>>]
Smaller(a, b) == IF a < b THEN a ELSE b
PrefixOf(s, t) == Len(s) <= Len(t) /\ s = SubSeq(t, 1, Len(s))

NoSnap == [phase |-> "none", cap |-> 0, buf |-> <<>>, got |-> 0, body |-> <<>>]
NoStream == [on |-> FALSE, have_part |-> FALSE, buf |-> <<>>, frame_len |-> 0,
             sent |-> 0, part |-> <<>>]

Frames == 1..MaxFrames
Byte == (0..MaxFrames) \X Nat

TypeOK ==
    /\ ready \in BOOLEAN
    /\ size \in [Frames -> Sizes]
    /\ frame \in 0..MaxFrames
    /\ cam \in {"init", "idle", "take", "copy"}
    /\ wrote \in 0..Capacity
    /\ mutex \in {"free", "cam", "web"}
    /\ slot \in [1..Capacity -> Byte]
    /\ len \in 0..Capacity
    /\ web \in {"idle", "len", "sized", "take", "copy", "copied"}
    /\ job \in {"none", "snapshot", "stream"}
    /\ room \in MaxLens \cup {0}
    /\ read \in 0..Capacity
    /\ snap.phase \in {"none", "working", "sending", "refused"}
    /\ snap.cap \in 0..Capacity /\ snap.got \in 0..Capacity
    /\ snap.buf \in Seq(Byte) /\ snap.body \in Seq(Byte)
    /\ stream.on \in BOOLEAN /\ stream.have_part \in BOOLEAN
    /\ stream.frame_len \in 0..Capacity
    /\ stream.sent \in 0..HeaderLen + Capacity
    /\ stream.buf \in Seq(Byte) /\ stream.part \in Seq(Byte)

Init ==
    /\ ready = FALSE
    /\ size \in [Frames -> Sizes]
    /\ frame = 0 /\ cam = "init" /\ wrote = 0
    /\ mutex = "free"
    /\ slot = Empty /\ len = 0
    /\ web = "idle" /\ job = "none" /\ room = 0 /\ read = 0
    /\ snap = NoSnap
    /\ stream = NoStream

-----------------------------------------------------------------------------
(* task_camera                                                             *)

\* camera_latest_init: without the mutex or the PSRAM buffer the slot stays off,
\* and the task goes on capturing.
camera_latest_init ==
    /\ cam = "init"
    /\ ready' \in BOOLEAN
    /\ cam' = "idle"
    /\ UNCHANGED <<size, frame, wrote, mutex, slotVars, webVars, snap, stream>>

\* camera_publish_latest on the next frame: an empty or too large one is skipped.
Publish ==
    /\ cam = "idle" /\ frame < MaxFrames
    /\ frame' = frame + 1
    /\ cam' = IF ready /\ size[frame'] \in 1..Capacity THEN "take" ELSE "idle"
    /\ UNCHANGED <<ready, size, wrote, mutex, slotVars, webVars, snap, stream>>

PublishTake ==
    /\ cam = "take" /\ mutex = "free"
    /\ mutex' = "cam" /\ cam' = "copy" /\ wrote' = 0
    /\ UNCHANGED <<ready, size, frame, slotVars, webVars, snap, stream>>

\* The 5 ms are over and a reader still holds the lock: the frame is skipped.
PublishSkip ==
    /\ cam = "take" /\ mutex # "free"
    /\ cam' = "idle"
    /\ UNCHANGED <<ready, size, frame, wrote, mutex, slotVars, webVars, snap, stream>>

PublishByte ==
    /\ cam = "copy" /\ wrote < size[frame]
    /\ slot' = [slot EXCEPT ![wrote + 1] = <<frame, wrote + 1>>]
    /\ wrote' = wrote + 1
    /\ UNCHANGED <<ready, size, frame, cam, mutex, len, webVars, snap, stream>>

PublishGive ==
    /\ cam = "copy" /\ wrote = size[frame]
    /\ len' = size[frame]
    /\ mutex' = "free" /\ cam' = "idle" /\ wrote' = 0
    /\ UNCHANGED <<ready, size, frame, slot, webVars, snap, stream>>

-----------------------------------------------------------------------------
(* The AsyncTCP task: camera_latest_len and camera_latest_copy, for a job.  *)

WebIdle == web = "idle" /\ job = "none"
Finish == web' = "idle" /\ job' = "none" /\ room' = 0 /\ read' = 0

\* camera_latest_len.
LatestLen ==
    /\ web = "len"
    /\ \/ ready /\ mutex = "free" /\ snap' = [snap EXCEPT !.cap = len]
       \/ (~ready \/ mutex # "free") /\ UNCHANGED snap
    /\ web' = "sized"
    /\ UNCHANGED <<ready, size, camVars, mutex, slotVars, job, room, read, stream>>

\* The capacity a job's destination was allocated with.
DstCap == IF job = "snapshot" THEN snap.cap ELSE Capacity

\* Mutant: the reader trusts the length it read before.
CopyTakeUnchecked ==
    /\ web = "take" /\ ready /\ mutex = "free"
    /\ IF len > 0
         THEN mutex' = "web" /\ web' = "copy"
         ELSE UNCHANGED mutex /\ web' = "copied"
    /\ read' = 0
    /\ UNCHANGED <<ready, size, camVars, slotVars, job, room, snap, stream>>

\* camera_latest_copy gets the lock; a frame that does not fit is not copied.
CopyTake ==
    /\ web = "take" /\ ready /\ mutex = "free"
    /\ IF len > 0 /\ len <= DstCap
         THEN mutex' = "web" /\ web' = "copy"
         ELSE UNCHANGED mutex /\ web' = "copied"
    /\ read' = 0
    /\ UNCHANGED <<ready, size, camVars, slotVars, job, room, snap, stream>>

\* No slot, or the 50 ms are over and the publisher still holds the lock.
CopyTimeout ==
    /\ web = "take" /\ (~ready \/ mutex # "free")
    /\ web' = "copied" /\ read' = 0
    /\ UNCHANGED <<ready, size, camVars, mutex, slotVars, job, room, snap, stream>>

CopyByte ==
    /\ web = "copy" /\ read < len
    /\ IF job = "snapshot"
         THEN snap' = [snap EXCEPT !.buf = Append(SubSeq(@, 1, read), slot[read + 1])]
              /\ UNCHANGED stream
         ELSE stream' = [stream EXCEPT !.buf = Append(SubSeq(@, 1, read), slot[read + 1])]
              /\ UNCHANGED snap
    /\ read' = read + 1
    /\ UNCHANGED <<ready, size, camVars, mutex, slotVars, web, job, room>>

\* read holds the result of camera_latest_copy from here on.
CopyGive ==
    /\ web = "copy" /\ read = len
    /\ mutex' = "free" /\ web' = "copied"
    /\ UNCHANGED <<ready, size, camVars, slotVars, job, room, read, snap, stream>>

-----------------------------------------------------------------------------
(* GET /snapshot                                                           *)

SnapshotRequest ==
    /\ WebIdle /\ snap.phase = "none"
    /\ job' = "snapshot" /\ web' = "len"
    /\ snap' = [NoSnap EXCEPT !.phase = "working"]
    /\ UNCHANGED <<ready, size, camVars, mutex, slotVars, room, read, stream>>

\* A length of 0 or a failed allocation is answered with 503.
SnapshotSized ==
    /\ web = "sized"
    /\ \/ /\ snap.cap > 0
          /\ web' = "take" /\ UNCHANGED <<job, room, read, snap>>
       \/ Finish /\ snap' = [snap EXCEPT !.phase = "refused"]
    /\ UNCHANGED <<ready, size, camVars, mutex, slotVars, stream>>

\* Mutant: the response is as long as the frame that was measured.
SnapshotCopiedOldLength ==
    /\ web = "copied" /\ job = "snapshot"
    /\ snap' = IF read = 0 THEN [snap EXCEPT !.phase = "refused"]
                           ELSE [snap EXCEPT !.phase = "sending", !.got = snap.cap]
    /\ Finish
    /\ UNCHANGED <<ready, size, camVars, mutex, slotVars, stream>>

\* The result of camera_latest_copy: 503, or a response of that length.
SnapshotCopied ==
    /\ web = "copied" /\ job = "snapshot"
    /\ snap' = IF read = 0 THEN [snap EXCEPT !.phase = "refused"]
                           ELSE [snap EXCEPT !.phase = "sending", !.got = read]
    /\ Finish
    /\ UNCHANGED <<ready, size, camVars, mutex, slotVars, stream>>

\* The response filler: the next slice of the private copy.
SnapshotFiller ==
    /\ WebIdle /\ snap.phase = "sending" /\ Len(snap.body) < snap.got
    /\ \E maxLen \in MaxLens :
         LET index == Len(snap.body)
             n     == Smaller(snap.got - index, maxLen)
         IN  snap' = [snap EXCEPT !.body = @ \o SubSeq(snap.buf, index + 1, index + n)]
    /\ UNCHANGED <<ready, size, camVars, mutex, slotVars, webVars, stream>>

\* The response is over or the client has gone: the copy is freed.
SnapshotEnd ==
    /\ WebIdle /\ snap.phase \in {"sending", "refused"}
    /\ snap' = NoSnap
    /\ UNCHANGED <<ready, size, camVars, mutex, slotVars, webVars, stream>>

-----------------------------------------------------------------------------
(* GET /stream                                                             *)

\* handle_stream: 503 without memory for the copy, which leaves no state behind.
StreamRequest ==
    /\ WebIdle /\ ~stream.on
    /\ stream' = [NoStream EXCEPT !.on = TRUE]
    /\ UNCHANGED <<ready, size, camVars, mutex, slotVars, webVars, snap>>

StreamClosed ==
    /\ WebIdle /\ stream.on
    /\ stream' = NoStream
    /\ UNCHANGED <<ready, size, camVars, mutex, slotVars, webVars, snap>>

\* Mutant: a part that is fully sent is not ended.
EmitNeverEnds(s, maxLen) ==
    LET whole == Header \o SubSeq(s.buf, 1, s.frame_len)
        n     == Smaller(Len(whole) - s.sent, maxLen)
    IN  [s EXCEPT !.part = @ \o SubSeq(whole, s.sent + 1, s.sent + n),
                  !.sent = s.sent + n,
                  !.have_part = s.sent + n <= Len(whole)]

\* The slice of the current part that a filler call with maxLen bytes emits.
Emit(s, maxLen) ==
    LET whole == Header \o SubSeq(s.buf, 1, s.frame_len)
        n     == Smaller(Len(whole) - s.sent, maxLen)
    IN  [s EXCEPT !.part = @ \o SubSeq(whole, s.sent + 1, s.sent + n),
                  !.sent = s.sent + n,
                  !.have_part = s.sent + n < Len(whole)]

\* A new part begins with the frame just copied.
NewPart(s, got) ==
    [s EXCEPT !.frame_len = got, !.sent = 0, !.part = <<>>, !.have_part = TRUE]

\* The filler goes on with its part, or asks for a new frame.
StreamFiller ==
    /\ WebIdle /\ stream.on
    /\ \E maxLen \in MaxLens :
         IF stream.have_part
           THEN stream' = Emit(stream, maxLen) /\ UNCHANGED <<web, job, room>>
           ELSE room' = maxLen /\ web' = "take" /\ job' = "stream" /\ UNCHANGED stream
    /\ UNCHANGED <<ready, size, camVars, mutex, slotVars, read, snap>>

\* Mutant: a new part keeps the offset that the previous one ended with.
StreamCopiedKeepsOffset ==
    /\ web = "copied" /\ job = "stream"
    /\ stream' = IF read = 0 THEN [stream EXCEPT !.on = room >= 2]
                 ELSE Emit([NewPart(stream, read) EXCEPT
                              !.sent = Smaller(stream.sent, HeaderLen)], room)
    /\ Finish
    /\ UNCHANGED <<ready, size, camVars, mutex, slotVars, snap>>

\* The filler after its copy: a part, a CRLF that keeps the connection open, or
\* 0, which ends the chunked response.
StreamCopied ==
    /\ web = "copied" /\ job = "stream"
    /\ stream' = IF read = 0 THEN [stream EXCEPT !.on = room >= 2]
                             ELSE Emit(NewPart(stream, read), room)
    /\ Finish
    /\ UNCHANGED <<ready, size, camVars, mutex, slotVars, snap>>

Next ==
    \/ camera_latest_init \/ Publish \/ PublishTake \/ PublishSkip \/ PublishByte
    \/ PublishGive
    \/ LatestLen \/ CopyTake \/ CopyTimeout \/ CopyByte \/ CopyGive
    \/ SnapshotRequest \/ SnapshotSized \/ SnapshotCopied \/ SnapshotFiller
    \/ SnapshotEnd
    \/ StreamRequest \/ StreamClosed \/ StreamFiller \/ StreamCopied

Spec == Init /\ [][Next]_vars

\* task_camera and AsyncTCP go on with what they began.  The publisher holds the
\* lock for one memcpy, far less than the 50 ms a reader waits; a connection
\* that stays open is served between the other requests.
Fairness ==
    /\ WF_vars(PublishTake \/ PublishSkip) /\ WF_vars(PublishByte \/ PublishGive)
    /\ WF_vars(LatestLen \/ SnapshotSized \/ SnapshotCopied \/ StreamCopied)
    /\ WF_vars(CopyTake \/ CopyTimeout) /\ WF_vars(CopyByte \/ CopyGive)
    /\ SF_vars(CopyTake) /\ SF_vars(StreamFiller)

FairSpec == Spec /\ Fairness

-----------------------------------------------------------------------------
(* Correctness.                                                            *)

\* camera_latest_copy never writes beyond the buffer a snapshot allocated, even
\* if a larger frame is published between its two looks at the slot.
CopyFits == Len(snap.buf) <= snap.cap

\* The body of a snapshot is one captured frame, under its own length, never a
\* mixture of two.
SnapshotExact ==
    snap.phase = "sending" =>
        \E f \in 1..frame : snap.got = size[f] /\ PrefixOf(snap.body, Frame(f))

\* A stream is a sequence of whole parts, each a header with the length of the
\* frame that follows it, however the fillers cut it into chunks.
PartsExact ==
    Len(stream.part) > 0 =>
        \E f \in 1..frame :
            /\ stream.frame_len = size[f]
            /\ PrefixOf(stream.part, Header \o Frame(f))
            /\ ~stream.have_part => Len(stream.part) = HeaderLen + size[f]

Shown == IF Len(stream.part) > HeaderLen THEN stream.part[HeaderLen + 1][1] ELSE 0

\* A stream that stays open shows every published frame or a later one.
StreamRenewed ==
    \A f \in Frames :
        (stream.on /\ mutex = "free" /\ len > 0 /\ slot[1][1] = f)
            ~> (~stream.on \/ Shown >= f)

\* camera_manager.h:86 "Length of the latest published frame (0 if none). Use to
\* size a copy buffer": once a frame is published, a snapshot that found memory
\* for it is not answered with "Camera frame not available yet".
SizedCopySucceeds ==
    [][web = "copied" /\ job = "snapshot" /\ ready => snap'.phase = "sending"]_vars
=============================================================================
