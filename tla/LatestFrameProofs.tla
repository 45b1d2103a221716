------------------------- MODULE LatestFrameProofs -------------------------
(***************************************************************************)
(* Proofs about LatestFrame, for any size of the slot, any sizes of the    *)
(* frames, any chunks and any number of frames: no reader is ever handed a *)
(* torn frame.                                                             *)
(***************************************************************************)
EXTENDS LatestFrame, SequenceTheorems, TLAPS

Whole(f) == Header \o Frame(f)

-----------------------------------------------------------------------------
(* Sequences.                                                              *)

\* A prefix and the slice that follows it make a longer prefix.
LEMMA NextSlice ==
    ASSUME NEW S, NEW w \in Seq(S), NEW k \in Nat, NEW n \in Nat, k + n <= Len(w)
    PROVE  /\ SubSeq(w, 1, k) \o SubSeq(w, k + 1, k + n) = SubSeq(w, 1, k + n)
           /\ SubSeq(w, 1, k) \in Seq(S) /\ Len(SubSeq(w, 1, k)) = k
           /\ SubSeq(w, k + 1, k + n) \in Seq(S)
<1>1. Len(w) \in Nat /\ \A i \in 1..Len(w) : w[i] \in S
  BY LenProperties, ElementOfSeq
<1>2. /\ 1 \in 1..Len(w) + 1 /\ k \in 1 - 1..Len(w) /\ k + n \in k..Len(w)
  BY <1>1
<1>3. SubSeq(w, 1, k) \o SubSeq(w, k + 1, k + n) = SubSeq(w, 1, k + n)
  BY <1>2, ConcatAdjacentSubSeq
<1>4. /\ SubSeq(w, 1, k) \in Seq(S)
      /\ Len(SubSeq(w, 1, k)) = IF 1 <= k THEN k - 1 + 1 ELSE 0
  <2>1. 1 \in Int /\ k \in Int /\ \A i \in 1..k : w[i] \in S
    BY <1>1
  <2>. QED  BY <2>1, SubSeqProperties
<1>5. SubSeq(w, k + 1, k + n) \in Seq(S)
  <2>1. k + 1 \in Int /\ k + n \in Int /\ \A i \in k + 1..k + n : w[i] \in S
    BY <1>1
  <2>. QED  BY <2>1, SubSeqProperties
<1>. QED  BY <1>3, <1>4, <1>5

\* One byte of a copy: the bytes copied before stay, the next one follows.
LEMMA NextByte ==
    ASSUME NEW S, NEW b \in Seq(S), NEW r \in Nat, r > 0 => Len(b) = r, NEW e \in S
    PROVE  /\ Append(SubSeq(b, 1, r), e) \in Seq(S)
           /\ Len(Append(SubSeq(b, 1, r), e)) = r + 1
           /\ \A i \in 1..r : Append(SubSeq(b, 1, r), e)[i] = b[i]
           /\ Append(SubSeq(b, 1, r), e)[r + 1] = e
<1>1. SubSeq(b, 1, r) \in Seq(S) /\ Len(SubSeq(b, 1, r)) = r
  <2>1. Len(b) \in Nat /\ r + 0 \in Nat
    BY LenProperties
  <2>2. r <= Len(b)
    BY <2>1
  <2>. QED  BY <2>2, NextSlice
<1>2. \A i \in 1..r : SubSeq(b, 1, r)[i] = b[i]
  <2>1. CASE r > 0
    BY <2>1, SubSeqFull
  <2>2. CASE r = 0
    BY <2>2
  <2>. QED  BY <2>1, <2>2
<1>. QED  BY <1>1, <1>2, AppendProperties

-----------------------------------------------------------------------------
(* The inductive invariant.                                                *)

SnapType == [phase : {"none", "working", "sending", "refused"}, cap : 0..Capacity,
             buf : Seq(Byte), got : 0..Capacity, body : Seq(Byte)]
StreamType == [on : BOOLEAN, have_part : BOOLEAN, buf : Seq(Byte),
               frame_len : 0..Capacity, sent : 0..HeaderLen + Capacity, part : Seq(Byte)]

Scalars ==
    /\ ready \in BOOLEAN
    /\ size \in [Frames -> Sizes]
    /\ frame \in 0..MaxFrames
    /\ cam \in {"init", "idle", "take", "copy"}
    /\ wrote \in 0..Capacity
    /\ mutex \in {"free", "cam", "web"}
    /\ slot \in [1..Capacity -> Byte]
    /\ len \in 0..Capacity
    /\ web \in {"idle", "len", "sized", "take", "copy", "copied"}
    /\ job \in {"none", "snapshot", "stream"}
    /\ room \in MaxLens \cup {0}
    /\ read \in 0..Capacity

TypeInv == Scalars /\ snap \in SnapType /\ stream \in StreamType

\* The mutex is held exactly while bytes are copied.
LockInv ==
    /\ mutex = "cam" <=> cam = "copy"
    /\ mutex = "web" <=> web = "copy"

\* While nobody writes to it, the slot holds one frame, of the slot's length.
SlotInv ==
    /\ cam \in {"take", "copy"} => frame \in Frames /\ size[frame] \in 1..Capacity
    /\ cam = "copy" => wrote <= size[frame] /\ \A i \in 1..wrote : slot[i] = <<frame, i>>
    /\ cam # "copy" /\ len > 0 =>
         \E f \in 1..frame : len = size[f] /\ \A i \in 1..len : slot[i] = <<f, i>>

\* Which request AsyncTCP works for, and in which state that request is.
JobInv ==
    /\ web = "idle" <=> job = "none"
    /\ web \in {"len", "sized"} => job = "snapshot"
    /\ job = "snapshot" <=> snap.phase = "working"
    /\ job = "stream" => stream.on /\ ~stream.have_part /\ room \in MaxLens

\* The destination of the copy: what was read so far is in the slot too, and a copy
\* that succeeded is a frame.
Buf == IF job = "snapshot" THEN snap.buf ELSE stream.buf
CopyInv ==
    /\ web = "copy" =>
         /\ len \in 1..DstCap /\ read <= len
         /\ read > 0 => Len(Buf) = read /\ \A i \in 1..read : Buf[i] = slot[i]
    /\ web = "copied" /\ read > 0 => \E f \in 1..frame : read = size[f] /\ Buf = Frame(f)

\* A snapshot's buffer has room for what is in it; what was sent is a prefix of it.
SnapInv ==
    /\ Len(snap.buf) <= snap.cap
    /\ snap.phase = "working" => snap.body = <<>>
    /\ web \in {"len", "sized", "take"} /\ job = "snapshot" => snap.buf = <<>>
    /\ snap.phase = "sending" =>
         \E f \in 1..frame :
            /\ snap.got = size[f] /\ snap.buf = Frame(f)
            /\ Len(snap.body) <= size[f]
            /\ snap.body = SubSeq(Frame(f), 1, Len(snap.body))

\* A part in the middle is a prefix of one frame's part; one that is over is all of it.
StreamInv ==
    /\ stream.have_part =>
         \E f \in 1..frame :
            /\ stream.frame_len = size[f] /\ stream.buf = Frame(f)
            /\ stream.sent < HeaderLen + size[f]
            /\ stream.part = SubSeq(Whole(f), 1, stream.sent)
    /\ ~stream.have_part /\ stream.part # <<>> =>
         \E f \in 1..frame : stream.frame_len = size[f] /\ stream.part = Whole(f)

IInv == TypeInv /\ LockInv /\ SlotInv /\ JobInv /\ CopyInv /\ SnapInv /\ StreamInv

-----------------------------------------------------------------------------
(* Frames, parts and fillers.                                              *)

LEMMA TypeInvIsType == TypeInv => TypeOK
<1>1. \A s \in SnapType :
        /\ s.phase \in {"none", "working", "sending", "refused"}
        /\ s.cap \in 0..Capacity /\ s.got \in 0..Capacity
        /\ s.buf \in Seq(Byte) /\ s.body \in Seq(Byte)
  BY DEF SnapType
<1>2. \A s \in StreamType :
        /\ s.on \in BOOLEAN /\ s.have_part \in BOOLEAN
        /\ s.frame_len \in 0..Capacity /\ s.sent \in 0..HeaderLen + Capacity
        /\ s.buf \in Seq(Byte) /\ s.part \in Seq(Byte)
  BY DEF StreamType
<1>. QED  BY <1>1, <1>2 DEF TypeInv, Scalars, TypeOK

\* A function on 1..n is a sequence of length n.
LEMMA BytesFacts ==
    ASSUME NEW B, NEW f, NEW n \in Nat, \A i \in 1..n : <<f, i>> \in B
    PROVE  /\ [i \in 1..n |-> <<f, i>>] \in Seq(B)
           /\ Len([i \in 1..n |-> <<f, i>>]) = n
           /\ \A i \in 1..n : [j \in 1..n |-> <<f, j>>][i] = <<f, i>>
<1> DEFINE g == [i \in 1..n |-> <<f, i>>]
<1>1. g \in [1..n -> B] /\ \A i \in 1..n : g[i] = <<f, i>>
  OBVIOUS
<1> HIDE DEF g
<1>2. g \in Seq(B) /\ Len(g) = n
  BY <1>1
<1>. QED  BY <1>1, <1>2 DEF g

LEMMA FrameFacts ==
    ASSUME Scalars, NEW f \in Frames
    PROVE  /\ size[f] \in Nat
           /\ Frame(f) \in Seq(Byte) /\ Len(Frame(f)) = size[f]
           /\ \A i \in 1..size[f] : Frame(f)[i] = <<f, i>>
           /\ Header \in Seq(Byte) /\ Len(Header) = HeaderLen
           /\ Whole(f) \in Seq(Byte) /\ Len(Whole(f)) = HeaderLen + size[f]
<1>1. size[f] \in Nat /\ HeaderLen \in Nat
  BY CapacityAssumption, StreamAssumption DEF Scalars
<1>2. /\ \A i \in 1..size[f] : <<f, i>> \in Byte
      /\ \A i \in 1..HeaderLen : <<0, i>> \in Byte
  BY <1>1, MaxFramesAssumption DEF Byte, Frames
<1> DEFINE n == size[f]
<1> HIDE DEF n
<1>3. /\ Frame(f) \in Seq(Byte) /\ Len(Frame(f)) = n
      /\ \A i \in 1..n : Frame(f)[i] = <<f, i>>
  <2>1. n \in Nat /\ \A i \in 1..n : <<f, i>> \in Byte
    BY <1>1, <1>2 DEF n
  <2>2. Frame(f) = [i \in 1..n |-> <<f, i>>]
    BY DEF Frame, n
  <2>. QED  BY <2>1, <2>2, BytesFacts
<1>4. Header \in Seq(Byte) /\ Len(Header) = HeaderLen
  BY <1>1, <1>2, BytesFacts DEF Header
<1>5. Whole(f) \in Seq(Byte) /\ Len(Whole(f)) = HeaderLen + n
  BY <1>3, <1>4, ConcatProperties DEF Whole
<1>. QED  BY <1>1, <1>3, <1>4, <1>5 DEF n

\* A filler call goes on where the last one stopped and ends the part with its last
\* byte.
LEMMA EmitFacts ==
    ASSUME Scalars, NEW f \in Frames, NEW maxLen \in MaxLens, NEW s \in StreamType,
           s.frame_len = size[f], s.buf = Frame(f),
           s.sent < HeaderLen + size[f], s.part = SubSeq(Whole(f), 1, s.sent)
    PROVE  /\ Emit(s, maxLen) \in StreamType
           /\ Emit(s, maxLen).on = s.on /\ Emit(s, maxLen).buf = s.buf
           /\ Emit(s, maxLen).frame_len = s.frame_len
           /\ Emit(s, maxLen).have_part =>
                /\ Emit(s, maxLen).sent < HeaderLen + size[f]
                /\ Emit(s, maxLen).part = SubSeq(Whole(f), 1, Emit(s, maxLen).sent)
           /\ ~Emit(s, maxLen).have_part => Emit(s, maxLen).part = Whole(f)
<1> DEFINE whole == Header \o SubSeq(s.buf, 1, s.frame_len)
           n     == Smaller(Len(whole) - s.sent, maxLen)
           part  == s.part \o SubSeq(whole, s.sent + 1, s.sent + n)
<1>1. /\ size[f] \in Nat /\ HeaderLen \in Nat /\ maxLen \in Nat \ {0} /\ s.sent \in Nat
      /\ size[f] <= Capacity /\ Capacity \in Nat
      /\ Whole(f) \in Seq(Byte) /\ Len(Whole(f)) = HeaderLen + size[f]
      /\ Frame(f) \in Seq(Byte) /\ Len(Frame(f)) = size[f]
  BY FrameFacts, CapacityAssumption, StreamAssumption DEF StreamType
<1>2. whole = Whole(f)
  <2>1. SubSeq(s.buf, 1, s.frame_len) = Frame(f)
    BY <1>1, SubSeqFull
  <2>. QED  BY <2>1 DEF Whole
<1> HIDE DEF whole
<1>3. n \in Nat /\ s.sent + n <= Len(Whole(f)) /\ s.sent + n \in Nat
  BY <1>1, <1>2 DEF Smaller
<1> HIDE DEF n
<1>4. part = SubSeq(Whole(f), 1, s.sent + n) /\ part \in Seq(Byte)
  <2>1. part = SubSeq(Whole(f), 1, s.sent) \o SubSeq(Whole(f), s.sent + 1, s.sent + n)
    BY <1>2
  <2>2. SubSeq(Whole(f), 1, s.sent) \o SubSeq(Whole(f), s.sent + 1, s.sent + n)
           = SubSeq(Whole(f), 1, s.sent + n)
    <3> DEFINE w == Whole(f)  k == s.sent
    <3>1. w \in Seq(Byte) /\ k \in Nat /\ n \in Nat /\ k + n <= Len(w)
      BY <1>1, <1>3
    <3> HIDE DEF w, k
    <3>2. SubSeq(w, 1, k) \o SubSeq(w, k + 1, k + n) = SubSeq(w, 1, k + n)
      BY <3>1, NextSlice
    <3>. QED  BY <3>2 DEF w, k
  <2>3. s.sent + n + 0 = s.sent + n
    BY <1>3
  <2>4. SubSeq(Whole(f), 1, s.sent + n) \in Seq(Byte)
    BY <1>1, <1>3, <2>3, NextSlice
  <2>. QED  BY <2>1, <2>2, <2>4
<1> HIDE DEF part
<1>5. Emit(s, maxLen) = [s EXCEPT !.part = part, !.sent = s.sent + n,
                                  !.have_part = s.sent + n < Len(whole)]
  BY DEF Emit, whole, n, part
<1>6. /\ Emit(s, maxLen).on = s.on /\ Emit(s, maxLen).buf = s.buf
      /\ Emit(s, maxLen).frame_len = s.frame_len
      /\ Emit(s, maxLen).part = part /\ Emit(s, maxLen).sent = s.sent + n
      /\ Emit(s, maxLen).have_part = (s.sent + n < Len(Whole(f)))
  BY <1>2, <1>5 DEF StreamType
<1>7. Emit(s, maxLen) \in StreamType
  <2>1. s.sent + n \in 0..HeaderLen + Capacity
    BY <1>1, <1>3
  <2>2. (s.sent + n < Len(whole)) \in BOOLEAN
    OBVIOUS
  <2> DEFINE m == s.sent + n  more == s.sent + n < Len(whole)
  <2> HIDE DEF m, more
  <2>3. Emit(s, maxLen) = [s EXCEPT !.part = part, !.sent = m, !.have_part = more]
    BY <1>5 DEF m, more
  <2>4. m \in 0..HeaderLen + Capacity /\ more \in BOOLEAN /\ part \in Seq(Byte)
    BY <1>4, <2>1, <2>2 DEF m, more
  <2>. QED  BY <2>3, <2>4 DEF StreamType
<1>8. ~(s.sent + n < Len(Whole(f))) => part = Whole(f)
  <2>1. ~(s.sent + n < Len(Whole(f))) => s.sent + n = Len(Whole(f))
    BY <1>1, <1>3
  <2>. QED  BY <1>1, <1>4, <2>1, SubSeqFull
<1>. QED  BY <1>1, <1>4, <1>6, <1>7, <1>8
-----------------------------------------------------------------------------
(* The initial states and the steps.                                       *)

CamStep == \/ camera_latest_init \/ Publish \/ PublishTake \/ PublishSkip
           \/ PublishByte \/ PublishGive

LEMMA Ends ==
    /\ <<>> \in Seq(Byte) /\ Len(<<>>) = 0
    /\ \A w \in Seq(Byte) : SubSeq(w, 1, 0) = <<>>
<1>1. ASSUME NEW w \in Seq(Byte)  PROVE SubSeq(w, 1, 0) = <<>>
  <2>1. 1 \in Int /\ 0 \in Int /\ 0 < 1
    OBVIOUS
  <2>. QED  BY <2>1, SubSeqEmpty
<1>. QED  BY <1>1

LEMMA InitIInv == Init => IInv
<1> SUFFICES ASSUME Init  PROVE IInv
  OBVIOUS
<1>1. NoSnap \in SnapType /\ NoStream \in StreamType
  BY CapacityAssumption, StreamAssumption, Ends DEF NoSnap, NoStream, SnapType, StreamType
<1>2. TypeInv
  <2>1. Empty \in [1..Capacity -> Byte]
    BY MaxFramesAssumption DEF Empty, NoByte, Byte
  <2>2. snap \in SnapType /\ stream \in StreamType
    BY <1>1 DEF Init
  <2>3. Scalars
    <3>1. 0 \in 0..MaxFrames /\ 0 \in 0..Capacity
      BY CapacityAssumption, MaxFramesAssumption
    <3>. QED  BY <2>1, <3>1, Zenon DEF Init, Scalars
  <2>. QED  BY <2>2, <2>3 DEF TypeInv
<1>3. LockInv /\ SlotInv /\ JobInv /\ CopyInv
  BY DEF Init, NoSnap, NoStream, LockInv, SlotInv, JobInv, CopyInv
<1>4. SnapInv /\ StreamInv
  BY Ends DEF Init, NoSnap, NoStream, SnapInv, StreamInv
<1>. QED  BY <1>2, <1>3, <1>4 DEF IInv

\* Only task_camera writes to the slot, and only it captures frames.
LEMMA StepKinds ==
    ASSUME IInv, [Next]_vars
    PROVE  /\ size' = size
           /\ 1..frame \subseteq 1..frame' /\ frame' \in 0..MaxFrames
           /\ CamStep \/ UNCHANGED <<ready, camVars, slotVars>>
           /\ CamStep => UNCHANGED <<webVars, snap, stream>>
<1>1. frame \in Nat /\ MaxFrames \in Nat /\ frame <= MaxFrames
  BY MaxFramesAssumption DEF IInv, TypeInv, Scalars
<1>2. frame' = frame \/ Publish
  BY DEF Next, vars, camera_latest_init, PublishTake, PublishSkip, PublishByte, PublishGive,
         LatestLen, CopyTake, CopyTimeout, CopyByte, CopyGive, SnapshotRequest,
         SnapshotSized, SnapshotCopied, SnapshotFiller, SnapshotEnd, StreamRequest,
         StreamClosed, StreamFiller, StreamCopied, camVars
<1>3. 1..frame \subseteq 1..frame' /\ frame' \in 0..MaxFrames
  BY <1>1, <1>2 DEF Publish
<1>4. size' = size
  BY DEF Next, vars, camera_latest_init, Publish, PublishTake, PublishSkip, PublishByte,
         PublishGive, LatestLen, CopyTake, CopyTimeout, CopyByte, CopyGive,
         SnapshotRequest, SnapshotSized, SnapshotCopied, SnapshotFiller, SnapshotEnd,
         StreamRequest, StreamClosed, StreamFiller, StreamCopied
<1>5. CamStep \/ UNCHANGED <<ready, camVars, slotVars>>
  BY DEF Next, vars, CamStep, LatestLen, CopyTake, CopyTimeout, CopyByte, CopyGive,
         SnapshotRequest, SnapshotSized, SnapshotCopied, SnapshotFiller, SnapshotEnd,
         StreamRequest, StreamClosed, StreamFiller, StreamCopied
<1>6. CamStep => UNCHANGED <<webVars, snap, stream>>
  BY DEF CamStep, camera_latest_init, Publish, PublishTake, PublishSkip, PublishByte,
         PublishGive
<1>. QED  BY <1>3, <1>4, <1>5, <1>6

LEMMA LockStep == IInv /\ [Next]_vars => LockInv'
BY DEF IInv, TypeInv, Scalars, LockInv, Next, vars, camVars, webVars, slotVars,
       camera_latest_init, Publish, PublishTake, PublishSkip, PublishByte, PublishGive,
       LatestLen, CopyTake, CopyTimeout, CopyByte, CopyGive, WebIdle, Finish,
       SnapshotRequest, SnapshotSized, SnapshotCopied, SnapshotFiller, SnapshotEnd,
       StreamRequest, StreamClosed, StreamFiller, StreamCopied

LEMMA SlotStep == IInv /\ [Next]_vars => SlotInv'
<1> SUFFICES ASSUME IInv, [Next]_vars  PROVE SlotInv'
  OBVIOUS
<1>1. /\ size' = size /\ 1..frame \subseteq 1..frame' /\ frame' \in 0..MaxFrames
      /\ CamStep \/ UNCHANGED <<ready, camVars, slotVars>>
  BY StepKinds
<1>2. /\ \A f \in Frames : size[f] \in Nat
      /\ MaxFrames \in Nat /\ Capacity \in Nat /\ frame \in 0..MaxFrames
      /\ wrote \in Nat /\ len \in Nat /\ slot \in [1..Capacity -> Byte]
  <2>1. \A f \in Frames : size[f] \in Nat
    BY FrameFacts DEF IInv, TypeInv
  <2>2. MaxFrames \in Nat /\ Capacity \in Nat
    BY MaxFramesAssumption, CapacityAssumption
  <2>. QED  BY <2>1, <2>2 DEF IInv, TypeInv, Scalars
<1>3. CASE camera_latest_init
  BY <1>1, <1>3 DEF camera_latest_init, slotVars, IInv, SlotInv
<1>4. CASE Publish
  BY <1>1, <1>2, <1>4 DEF Publish, slotVars, IInv, SlotInv, Frames
<1>5. CASE PublishTake
  BY <1>1, <1>2, <1>5 DEF PublishTake, slotVars, IInv, SlotInv
<1>6. CASE PublishSkip
  BY <1>1, <1>6 DEF PublishSkip, slotVars, IInv, SlotInv
<1>7. CASE PublishByte
  BY <1>1, <1>2, <1>7 DEF PublishByte, IInv, SlotInv
<1>8. CASE PublishGive
  BY <1>1, <1>2, <1>8 DEF PublishGive, IInv, SlotInv, Frames
<1>9. CASE UNCHANGED <<ready, camVars, slotVars>>
  BY <1>1, <1>9 DEF camVars, slotVars, IInv, SlotInv
<1>. QED  BY <1>1, <1>3, <1>4, <1>5, <1>6, <1>7, <1>8, <1>9 DEF CamStep

-----------------------------------------------------------------------------
(* Types, requests and copies.                                             *)

\* One byte more of the slot.
LEMMA CopyFacts ==
    ASSUME IInv, web = "copy", read < len
    PROVE  /\ Append(SubSeq(Buf, 1, read), slot[read + 1]) \in Seq(Byte)
           /\ Len(Append(SubSeq(Buf, 1, read), slot[read + 1])) = read + 1
           /\ \A i \in 1..read + 1 :
                Append(SubSeq(Buf, 1, read), slot[read + 1])[i] = slot[i]
<1>1. Buf \in Seq(Byte)
  BY DEF IInv, TypeInv, SnapType, StreamType, Buf
<1>2. read \in Nat /\ slot[read + 1] \in Byte
  BY CapacityAssumption DEF IInv, TypeInv, Scalars
<1>3. read > 0 => Len(Buf) = read /\ \A i \in 1..read : Buf[i] = slot[i]
  BY DEF IInv, CopyInv
<1> DEFINE b == Append(SubSeq(Buf, 1, read), slot[read + 1])
<1>4. /\ b \in Seq(Byte) /\ Len(b) = read + 1
      /\ \A i \in 1..read : b[i] = Buf[i]
      /\ b[read + 1] = slot[read + 1]
  BY <1>1, <1>2, <1>3, NextByte
<1> HIDE DEF b
<1>5. \A i \in 1..read + 1 : b[i] = slot[i]
  <2>1. \A i \in 1..read + 1 : i \in 1..read \/ i = read + 1
    BY <1>2
  <2>2. \A i \in 1..read : read > 0
    BY <1>2
  <2>. QED  BY <1>3, <1>4, <2>1, <2>2
<1>. QED  BY <1>4, <1>5 DEF b

\* One slice more of a snapshot.
LEMMA SliceFacts ==
    ASSUME IInv, snap.phase = "sending", Len(snap.body) < snap.got, NEW maxLen \in MaxLens
    PROVE  LET n    == Smaller(snap.got - Len(snap.body), maxLen)
               body == snap.body \o SubSeq(snap.buf, Len(snap.body) + 1, Len(snap.body) + n)
           IN  /\ body \in Seq(Byte)
               /\ \E f \in 1..frame :
                     /\ snap.got = size[f] /\ snap.buf = Frame(f)
                     /\ Len(body) <= size[f]
                     /\ body = SubSeq(Frame(f), 1, Len(body))
<1> DEFINE index == Len(snap.body)
           n     == Smaller(snap.got - index, maxLen)
           body  == snap.body \o SubSeq(snap.buf, index + 1, index + n)
<1>1. PICK f \in 1..frame : /\ snap.got = size[f] /\ snap.buf = Frame(f)
                            /\ snap.body = SubSeq(Frame(f), 1, index)
  BY DEF IInv, SnapInv
<1>2. f \in Frames
  BY MaxFramesAssumption DEF IInv, TypeInv, Scalars, Frames
<1>3. size[f] \in Nat /\ Frame(f) \in Seq(Byte) /\ Len(Frame(f)) = size[f]
  BY <1>2, FrameFacts DEF IInv, TypeInv
<1>4. index \in Nat /\ maxLen \in Nat /\ n \in Nat /\ index + n <= size[f]
  <2>1. index \in Nat
    BY LenProperties DEF IInv, TypeInv, SnapType
  <2>2. maxLen \in Nat
    BY StreamAssumption
  <2> HIDE DEF index
  <2>3. index < size[f]
    BY <1>1 DEF index
  <2>. QED  BY <1>1, <1>3, <2>1, <2>2, <2>3 DEF Smaller
<1> HIDE DEF index, n
<1>5. /\ SubSeq(Frame(f), 1, index) \o SubSeq(Frame(f), index + 1, index + n)
           = SubSeq(Frame(f), 1, index + n)
  <2> DEFINE w == Frame(f)
  <2>1. w \in Seq(Byte) /\ index \in Nat /\ n \in Nat /\ index + n <= Len(w)
    BY <1>3, <1>4
  <2> HIDE DEF w
  <2>2. SubSeq(w, 1, index) \o SubSeq(w, index + 1, index + n) = SubSeq(w, 1, index + n)
    BY <2>1, NextSlice
  <2>. QED  BY <2>2 DEF w
<1>6. body = SubSeq(Frame(f), 1, index + n)
  BY <1>1, <1>5
<1>7. SubSeq(Frame(f), 1, index + n) \in Seq(Byte) /\ Len(SubSeq(Frame(f), 1, index + n)) = index + n
  <2>1. index + n \in Nat /\ 0 \in Nat /\ index + n + 0 <= Len(Frame(f))
    BY <1>3, <1>4
  <2>. QED  BY <1>3, <2>1, NextSlice
<1> HIDE DEF body
<1>8. /\ body \in Seq(Byte) /\ Len(body) <= size[f]
      /\ body = SubSeq(Frame(f), 1, Len(body))
  BY <1>4, <1>6, <1>7
<1>. QED  BY <1>1, <1>8 DEF body, n, index

LEMMA ScalarsStep == IInv /\ [Next]_vars => Scalars'
<1> SUFFICES ASSUME IInv, [Next]_vars  PROVE Scalars'
  OBVIOUS
<1> USE DEF IInv, TypeInv, Scalars
<1>1. /\ size' \in [Frames -> Sizes] /\ frame' \in 0..MaxFrames
  BY StepKinds
<1>2. ready' \in BOOLEAN /\ cam' \in {"init", "idle", "take", "copy"}
  BY DEF Next, vars, camVars, CamStep, camera_latest_init, Publish, PublishTake, PublishSkip, PublishByte,
         PublishGive, LatestLen, CopyTake, CopyTimeout, CopyByte, CopyGive,
         SnapshotRequest, SnapshotSized, SnapshotCopied, SnapshotFiller, SnapshotEnd,
         StreamRequest, StreamClosed, StreamFiller, StreamCopied
<1>3. mutex' \in {"free", "cam", "web"} /\ web' \in {"idle", "len", "sized", "take", "copy", "copied"}
      /\ job' \in {"none", "snapshot", "stream"} /\ room' \in MaxLens \cup {0}
  BY DEF Next, vars, webVars, Finish, camera_latest_init, Publish, PublishTake, PublishSkip, PublishByte,
         PublishGive, LatestLen, CopyTake, CopyTimeout, CopyByte, CopyGive,
         SnapshotRequest, SnapshotSized, SnapshotCopied, SnapshotFiller, SnapshotEnd,
         StreamRequest, StreamClosed, StreamFiller, StreamCopied
<1>4. read' \in 0..Capacity
  <2>1. read' = read \/ read' = 0 \/ CopyByte
    BY DEF Next, vars, webVars, Finish, camera_latest_init, Publish, PublishTake, PublishSkip, PublishByte,
           PublishGive, LatestLen, CopyTake, CopyTimeout, CopyGive,
           SnapshotRequest, SnapshotSized, SnapshotCopied, SnapshotFiller, SnapshotEnd,
           StreamRequest, StreamClosed, StreamFiller, StreamCopied
  <2>. QED  BY <2>1, CapacityAssumption DEF CopyByte
<1>5. wrote' \in 0..Capacity /\ slot' \in [1..Capacity -> Byte] /\ len' \in 0..Capacity
  <2>1. CASE PublishByte
    <3>1. /\ wrote + 1 \in 1..Capacity /\ wrote + 1 \in Nat /\ frame \in 0..MaxFrames
          /\ wrote' = wrote + 1 /\ len' = len
      BY <2>1, CapacityAssumption DEF PublishByte, SlotInv
    <3>2. <<frame, wrote + 1>> \in Byte
      BY <3>1 DEF Byte
    <3>. QED  BY <2>1, <3>1, <3>2 DEF PublishByte
  <2>2. CASE PublishGive
    BY <2>2, CapacityAssumption DEF PublishGive, SlotInv
  <2>3. CASE ~PublishByte /\ ~PublishGive
    <3>1. (wrote' = wrote \/ wrote' = 0) /\ slot' = slot /\ len' = len
      BY <2>3, StepKinds DEF CamStep, camera_latest_init, Publish, PublishTake, PublishSkip,
         slotVars, camVars
    <3>. QED  BY <3>1, CapacityAssumption
  <2>. QED  BY <2>1, <2>2, <2>3
<1>. QED  BY <1>1, <1>2, <1>3, <1>4, <1>5

LEMMA SnapTypeStep == IInv /\ [Next]_vars => snap' \in SnapType
<1> SUFFICES ASSUME IInv, [Next]_vars  PROVE snap' \in SnapType
  OBVIOUS
<1>1. snap \in SnapType /\ NoSnap \in SnapType
  BY CapacityAssumption, Ends DEF IInv, TypeInv, NoSnap, SnapType
<1>2. len \in 0..Capacity /\ read \in 0..Capacity
  BY DEF IInv, TypeInv, Scalars
<1>3. CASE UNCHANGED snap
  BY <1>1, <1>3
<1>4. CASE LatestLen
  BY <1>1, <1>2, <1>4 DEF LatestLen, SnapType
<1>5. CASE CopyByte
  <2>1. CASE job = "snapshot"
    BY <1>1, <1>5, <2>1, CopyFacts DEF CopyByte, Buf, SnapType
  <2>. QED  BY <1>1, <1>5, <2>1 DEF CopyByte
<1>6. CASE SnapshotRequest
  BY <1>1, <1>6 DEF SnapshotRequest, SnapType
<1>7. CASE SnapshotSized
  BY <1>1, <1>7 DEF SnapshotSized, SnapType
<1>8. CASE SnapshotCopied
  BY <1>1, <1>2, <1>8 DEF SnapshotCopied, SnapType
<1>9. CASE SnapshotFiller
  BY <1>1, <1>9, SliceFacts DEF SnapshotFiller, SnapType
<1>10. CASE SnapshotEnd
  BY <1>1, <1>10 DEF SnapshotEnd
<1>. QED  BY <1>3, <1>4, <1>5, <1>6, <1>7, <1>8, <1>9, <1>10, StepKinds
          DEF Next, vars, CamStep, CopyTake, CopyTimeout, CopyGive, StreamRequest,
              StreamClosed, StreamFiller, StreamCopied

\* The frame whose part a new or a running filler call goes on with.
LEMMA PartFacts ==
    ASSUME IInv, NEW maxLen \in MaxLens, NEW s \in StreamType,
           \/ s = stream /\ stream.have_part
           \/ web = "copied" /\ job = "stream" /\ read > 0 /\ s = NewPart(stream, read)
    PROVE  \E f \in 1..frame :
             /\ Emit(s, maxLen) \in StreamType
             /\ Emit(s, maxLen).on = s.on /\ Emit(s, maxLen).buf = Frame(f)
             /\ Emit(s, maxLen).frame_len = size[f]
             /\ Emit(s, maxLen).have_part =>
                  /\ Emit(s, maxLen).sent < HeaderLen + size[f]
                  /\ Emit(s, maxLen).part = SubSeq(Whole(f), 1, Emit(s, maxLen).sent)
             /\ ~Emit(s, maxLen).have_part => Emit(s, maxLen).part = Whole(f)
<1>1. \A f \in 1..frame : f \in Frames
  BY MaxFramesAssumption DEF IInv, TypeInv, Scalars, Frames
<1>2. \E f \in 1..frame : /\ s.frame_len = size[f] /\ s.buf = Frame(f)
                          /\ s.sent < HeaderLen + size[f]
                          /\ s.part = SubSeq(Whole(f), 1, s.sent)
  <2>1. CASE s = stream /\ stream.have_part
    BY <2>1 DEF IInv, StreamInv
  <2>2. CASE web = "copied" /\ job = "stream" /\ read > 0 /\ s = NewPart(stream, read)
    <3>1. PICK f \in 1..frame : read = size[f] /\ stream.buf = Frame(f)
      BY <2>2 DEF IInv, CopyInv, Buf
    <3>2. s.frame_len = read /\ s.buf = stream.buf /\ s.sent = 0 /\ s.part = <<>>
      BY <2>2 DEF NewPart, IInv, TypeInv, StreamType
    <3>3. size[f] \in Nat /\ Whole(f) \in Seq(Byte)
      BY <1>1, FrameFacts DEF IInv, TypeInv
    <3>4. SubSeq(Whole(f), 1, 0) = <<>>
      BY <3>3, Ends
    <3>. QED  BY <3>1, <3>2, <3>3, <3>4, StreamAssumption
  <2>. QED  BY <2>1, <2>2
<1>3. PICK f \in 1..frame : /\ s.frame_len = size[f] /\ s.buf = Frame(f)
                            /\ s.sent < HeaderLen + size[f]
                            /\ s.part = SubSeq(Whole(f), 1, s.sent)
  BY <1>2
<1>4. Scalars /\ f \in Frames
  BY <1>1 DEF IInv, TypeInv
<1>5. /\ Emit(s, maxLen) \in StreamType
      /\ Emit(s, maxLen).on = s.on /\ Emit(s, maxLen).buf = s.buf
      /\ Emit(s, maxLen).frame_len = s.frame_len
      /\ Emit(s, maxLen).have_part =>
           /\ Emit(s, maxLen).sent < HeaderLen + size[f]
           /\ Emit(s, maxLen).part = SubSeq(Whole(f), 1, Emit(s, maxLen).sent)
      /\ ~Emit(s, maxLen).have_part => Emit(s, maxLen).part = Whole(f)
  BY <1>3, <1>4, EmitFacts
<1>. QED  BY <1>3, <1>5

LEMMA NewPartType ==
    ASSUME IInv
    PROVE  NewPart(stream, read) \in StreamType
<1>1. stream \in StreamType /\ read \in 0..Capacity
  BY DEF IInv, TypeInv, Scalars
<1>2. <<>> \in Seq(Byte) /\ 0 \in 0..HeaderLen + Capacity
  BY Ends, CapacityAssumption, StreamAssumption
<1>. QED  BY <1>1, <1>2 DEF NewPart, StreamType

LEMMA StreamTypeStep == IInv /\ [Next]_vars => stream' \in StreamType
<1> SUFFICES ASSUME IInv, [Next]_vars  PROVE stream' \in StreamType
  OBVIOUS
<1>1. stream \in StreamType /\ NoStream \in StreamType
  BY CapacityAssumption, StreamAssumption, Ends DEF IInv, TypeInv, NoStream, StreamType
<1>3. CASE UNCHANGED stream
  BY <1>1, <1>3
<1>4. CASE CopyByte
  <2>1. CASE job # "snapshot"
    BY <1>1, <1>4, <2>1, CopyFacts DEF CopyByte, Buf, StreamType
  <2>. QED  BY <1>1, <1>4, <2>1 DEF CopyByte
<1>5. CASE StreamRequest
  BY <1>1, <1>5 DEF StreamRequest, StreamType
<1>6. CASE StreamClosed
  BY <1>1, <1>6 DEF StreamClosed
<1>7. CASE StreamFiller
  BY <1>1, <1>7, PartFacts DEF StreamFiller
<1>8. CASE StreamCopied
  <2>1. CASE read = 0
    <3>1. (room >= 2) \in BOOLEAN
      OBVIOUS
    <3>. QED  BY <1>1, <1>8, <2>1, <3>1 DEF StreamCopied, StreamType
  <2>2. CASE read # 0
    <3>1. read > 0 /\ room \in MaxLens
      BY <1>8, <2>2, CapacityAssumption DEF StreamCopied, IInv, TypeInv, Scalars, JobInv
    <3>. QED  BY <1>8, <2>2, <3>1, PartFacts, NewPartType DEF StreamCopied
  <2>. QED  BY <2>1, <2>2
<1>. QED  BY <1>3, <1>4, <1>5, <1>6, <1>7, <1>8, StepKinds
          DEF Next, vars, CamStep, LatestLen, CopyTake, CopyTimeout, CopyGive,
              SnapshotRequest, SnapshotSized, SnapshotCopied, SnapshotFiller, SnapshotEnd

LEMMA JobStep == IInv /\ [Next]_vars => JobInv'
<1> SUFFICES ASSUME IInv, [Next]_vars  PROVE JobInv'
  OBVIOUS
<1>1. /\ snap \in SnapType /\ stream \in StreamType /\ JobInv
      /\ web \in {"idle", "len", "sized", "take", "copy", "copied"}
  BY DEF IInv, TypeInv, Scalars
<1>2. CASE UNCHANGED <<webVars, snap, stream>>
  BY <1>1, <1>2 DEF webVars, JobInv
<1>3. CASE LatestLen
  BY <1>1, <1>3 DEF LatestLen, JobInv, SnapType
<1>4. CASE CopyTake \/ CopyTimeout \/ CopyGive
  BY <1>1, <1>4 DEF CopyTake, CopyTimeout, CopyGive, JobInv
<1>5. CASE CopyByte
  BY <1>1, <1>5 DEF CopyByte, JobInv, SnapType, StreamType
<1>6. CASE SnapshotRequest
  BY <1>1, <1>6 DEF SnapshotRequest, WebIdle, JobInv, SnapType, NoSnap
<1>7. CASE SnapshotSized
  BY <1>1, <1>7 DEF SnapshotSized, Finish, JobInv, SnapType
<1>8. CASE SnapshotCopied
  BY <1>1, <1>8 DEF SnapshotCopied, Finish, JobInv, SnapType
<1>9. CASE SnapshotFiller \/ SnapshotEnd
  BY <1>1, <1>9 DEF SnapshotFiller, SnapshotEnd, WebIdle, webVars, NoSnap, JobInv, SnapType
<1>10. CASE StreamRequest \/ StreamClosed
  BY <1>1, <1>10 DEF StreamRequest, StreamClosed, WebIdle, webVars, JobInv
<1>11. CASE StreamFiller
  BY <1>1, <1>11 DEF StreamFiller, WebIdle, JobInv
<1>12. CASE StreamCopied
  BY <1>1, <1>12 DEF StreamCopied, Finish, JobInv
<1>. QED  BY <1>2, <1>3, <1>4, <1>5, <1>6, <1>7, <1>8, <1>9, <1>10, <1>11, <1>12, StepKinds
          DEF Next, vars, CamStep

-----------------------------------------------------------------------------
(* What is copied, and what is served.                                     *)

\* While bytes are copied the slot is at rest, so what was copied is one frame.
LEMMA CopiedIsAFrame ==
    ASSUME IInv, web = "copy", read = len
    PROVE  \E f \in 1..frame : read = size[f] /\ Buf = Frame(f)
<1>1. len > 0 /\ cam # "copy"
  BY DEF IInv, TypeInv, Scalars, CopyInv, LockInv, DstCap, SnapType
<1>2. PICK f \in 1..frame : len = size[f] /\ \A i \in 1..len : slot[i] = <<f, i>>
  BY <1>1 DEF IInv, SlotInv
<1>3. f \in Frames
  BY MaxFramesAssumption DEF IInv, TypeInv, Scalars, Frames
<1>4. /\ Frame(f) \in Seq(Byte) /\ Len(Frame(f)) = size[f]
      /\ \A i \in 1..size[f] : Frame(f)[i] = <<f, i>>
  BY <1>3, FrameFacts DEF IInv, TypeInv
<1>5. Buf \in Seq(Byte)
  BY DEF IInv, TypeInv, SnapType, StreamType, Buf
<1>6. Len(Buf) = size[f] /\ \A i \in 1..size[f] : Buf[i] = <<f, i>>
  BY <1>1, <1>2 DEF IInv, CopyInv
<1>7. Buf = Frame(f)
  <2>1. Len(Buf) = Len(Frame(f)) /\ \A i \in 1..Len(Buf) : Buf[i] = Frame(f)[i]
    BY <1>4, <1>6
  <2>. QED  BY <1>4, <1>5, <2>1, SeqEqual
<1>. QED  BY <1>2, <1>7

LEMMA CopyStep == IInv /\ [Next]_vars => CopyInv'
<1> SUFFICES ASSUME IInv, [Next]_vars  PROVE CopyInv'
  OBVIOUS
<1>1. /\ snap \in SnapType /\ stream \in StreamType /\ CopyInv
      /\ web \in {"idle", "len", "sized", "take", "copy", "copied"}
      /\ read \in Nat /\ len \in Nat
  BY CapacityAssumption DEF IInv, TypeInv, Scalars
<1>2. size' = size /\ 1..frame \subseteq 1..frame' /\ \A f : Frame(f)' = Frame(f)
  BY StepKinds DEF Frame
<1>3. ASSUME UNCHANGED <<webVars, snap, stream>>  PROVE CopyInv'
  <2>1. Buf' = Buf /\ DstCap' = DstCap /\ read' = read /\ web' = web
    BY <1>3 DEF Buf, DstCap, webVars
  <2>2. web = "copy" => slot' = slot /\ len' = len
    <3>1. web = "copy" => cam # "copy"
      BY DEF IInv, LockInv
    <3>. QED  BY <3>1, StepKinds DEF CamStep, camera_latest_init, Publish, PublishTake,
              PublishSkip, PublishByte, PublishGive, slotVars
  <2>. QED  BY <1>1, <1>2, <2>1, <2>2 DEF CopyInv
<1>4. CASE CopyTake
  BY <1>1, <1>4 DEF CopyTake, CopyInv, DstCap, slotVars
<1>5. CASE CopyTimeout
  BY <1>1, <1>5 DEF CopyTimeout, CopyInv
<1>6. CASE CopyByte
  <2>1. DstCap' = DstCap /\ slot' = slot /\ len' = len /\ web' = "copy" /\ read' = read + 1
        /\ len \in 1..DstCap /\ read' <= len
    BY <1>1, <1>6 DEF CopyByte, CopyInv, DstCap, slotVars, SnapType
  <2>2. Buf' = Append(SubSeq(Buf, 1, read), slot[read + 1])
    BY <1>1, <1>6 DEF CopyByte, Buf, SnapType, StreamType
  <2>3. Len(Buf') = read + 1 /\ \A i \in 1..read + 1 : Buf'[i] = slot[i]
    BY <1>6, <2>2, CopyFacts DEF CopyByte
  <2>. QED  BY <2>1, <2>3 DEF CopyInv
<1>7. CASE CopyGive
  <2>1. \E f \in 1..frame : read = size[f] /\ Buf = Frame(f)
    BY <1>7, CopiedIsAFrame DEF CopyGive
  <2>2. Buf' = Buf /\ read' = read /\ web' = "copied"
    BY <1>7 DEF CopyGive, Buf
  <2>. QED  BY <1>2, <2>1, <2>2 DEF CopyInv
<1>8. CASE LatestLen \/ SnapshotRequest \/ SnapshotSized \/ SnapshotCopied
           \/ SnapshotFiller \/ SnapshotEnd \/ StreamRequest \/ StreamClosed
           \/ StreamFiller \/ StreamCopied
  <2>1. web' \notin {"copy", "copied"}
    BY <1>1, <1>8 DEF LatestLen, SnapshotRequest, SnapshotSized, SnapshotCopied, SnapshotFiller,
       SnapshotEnd, StreamRequest, StreamClosed, StreamFiller, StreamCopied, Finish,
       WebIdle, webVars
  <2>. QED  BY <2>1 DEF CopyInv
<1>. QED  BY <1>3, <1>4, <1>5, <1>6, <1>7, <1>8, StepKinds DEF Next, vars, CamStep

LEMMA SnapStep == IInv /\ [Next]_vars => SnapInv'
<1> SUFFICES ASSUME IInv, [Next]_vars  PROVE SnapInv'
  OBVIOUS
<1>1. /\ snap \in SnapType /\ stream \in StreamType /\ SnapInv /\ JobInv
      /\ web \in {"idle", "len", "sized", "take", "copy", "copied"}
      /\ read \in Nat /\ len \in Nat
  BY CapacityAssumption DEF IInv, TypeInv, Scalars
<1>2. size' = size /\ 1..frame \subseteq 1..frame' /\ \A f : Frame(f)' = Frame(f)
  BY StepKinds DEF Frame
<1>3. ASSUME UNCHANGED snap,
             web' \in {"len", "sized", "take"} /\ job' = "snapshot" =>
               web \in {"len", "sized", "take"} /\ job = "snapshot"
      PROVE  SnapInv'
  BY <1>1, <1>2, <1>3 DEF SnapInv
<1>4. CASE LatestLen
  <2>1. job = "snapshot" /\ snap.phase = "working" /\ snap.buf = <<>> /\ snap.body = <<>>
    BY <1>1, <1>4 DEF LatestLen, JobInv, SnapInv
  <2>2. snap'.buf = <<>> /\ snap'.body = <<>> /\ snap'.phase = "working" /\ snap'.cap \in Nat
    BY <1>1, <1>4, <2>1, CapacityAssumption DEF LatestLen, SnapType
  <2>. QED  BY <2>2, Ends DEF SnapInv
<1>5. CASE CopyByte
  <2>1. CASE job = "snapshot"
    <3>1. snap.phase = "working" /\ snap.body = <<>> /\ len <= snap.cap
      BY <1>1, <1>5, <2>1 DEF JobInv, SnapInv, CopyByte, IInv, CopyInv, DstCap, SnapType
    <3>2. snap'.buf = Append(SubSeq(Buf, 1, read), slot[read + 1])
      BY <1>1, <1>5, <2>1 DEF CopyByte, Buf, SnapType
    <3>3. Len(snap'.buf) = read + 1
      BY <1>5, <3>2, CopyFacts DEF CopyByte
    <3>4. snap'.phase = "working" /\ snap'.body = <<>> /\ snap'.cap = snap.cap /\ web' = "copy"
      BY <1>1, <1>5, <2>1, <3>1 DEF CopyByte, SnapType
    <3>5. snap.cap \in Nat /\ read < len
      BY <1>1, <1>5, CapacityAssumption DEF CopyByte, SnapType
    <3>. QED  BY <1>1, <3>1, <3>3, <3>4, <3>5 DEF SnapInv
  <2>2. CASE job # "snapshot"
    BY <1>3, <1>5, <2>2 DEF CopyByte
  <2>. QED  BY <2>1, <2>2
<1>6. CASE SnapshotRequest \/ SnapshotEnd
  <2>1. snap'.buf = <<>> /\ snap'.body = <<>> /\ snap'.cap = 0 /\ snap'.phase # "sending"
    BY <1>6 DEF SnapshotRequest, SnapshotEnd, NoSnap
  <2>. QED  BY <2>1, Ends DEF SnapInv
<1>7. CASE SnapshotSized
  <2>1. CASE UNCHANGED snap
    BY <1>1, <1>3, <1>7, <2>1 DEF SnapshotSized, JobInv, Finish
  <2>2. CASE ~UNCHANGED snap
    BY <1>1, <1>7, <2>2 DEF SnapshotSized, SnapInv, SnapType, Finish
  <2>. QED  BY <2>1, <2>2
<1>8. CASE SnapshotCopied
  <2>1. /\ snap'.cap = snap.cap /\ snap'.buf = snap.buf /\ snap'.body = snap.body
        /\ web' = "idle" /\ snap.phase = "working" /\ snap.body = <<>>
    BY <1>1, <1>8 DEF SnapshotCopied, Finish, JobInv, SnapInv, SnapType
  <2>2. CASE read = 0
    BY <1>1, <1>8, <2>1, <2>2 DEF SnapshotCopied, SnapInv, SnapType
  <2>3. CASE read > 0
    <3>1. snap'.phase = "sending" /\ snap'.got = read
      BY <1>1, <1>8, <2>3 DEF SnapshotCopied, SnapType
    <3>2. PICK f \in 1..frame : read = size[f] /\ snap.buf = Frame(f)
      BY <1>8, <2>3 DEF SnapshotCopied, IInv, CopyInv, Buf
    <3>3. f \in Frames
      BY MaxFramesAssumption DEF IInv, TypeInv, Scalars, Frames
    <3>4. Frame(f) \in Seq(Byte) /\ size[f] \in Nat
      BY <3>3, FrameFacts DEF IInv, TypeInv
    <3>5. snap'.body = SubSeq(Frame(f), 1, 0) /\ Len(snap'.body) = 0
      BY <2>1, <3>4, Ends
    <3>. QED  BY <1>1, <1>2, <2>1, <3>1, <3>2, <3>4, <3>5 DEF SnapInv
  <2>. QED  BY <1>1, <2>2, <2>3
<1>9. CASE SnapshotFiller
  <2>1. PICK maxLen \in MaxLens :
          snap' = [snap EXCEPT !.body = @ \o SubSeq(snap.buf, Len(snap.body) + 1,
                     Len(snap.body) + Smaller(snap.got - Len(snap.body), maxLen))]
    BY <1>9 DEF SnapshotFiller
  <2>2. /\ snap'.cap = snap.cap /\ snap'.buf = snap.buf /\ snap'.got = snap.got
        /\ snap'.phase = "sending" /\ web' = "idle"
    BY <1>1, <1>9, <2>1 DEF SnapshotFiller, WebIdle, webVars, SnapType
  <2>3. \E f \in 1..frame :
          /\ snap.got = size[f] /\ snap.buf = Frame(f)
          /\ Len(snap'.body) <= size[f]
          /\ snap'.body = SubSeq(Frame(f), 1, Len(snap'.body))
    BY <1>1, <1>9, <2>1, SliceFacts DEF SnapshotFiller, SnapType
  <2>. QED  BY <1>1, <1>2, <2>2, <2>3 DEF SnapInv
<1>10. CASE CamStep \/ CopyTake \/ CopyTimeout \/ CopyGive \/ StreamRequest \/ StreamClosed
            \/ StreamFiller \/ StreamCopied \/ UNCHANGED vars
  <2>1. UNCHANGED snap /\ (web' \in {"len", "sized", "take"} /\ job' = "snapshot" =>
           web \in {"len", "sized", "take"} /\ job = "snapshot")
    BY <1>10, StepKinds DEF CopyTake, CopyTimeout, CopyGive, StreamRequest, StreamClosed,
       StreamFiller, StreamCopied, Finish, WebIdle, webVars, vars
  <2>. QED  BY <1>3, <2>1
<1>. QED  BY <1>4, <1>5, <1>6, <1>7, <1>8, <1>9, <1>10 DEF Next, CamStep

LEMMA StreamStep == IInv /\ [Next]_vars => StreamInv'
<1> SUFFICES ASSUME IInv, [Next]_vars  PROVE StreamInv'
  OBVIOUS
<1>1. /\ stream \in StreamType /\ StreamInv /\ JobInv /\ read \in Nat
  BY CapacityAssumption DEF IInv, TypeInv, Scalars
<1>2. /\ size' = size /\ 1..frame \subseteq 1..frame'
      /\ \A f : Frame(f)' = Frame(f) /\ Whole(f)' = Whole(f)
  BY StepKinds DEF Frame, Whole
<1>3. ASSUME UNCHANGED stream  PROVE StreamInv'
  BY <1>1, <1>2, <1>3 DEF StreamInv
<1>4. CASE CopyByte
  <2>1. CASE job = "snapshot"
    BY <1>3, <1>4, <2>1 DEF CopyByte
  <2>2. CASE job # "snapshot"
    <3>1. ~stream.have_part
      BY <1>1, <1>4, <2>2 DEF CopyByte, JobInv, IInv, TypeInv, Scalars
    <3>2. /\ stream'.have_part = stream.have_part /\ stream'.part = stream.part
          /\ stream'.frame_len = stream.frame_len
      BY <1>1, <1>4, <2>2 DEF CopyByte, StreamType
    <3>. QED  BY <1>1, <1>2, <3>1, <3>2 DEF StreamInv
  <2>. QED  BY <2>1, <2>2
<1>5. CASE StreamRequest \/ StreamClosed
  BY <1>5 DEF StreamRequest, StreamClosed, NoStream, StreamInv
<1>6. CASE StreamFiller
  <2>1. CASE stream.have_part
    BY <1>1, <1>2, <1>6, <2>1, PartFacts DEF StreamFiller, StreamInv
  <2>2. CASE ~stream.have_part
    BY <1>3, <1>6, <2>2 DEF StreamFiller
  <2>. QED  BY <2>1, <2>2
<1>7. CASE StreamCopied
  <2>1. CASE read = 0
    <3>1. ~stream.have_part
      BY <1>1, <1>7 DEF StreamCopied, JobInv
    <3>2. /\ stream'.have_part = stream.have_part /\ stream'.part = stream.part
          /\ stream'.frame_len = stream.frame_len
      BY <1>1, <1>7, <2>1 DEF StreamCopied, StreamType
    <3>. QED  BY <1>1, <1>2, <3>1, <3>2 DEF StreamInv
  <2>2. CASE read # 0
    <3>1. read > 0 /\ room \in MaxLens
      BY <1>1, <1>7, <2>2 DEF StreamCopied, JobInv
    <3>2. stream' = Emit(NewPart(stream, read), room)
      BY <1>7, <2>2 DEF StreamCopied
    <3>. QED  BY <1>2, <1>7, <3>1, <3>2, PartFacts, NewPartType DEF StreamCopied, StreamInv
  <2>. QED  BY <2>1, <2>2
<1>8. CASE CamStep \/ LatestLen \/ CopyTake \/ CopyTimeout \/ CopyGive \/ SnapshotRequest
           \/ SnapshotSized \/ SnapshotCopied \/ SnapshotFiller \/ SnapshotEnd
           \/ UNCHANGED vars
  <2>1. UNCHANGED stream
    BY <1>8, StepKinds DEF LatestLen, CopyTake, CopyTimeout, CopyGive, SnapshotRequest,
       SnapshotSized, SnapshotCopied, SnapshotFiller, SnapshotEnd, vars
  <2>. QED  BY <1>3, <2>1
<1>. QED  BY <1>4, <1>5, <1>6, <1>7, <1>8 DEF Next, CamStep

-----------------------------------------------------------------------------
(* The theorems.                                                           *)

LEMMA Invariant == Spec => []IInv
<1>1. IInv /\ [Next]_vars => IInv'
  BY ScalarsStep, SnapTypeStep, StreamTypeStep, LockStep, SlotStep, JobStep, CopyStep,
     SnapStep, StreamStep DEF IInv, TypeInv
<1>. QED  BY InitIInv, <1>1, PTL DEF Spec

\* The variables of the slot and of its readers keep their types; no copy ends beyond
\* the slot or the buffer it goes to.
THEOREM TypeCorrect == Spec => []TypeOK
<1>1. IInv => TypeOK
  BY TypeInvIsType DEF IInv
<1>. QED  BY Invariant, <1>1, PTL

\* camera_latest_copy never writes beyond a snapshot's buffer, whatever is published
\* between camera_latest_len and the copy.
THEOREM CopiesFit == Spec => []CopyFits
<1>1. IInv => CopyFits
  BY DEF IInv, SnapInv, CopyFits
<1>. QED  BY Invariant, <1>1, PTL

\* What GET /snapshot has sent at any time is the beginning of one captured frame.
THEOREM SnapshotsAreExact == Spec => []SnapshotExact
<1>1. IInv => SnapshotExact
  <2> SUFFICES ASSUME IInv, snap.phase = "sending"
               PROVE  \E f \in 1..frame : snap.got = size[f] /\ PrefixOf(snap.body, Frame(f))
    BY DEF SnapshotExact
  <2>1. PICK f \in 1..frame : /\ snap.got = size[f] /\ Len(snap.body) <= size[f]
                              /\ snap.body = SubSeq(Frame(f), 1, Len(snap.body))
    BY DEF IInv, SnapInv
  <2>2. f \in Frames
    BY MaxFramesAssumption DEF IInv, TypeInv, Scalars, Frames
  <2>3. Len(Frame(f)) = size[f]
    BY <2>2, FrameFacts DEF IInv, TypeInv
  <2>. QED  BY <2>1, <2>3 DEF PrefixOf
<1>. QED  BY Invariant, <1>1, PTL

\* What GET /stream has sent of a part is the beginning of one frame's part, and a part
\* ends with the frame's last byte.
THEOREM PartsAreExact == Spec => []PartsExact
<1>1. IInv => PartsExact
  <2> SUFFICES ASSUME IInv, Len(stream.part) > 0
               PROVE  \E f \in 1..frame :
                        /\ stream.frame_len = size[f]
                        /\ PrefixOf(stream.part, Header \o Frame(f))
                        /\ ~stream.have_part => Len(stream.part) = HeaderLen + size[f]
    BY DEF PartsExact
  <2>1. stream.part # <<>> /\ stream \in StreamType
    BY Ends DEF IInv, TypeInv
  <2>2. \A f \in 1..frame : /\ Whole(f) \in Seq(Byte) /\ Len(Whole(f)) = HeaderLen + size[f]
                            /\ size[f] \in Nat
    BY FrameFacts, MaxFramesAssumption DEF IInv, TypeInv, Scalars, Frames
  <2>3. CASE stream.have_part
    <3>1. PICK f \in 1..frame : /\ stream.frame_len = size[f]
                                /\ stream.sent < HeaderLen + size[f]
                                /\ stream.part = SubSeq(Whole(f), 1, stream.sent)
      BY <2>3 DEF IInv, StreamInv
    <3>2. stream.sent \in Nat /\ stream.sent + 0 <= Len(Whole(f)) /\ 0 \in Nat
      BY <2>1, <2>2, <3>1, StreamAssumption DEF StreamType
    <3>3. Len(stream.part) = stream.sent
      BY <2>2, <3>1, <3>2, NextSlice
    <3>4. Len(stream.part) <= Len(Whole(f)) /\ stream.part = SubSeq(Whole(f), 1, Len(stream.part))
      BY <3>1, <3>2, <3>3
    <3>5. PrefixOf(stream.part, Whole(f))
      BY <3>4 DEF PrefixOf
    <3>. QED  BY <2>3, <3>1, <3>5 DEF Whole
  <2>4. CASE ~stream.have_part
    <3>1. PICK f \in 1..frame : stream.frame_len = size[f] /\ stream.part = Whole(f)
      BY <2>1, <2>4 DEF IInv, StreamInv
    <3>2. SubSeq(Whole(f), 1, Len(Whole(f))) = Whole(f)
      BY <2>2, SubSeqFull
    <3>3. Len(Whole(f)) = HeaderLen + size[f] /\ Len(Whole(f)) <= Len(Whole(f))
      BY <2>2, <3>1, StreamAssumption
    <3>4. PrefixOf(stream.part, Whole(f)) /\ Len(stream.part) = HeaderLen + size[f]
      BY <3>1, <3>2, <3>3 DEF PrefixOf
    <3>. QED  BY <3>1, <3>4 DEF Whole
  <2>. QED  BY <2>3, <2>4
<1>. QED  BY Invariant, <1>1, PTL
=============================================================================
