----------------------------- MODULE RtpStream ------------------------------
(***************************************************************************)
(* One streamer of lib/Micro-RTSP (CStreamer.cpp): each frame that         *)
(* task_rtsp broadcasts is decoded and sent to the client as RTP packets   *)
(* (RFC 2435), with a sequence number and a timestamp that live as long as *)
(* the session.  The bytes of a packet are those of the scan from off to   *)
(* off + len - 1.  Clock, timestamp and sequence number wrap at the width  *)
(* of their types.                                                         *)
(***************************************************************************)
EXTENDS JpegFile

CONSTANTS
    Recorded,     \* the images the camera delivers, as files (JpegOf)
    MaxFragment,  \* MAX_FRAGMENT_SIZE
    Word,         \* 2^32: millis() and the RTP timestamp
    SeqWord,      \* 2^16: the RTP sequence number
    Units, Milli, \* 90000 Hz and 1000 ms
    Rollover,     \* the 100 ms put in for an interval across the clock's wrap
    Gaps          \* the intervals between frames, in ms

ASSUME RtpAssumption ==
    /\ {MaxFragment, Word, SeqWord, Units, Milli, Rollover} \subseteq Nat \ {0}
    /\ Gaps \subseteq Nat
    /\ Rollover < Word
    /\ Recorded \subseteq Images

Files == {JpegOf(i) : i \in Recorded}

VARIABLES
    now,               \* millis()
    frame,             \* the frame last handed to streamFrame
    image,             \* what decodeJPEGfile made of it
    offset,            \* fragmentOffset
    out,               \* the packets of the frame so far
    last,              \* the last packet of the session (the code keeps neither)
    m_prevMsec, m_Timestamp, m_SequenceNumber,
    deltams,
    pc                 \* "idle", "send", "sent"

sessionVars == <<m_prevMsec, m_Timestamp, m_SequenceNumber>>
vars == <<now, frame, image, offset, out, last, sessionVars, deltams, pc>>

NoFrame == [bytes |-> <<>>, whole |-> FALSE, start |-> 0, len |-> 0,
            q0 |-> NoTable, q1 |-> NoTable]
Stamp == 0..(Word - 1)
Packet == [off : Nat, len : Nat, marker : BOOLEAN, tables : BOOLEAN,
           seq : 0..(SeqWord - 1), stamp : Stamp]
NoPacket == [off |-> 0, len |-> 0, marker |-> TRUE, tables |-> FALSE,
             seq |-> SeqWord - 1, stamp |-> 0]

TypeOK ==
    /\ now \in Stamp /\ m_prevMsec \in Stamp /\ m_Timestamp \in Stamp
    /\ deltams \in Nat
    /\ m_SequenceNumber \in 0..(SeqWord - 1)
    /\ frame.bytes \in Seq(0..255)
    /\ offset \in Nat
    /\ out \in Seq(Packet) /\ last \in Packet
    /\ pc \in {"idle", "send", "sent"}

Init ==
    /\ now \in 1..(Word - 1)
    /\ frame = NoFrame /\ image = Refused
    /\ offset = 0 /\ out = <<>> /\ last = NoPacket
    /\ m_prevMsec = 0 /\ m_Timestamp = 0 /\ m_SequenceNumber = 0
    /\ deltams = 0 /\ pc = "idle"

-----------------------------------------------------------------------------
\* Mutant: the interval is a signed difference, also across the clock's wrap.
StreamFrameSigned(f) ==
    /\ pc = "idle" /\ frame = NoFrame
    /\ deltams' = now - m_prevMsec
    /\ m_prevMsec' = now
    /\ frame' = f
    /\ image' = decodeJPEGfile(f.bytes)
    /\ offset' = 0
    /\ out' = <<>>
    /\ pc' = IF image'.ok THEN "send" ELSE "idle"
    /\ UNCHANGED <<now, last, m_Timestamp, m_SequenceNumber>>

\* streamFrame up to the loop: the interval since the frame before it, then the
\* decoding; a frame that cannot be decoded is dropped.
StreamFrame(f) ==
    /\ pc = "idle" /\ frame = NoFrame
    /\ LET prev == IF m_prevMsec = 0 THEN now ELSE m_prevMsec IN
         deltams' = IF now >= prev THEN now - prev ELSE Rollover
    /\ m_prevMsec' = now
    /\ frame' = f
    /\ image' = decodeJPEGfile(f.bytes)
    /\ offset' = 0
    /\ out' = <<>>
    /\ pc' = IF image'.ok THEN "send" ELSE "idle"
    /\ UNCHANGED <<now, last, m_Timestamp, m_SequenceNumber>>

Fragment == IF MaxFragment + offset > image.len THEN image.len - offset ELSE MaxFragment

LastFragment == offset + Fragment = image.len

\* Sends one packet; the tables go into the first one of a frame.
Emit(marker, nextSeq) ==
    /\ pc = "send"
    /\ LET packet == [off |-> offset, len |-> Fragment, marker |-> marker,
                      tables |-> image.q0 # NoTable /\ image.q1 # NoTable /\ offset = 0,
                      seq |-> m_SequenceNumber, stamp |-> m_Timestamp] IN
         out' = Append(out, packet) /\ last' = packet
    /\ m_SequenceNumber' = nextSeq
    /\ offset' = offset + Fragment
    /\ pc' = IF LastFragment THEN "sent" ELSE "send"
    /\ UNCHANGED <<now, frame, image, m_prevMsec, m_Timestamp, deltams>>

\* Mutant: a frame that fills its packets exactly gets no marker.
SendUnmarkedFull ==
    Emit(LastFragment /\ Fragment < MaxFragment, (m_SequenceNumber + 1) % SeqWord)

\* Mutant: the packets of each frame are numbered from 0.
SendNumberedByFrame ==
    Emit(LastFragment, IF LastFragment THEN 0 ELSE (m_SequenceNumber + 1) % SeqWord)

\* SendRtpPacket.
SendRtpPacket ==
    Emit(LastFragment, (m_SequenceNumber + 1) % SeqWord)

\* streamFrame after the loop: the timestamp moves on by the interval, computed
\* in 32 bits, and is that of the next frame.
FrameSent ==
    /\ pc = "sent"
    /\ m_Timestamp' = (m_Timestamp + ((Units * deltams) % Word) \div Milli) % Word
    /\ pc' = "idle"
    /\ UNCHANGED <<now, frame, image, offset, out, last, m_prevMsec,
                   m_SequenceNumber, deltams>>

\* Time goes by until the next frame; what streamFrame kept on its stack is gone.
Pass ==
    /\ pc = "idle" /\ frame # NoFrame
    /\ \E gap \in Gaps : now' = (now + gap) % Word
    /\ frame' = NoFrame
    /\ image' = Refused /\ offset' = 0 /\ out' = <<>> /\ deltams' = 0
    /\ UNCHANGED <<last, sessionVars, pc>>

Next ==
    \/ \E f \in Files : StreamFrame(f)
    \/ SendRtpPacket \/ FrameSent \/ Pass

Spec == Init /\ [][Next]_vars

-----------------------------------------------------------------------------
(* Correctness.                                                            *)

\* A frame is sent if and only if its file is whole, and then what is sent is
\* the file's scan with its EOI marker, and the tables are the file's
\* (decodeJPEGfile; the two bytes that CStreamer.cpp:388-400 tells of).
DecodeIsExact ==
    frame # NoFrame =>
        /\ image.ok <=> frame.whole
        /\ image.ok => /\ image.start = frame.start /\ image.len = frame.len
                       /\ image.q0 = frame.q0 /\ image.q1 = frame.q1

\* The packets of a frame put together are its data, with nothing missing and
\* nothing twice: the marker is on the last packet alone, the tables in the
\* first alone, and all have one timestamp (RFC 2435).
PacketsReassemble ==
    /\ \A i \in 1..Len(out) :
         /\ out[i].off = (IF i = 1 THEN 0 ELSE out[i - 1].off + out[i - 1].len)
         /\ out[i].len \in 1..MaxFragment
         /\ out[i].marker <=> out[i].off + out[i].len = image.len
         /\ out[i].tables <=> i = 1 /\ image.q0 # NoTable /\ image.q1 # NoTable
         /\ out[i].stamp = m_Timestamp \/ pc = "idle"
    /\ pc = "sent" => out[Len(out)].marker

\* Over the whole session the packets are numbered without a gap, and a frame
\* starts exactly where the marker ended the one before it.
SequenceContinues ==
    [][last' # last => /\ last'.seq = (last.seq + 1) % SeqWord
                       /\ last'.off = 0 <=> last.marker]_vars

-----------------------------------------------------------------------------
(* What a comment says and the code does not do.                           *)

\* CStreamer.cpp:63, "each image gets a timestamp": frames taken at different
\* times have different timestamps.
EachImageItsStamp ==
    [][out' # out /\ offset = 0 /\ pc = "send" /\ last.len > 0 /\ deltams > 0
          => m_Timestamp # last.stamp]_vars
=============================================================================
