------------------------------ MODULE JpegFile ------------------------------
(***************************************************************************)
(* How lib/Micro-RTSP takes a JPEG file apart before it is packetised      *)
(* (CStreamer.cpp:213-434).  A buffer is a sequence of bytes; positions    *)
(* count from 0, as the pointers of the code do.  A search returns its     *)
(* verdict with the start and the length it leaves behind, which on        *)
(* failure are those it was given.                                         *)
(***************************************************************************)
EXTENDS Integers, Sequences, FiniteSetsExt

CONSTANT Beyond     \* the byte that a read beyond the end of a buffer finds

ASSUME BeyondAssumption == Beyond \in 0..255

SOI == 216  \* 0xd8, start of image
EOI == 217  \* 0xd9, end of image
SOS == 218  \* 0xda, start of scan
DQT == 219  \* 0xdb, quantisation table

\* The markers whose segments findJPEGheader steps over by their length.
Sections == {224, DQT, 196, 192, SOS}

\* The search for the second table may leave the buffer: quantlen is not shortened by
\* the first one.  So may any search by the one byte after a last 0xff.
ByteAt(buf, p) == IF p < Len(buf) THEN buf[p + 1] ELSE Beyond
SegmentLen(buf, p) == ByteAt(buf, p) * 256 + ByteAt(buf, p + 1)

\* findJPEGheader: step from segment to segment until the marker is met.
findJPEGheader(buf, start, len, marker) ==
    LET lost == [ok |-> FALSE, start |-> start, len |-> len]
        from[p \in start..(start + len + 1)] ==
          LET body == p + 2 IN
          IF p - start >= len \/ ByteAt(buf, p) # 255 THEN lost
          ELSE IF ByteAt(buf, p + 1) = marker
               THEN [ok |-> TRUE, start |-> body, len |-> len - (body - start)]
          ELSE IF ByteAt(buf, p + 1) \notin Sections THEN from[body]
          ELSE IF body + 1 >= start + len
                  \/ body + SegmentLen(buf, body) > start + len THEN lost
          ELSE from[body + SegmentLen(buf, body)]
    IN from[start]

\* skipScanBytes: the first 0xFF that no stuffing byte follows, among the first
\* maxIter of the len bytes from start.
skipScanBytes(buf, start, len, maxIter) ==
    LET end == IF maxIter < len THEN maxIter ELSE len
        marks == {i \in 0..(end - 1) : /\ ByteAt(buf, start + i) = 255
                                       /\ i + 1 < len
                                       /\ ByteAt(buf, start + i + 1) # 0}
    IN IF marks = {} THEN [ok |-> FALSE, pos |-> end]
                     ELSE [ok |-> TRUE, pos |-> Min(marks)]

NoTable == -1
Refused == [ok |-> FALSE, start |-> 0, len |-> 0, q0 |-> NoTable, q1 |-> NoTable]

\* Where the scan data of a file lie and where its two tables begin.
Decoded(buf, scanBound(_, _), dataEnd(_, _)) ==
    LET total == Len(buf)
        soi   == findJPEGheader(buf, 0, total, SOI)
        q0    == findJPEGheader(buf, 0, soi.len, DQT)
        q1    == findJPEGheader(buf, q0.start + SegmentLen(buf, q0.start), q0.len, DQT)
        sos   == findJPEGheader(buf, 0, soi.len, SOS)
        data  == sos.start + SegmentLen(buf, sos.start)
        avail == scanBound(total - data, sos.len - SegmentLen(buf, sos.start))
        mark  == skipScanBytes(buf, data, avail, avail)
        eoi   == findJPEGheader(buf, data + mark.pos, avail - mark.pos, EOI)
    IN IF ~soi.ok \/ ~sos.ok \/ data >= total \/ ~mark.ok \/ ~eoi.ok THEN Refused
       ELSE [ok |-> TRUE, start |-> data, len |-> dataEnd(eoi.start, total) - data,
             q0 |-> IF q0.ok THEN q0.start + 3 ELSE NoTable,
             q1 |-> IF q0.ok THEN q1.start + 3 ELSE NoTable]

\* Mutant: the scan for the end of the image is bounded by *len, which the search
\* for SOI has left two short of the bytes that remain.
DecodeByLen(buf) ==
    Decoded(buf, LAMBDA left, len : len, LAMBDA end, total : end)

\* Mutant: whatever follows the end of the image is sent too.
DecodeToEnd(buf) ==
    Decoded(buf, LAMBDA left, len : left, LAMBDA end, total : total)

\* decodeJPEGfile: the scan is bounded by the bytes that remain of the buffer,
\* and the data end with the EOI marker.
decodeJPEGfile(buf) ==
    Decoded(buf, LAMBDA left, len : left, LAMBDA end, total : end)

-----------------------------------------------------------------------------
(* The files of the OV2640 driver: SOI, perhaps APP0, two quantisation     *)
(* tables or none, frame header, Huffman tables, SOS, the scan, in which   *)
(* each 0xFF is followed by a stuffing 0, and EOI; padding may follow.     *)

Payloads == {s \in Seq(0..255) : Len(s) <= 65533}
Scans == {s \in Seq(0..255) :
             \A i \in 1..Len(s) : s[i] = 255 => i < Len(s) /\ s[i + 1] = 0}

\* The file may be cut off, or broken by a restart marker and a byte lost after it.
Broken(restart, byte) == <<255, restart, byte, 255, EOI>>
Endings == {<<255, EOI>>, <<>>} \cup {Broken(r, b) : r \in 208..215, b \in 0..254}

Images == [app0 : BOOLEAN, tables : BOOLEAN,
           payload : [{"app0", "dqt0", "dqt1", "sof0", "dht", "sos"} -> Payloads],
           scan : Scans, ending : Endings, padding : Seq({0})]

Segment(marker, payload) ==
    <<255, marker, (Len(payload) + 2) \div 256, (Len(payload) + 2) % 256>> \o payload

Optional(present, marker, payload) ==
    IF present THEN Segment(marker, payload) ELSE <<>>

Start(img) == <<255, SOI>> \o Optional(img.app0, 224, img.payload["app0"])
Header(img) ==
    Start(img)
        \o Optional(img.tables, DQT, img.payload["dqt0"])
        \o Optional(img.tables, DQT, img.payload["dqt1"])
        \o Segment(192, img.payload["sof0"]) \o Segment(196, img.payload["dht"])
        \o Segment(SOS, img.payload["sos"])

\* What a reader of the file finds in it: where the scan starts, how long it is
\* with its EOI, and where the two tables begin.
JpegOf(img) ==
    [bytes |-> Header(img) \o img.scan \o img.ending \o img.padding,
     whole |-> img.ending = <<255, EOI>>,
     start |-> Len(Header(img)), len |-> Len(img.scan) + 2,
     q0 |-> IF img.tables THEN Len(Start(img)) + 5 ELSE NoTable,
     q1 |-> IF img.tables THEN Len(Start(img)) + Len(img.payload["dqt0"]) + 9
            ELSE NoTable]
=============================================================================
