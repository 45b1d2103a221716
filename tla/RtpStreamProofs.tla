--------------------------- MODULE RtpStreamProofs ---------------------------
(***************************************************************************)
(* For every set of the driver's files, packet size and width of the       *)
(* counters: the decoder finds exactly what is in a file, the packets of a *)
(* frame put together are its data, and a session's packets are numbered   *)
(* without a gap.                                                          *)
(***************************************************************************)
EXTENDS RtpStream, WellFoundedInduction, TLAPS

-----------------------------------------------------------------------------
(* The searches of decodeJPEGfile in any buffer.                           *)

Byte == 0..255

\* A set that has 0 and, with a number, the next one, has them all.
LEMMA SetInduction ==
    ASSUME NEW S, 0 \in S, \A n \in Nat : n \in S => n + 1 \in S
    PROVE  Nat \subseteq S
  <1> DEFINE R == OpToRel(<, Nat)
             T == Nat \ S
  <1>1. IsWellFoundedOn(R, Nat)
    BY NatLessThanWellFounded
  <1> SUFFICES ASSUME T # {} PROVE FALSE
    OBVIOUS
  <1>2. \E x \in T : \A y \in T : ~(<<y, x>> \in R)
    <2> HIDE DEF R
    <2>1. T \subseteq Nat
      OBVIOUS
    <2> HIDE DEF T
    <2> QED
      BY <1>1, <2>1, WFMin
  <1>3. PICK x \in T : \A y \in T : ~(y < x)
    BY <1>2 DEF OpToRel
  <1>4. x - 1 \in Nat /\ x - 1 < x
    <2>1. x # 0
      OBVIOUS
    <2> QED
      BY <2>1
  <1>5. x - 1 \in S
    BY <1>3, <1>4
  <1> QED
    BY <1>4, <1>5

LEMMA ByteRead ==
    ASSUME NEW buf \in Seq(Byte), NEW p \in Nat
    PROVE  ByteAt(buf, p) \in Byte /\ SegmentLen(buf, p) \in Nat
  <1>1. ASSUME NEW q \in Nat PROVE ByteAt(buf, q) \in Byte
    <2>1. Beyond \in Byte
      BY BeyondAssumption DEF Byte
    <2>2. q < Len(buf) => buf[q + 1] \in Byte
      OBVIOUS
    <2> QED
      BY <2>1, <2>2 DEF ByteAt
  <1>2. \A a, b \in Byte : a * 256 + b \in Nat
    BY SMTT(60) DEF Byte
  <1>3. ByteAt(buf, p) \in Byte /\ ByteAt(buf, p + 1) \in Byte
    BY <1>1
  <1> QED
    BY <1>2, <1>3 DEF SegmentLen

\* What findJPEGheader does at position p, given what it finds from later ones.
Lost(start, len) == [ok |-> FALSE, start |-> start, len |-> len]

Step(buf, start, len, marker, from, p) ==
    LET lost == [ok |-> FALSE, start |-> start, len |-> len]
        body == p + 2
    IN IF p - start >= len \/ ByteAt(buf, p) # 255 THEN lost
       ELSE IF ByteAt(buf, p + 1) = marker
            THEN [ok |-> TRUE, start |-> body, len |-> len - (body - start)]
       ELSE IF ByteAt(buf, p + 1) \notin Sections THEN from[body]
       ELSE IF body + 1 >= start + len
               \/ body + SegmentLen(buf, body) > start + len THEN lost
       ELSE from[body + SegmentLen(buf, body)]

Search(buf, start, len, marker, from) ==
    from = [p \in start..(start + len + 1) |-> Step(buf, start, len, marker, from, p)]

Walk(buf, start, len, marker) ==
    CHOOSE from : Search(buf, start, len, marker, from)

LEMMA HeaderIsWalk ==
    ASSUME NEW buf, NEW start, NEW len, NEW marker
    PROVE  findJPEGheader(buf, start, len, marker) = Walk(buf, start, len, marker)[start]
  BY Zenon DEF findJPEGheader, Step, Search, Walk

\* A step looks only further on in the buffer.
LEMMA StepIsLocal ==
    ASSUME NEW buf \in Seq(Byte), NEW start \in Nat, NEW len \in Nat, NEW marker,
           NEW p \in start..(start + len + 1), NEW f, NEW g,
           \A q \in start..(start + len + 1) : q > p => f[q] = g[q]
    PROVE  Step(buf, start, len, marker, f, p) = Step(buf, start, len, marker, g, p)
  <1>1. CASE p - start >= len
    BY <1>1 DEF Step
  <1>2. CASE p - start < len
    <2>1. p \in Nat /\ p + 2 \in start..(start + len + 1) /\ p + 2 > p /\ p + 2 \in Nat
      BY <1>2
    <2>2. f[p + 2] = g[p + 2]
      BY <2>1
    <2>3. SegmentLen(buf, p + 2) \in Nat
      BY <2>1, ByteRead
    <2>4. ~(p + 2 + SegmentLen(buf, p + 2) > start + len) =>
             f[p + 2 + SegmentLen(buf, p + 2)] = g[p + 2 + SegmentLen(buf, p + 2)]
      <3> DEFINE q == p + 2 + SegmentLen(buf, p + 2)
      <3>1. ~(q > start + len) => q \in start..(start + len + 1) /\ q > p
        BY <2>1, <2>3, SMTT(60)
      <3> QED
        BY <3>1
    <2> QED
      BY <2>2, <2>4 DEF Step
  <1> QED
    BY <1>1, <1>2

\* The search is defined for every buffer, also where it leaves it.
LEMMA SearchIsDefined ==
    ASSUME NEW buf \in Seq(Byte), NEW start \in Nat, NEW len \in Nat, NEW marker
    PROVE  Search(buf, start, len, marker, Walk(buf, start, len, marker))
  <1> DEFINE end == start + len + 1
             Dom == start..end
             St(f, p) == Step(buf, start, len, marker, f, p)
             Partial(n, f) == f = [p \in Dom |-> IF p + n > end THEN St(f, p) ELSE 0]
             S == {n \in Nat : \E f : Partial(n, f)}
  <1>1. 0 \in S
    <2> DEFINE f == [p \in Dom |-> 0]
    <2>1. \A p \in Dom : ~(p + 0 > end)
      OBVIOUS
    <2> HIDE DEF St
    <2>2. Partial(0, f)
      BY <2>1
    <2> QED
      BY <2>2
  <1>2. ASSUME NEW n \in Nat, n \in S PROVE n + 1 \in S
    <2>1. PICK f : Partial(n, f)
      BY <1>2
    <2> DEFINE g == [p \in Dom |-> IF p + (n + 1) > end THEN St(f, p) ELSE 0]
    <2>2. ASSUME NEW p \in Dom, p + (n + 1) > end PROVE St(f, p) = St(g, p)
      <3>1. ASSUME NEW q \in Dom, q > p PROVE f[q] = g[q]
        <4>1. q + n > end /\ q + (n + 1) > end
          BY <2>2, <3>1
        <4> HIDE DEF St
        <4>2. f[q] = St(f, q)
          BY <2>1, <4>1
        <4>3. g[q] = St(f, q)
          BY <4>1
        <4> QED
          BY <4>2, <4>3
      <3> HIDE DEF g
      <3> QED
        BY <3>1, StepIsLocal
    <2>3. Partial(n + 1, g)
      <3> HIDE DEF St
      <3>1. \A p \in Dom : (IF p + (n + 1) > end THEN St(f, p) ELSE 0)
                             = (IF p + (n + 1) > end THEN St(g, p) ELSE 0)
        BY <2>2
      <3> QED
        BY <3>1
    <2>4. \E h : Partial(n + 1, h)
      BY <2>3
    <2> HIDE DEF Partial
    <2> QED
      BY <2>4
  <1>3. end + 1 \in S
    <2>1. end + 1 \in Nat
      OBVIOUS
    <2> HIDE DEF S, end
    <2> QED
      BY <1>1, <1>2, <2>1, SetInduction
  <1>4. PICK f : Partial(end + 1, f)
    BY <1>3
  <1>5. Search(buf, start, len, marker, f)
    <2>1. \A p \in Dom : p + (end + 1) > end
      OBVIOUS
    <2> HIDE DEF St
    <2>2. f = [p \in Dom |-> St(f, p)]
      BY <1>4, <2>1
    <2> QED
      BY <2>2 DEF St, Search
  <1> QED
    BY <1>5, Zenon DEF Walk

\* Rules for the search from a position.
LEMMA WalkSteps ==
    ASSUME NEW buf \in Seq(Byte), NEW start \in Nat, NEW len \in Nat, NEW marker,
           NEW p \in start..(start + len + 1)
    PROVE  Walk(buf, start, len, marker)[p]
             = Step(buf, start, len, marker, Walk(buf, start, len, marker), p)
  BY SearchIsDefined DEF Search

LEMMA WalkFinds ==
    ASSUME NEW buf \in Seq(Byte), NEW start \in Nat, NEW len \in Nat, NEW marker,
           NEW p \in start..(start + len + 1), p - start < len,
           ByteAt(buf, p) = 255, ByteAt(buf, p + 1) = marker
    PROVE  Walk(buf, start, len, marker)[p]
             = [ok |-> TRUE, start |-> p + 2, len |-> len - (p + 2 - start)]
  <1>1. ~(p - start >= len)
    OBVIOUS
  <1>2. Walk(buf, start, len, marker)[p]
          = Step(buf, start, len, marker, Walk(buf, start, len, marker), p)
    BY WalkSteps
  <1> QED
    BY <1>1, <1>2 DEF Step

LEMMA WalkFindsAtOnce ==
    ASSUME NEW buf \in Seq(Byte), NEW start \in Nat, NEW len \in Nat, NEW marker, 0 < len,
           ByteAt(buf, start) = 255, ByteAt(buf, start + 1) = marker
    PROVE  Walk(buf, start, len, marker)[start]
             = [ok |-> TRUE, start |-> start + 2, len |-> len - 2]
  <1>1. start \in start..(start + len + 1) /\ start - start < len
    OBVIOUS
  <1>2. len - (start + 2 - start) = len - 2
    OBVIOUS
  <1>3. Walk(buf, start, len, marker)[start]
          = [ok |-> TRUE, start |-> start + 2, len |-> len - (start + 2 - start)]
    BY <1>1, WalkFinds
  <1> QED
    BY <1>2, <1>3

LEMMA WalkLost ==
    ASSUME NEW buf \in Seq(Byte), NEW start \in Nat, NEW len \in Nat, NEW marker,
           NEW p \in start..(start + len + 1), p - start >= len \/ ByteAt(buf, p) # 255
    PROVE  Walk(buf, start, len, marker)[p] = Lost(start, len)
  <1>1. Walk(buf, start, len, marker)[p]
          = Step(buf, start, len, marker, Walk(buf, start, len, marker), p)
    BY WalkSteps
  <1> QED
    BY <1>1 DEF Step, Lost

LEMMA WalkPasses ==
    ASSUME NEW buf \in Seq(Byte), NEW start \in Nat, NEW len \in Nat, NEW marker,
           NEW p \in start..(start + len + 1), p - start < len,
           ByteAt(buf, p) = 255, ByteAt(buf, p + 1) \notin Sections \cup {marker}
    PROVE  Walk(buf, start, len, marker)[p] = Walk(buf, start, len, marker)[p + 2]
  <1>1. ~(p - start >= len)
    OBVIOUS
  <1>2. Walk(buf, start, len, marker)[p]
          = Step(buf, start, len, marker, Walk(buf, start, len, marker), p)
    BY WalkSteps
  <1> QED
    BY <1>1, <1>2 DEF Step

\* A segment of n bytes after its marker stands at p.
SegmentAt(buf, p, marker, n) ==
    ByteAt(buf, p) = 255 /\ ByteAt(buf, p + 1) = marker /\ SegmentLen(buf, p + 2) = n

LEMMA WalkSkips ==
    ASSUME NEW buf \in Seq(Byte), NEW start \in Nat, NEW len \in Nat, NEW marker,
           NEW p \in start..(start + len + 1), NEW n \in Nat \ {0, 1},
           NEW type \in Sections \ {marker},
           SegmentAt(buf, p, type, n), p + 2 + n <= start + len
    PROVE  Walk(buf, start, len, marker)[p] = Walk(buf, start, len, marker)[p + 2 + n]
  <1>1. ~(p - start >= len) /\ ~(p + 2 + 1 >= start + len) /\ ~(p + 2 + n > start + len)
    OBVIOUS
  <1>2. /\ ByteAt(buf, p) = 255 /\ ByteAt(buf, p + 1) = type /\ SegmentLen(buf, p + 2) = n
        /\ type # marker /\ type \in Sections
    BY DEF SegmentAt
  <1>3. Walk(buf, start, len, marker)[p]
          = Step(buf, start, len, marker, Walk(buf, start, len, marker), p)
    BY WalkSteps
  <1> QED
    BY <1>1, <1>2, <1>3 DEF Step

\* Where no marker but those that are passed over follows a 0xff, the search is lost.
LEMMA WalkFindsNothing ==
    ASSUME NEW buf \in Seq(Byte), NEW start \in Nat, NEW len \in Nat, NEW marker,
           NEW from \in start..(start + len + 1),
           \A p \in from..(start + len - 1) :
              ByteAt(buf, p) = 255 => ByteAt(buf, p + 1) \notin Sections \cup {marker}
    PROVE  Walk(buf, start, len, marker)[from] = Lost(start, len)
  <1> DEFINE end == start + len + 1
             W == Walk(buf, start, len, marker)
             S == {n \in Nat : \A p \in from..end : p + n > end => W[p] = Lost(start, len)}
  <1>1. 0 \in S
    OBVIOUS
  <1>2. ASSUME NEW n \in Nat, n \in S PROVE n + 1 \in S
    <2> SUFFICES ASSUME NEW p \in from..end, p + (n + 1) > end PROVE W[p] = Lost(start, len)
      OBVIOUS
    <2>1. p \in start..end
      OBVIOUS
    <2>2. CASE p - start >= len \/ ByteAt(buf, p) # 255
      BY <2>1, <2>2, WalkLost
    <2>3. CASE p - start < len /\ ByteAt(buf, p) = 255
      <3>1. p + 2 \in from..end /\ p + 2 + n > end /\ p \in from..(start + len - 1)
        BY <2>3
      <3>2. W[p + 2] = Lost(start, len)
        BY <1>2, <3>1
      <3>3. W[p] = W[p + 2]
        BY <2>1, <2>3, <3>1, WalkPasses
      <3> QED
        BY <3>2, <3>3
    <2> QED
      BY <2>2, <2>3
  <1>3. end + 1 \in S
    <2>1. end + 1 \in Nat
      OBVIOUS
    <2> HIDE DEF S, end
    <2> QED
      BY <1>1, <1>2, <2>1, SetInduction
  <1> QED
    BY <1>3

\* The stages of decodeJPEGfile.
Soi(buf)   == findJPEGheader(buf, 0, Len(buf), SOI)
Q0(buf)    == findJPEGheader(buf, 0, Soi(buf).len, DQT)
Q1(buf)    == findJPEGheader(buf, Q0(buf).start + SegmentLen(buf, Q0(buf).start),
                             Q0(buf).len, DQT)
Sos(buf)   == findJPEGheader(buf, 0, Soi(buf).len, SOS)
Data(buf)  == Sos(buf).start + SegmentLen(buf, Sos(buf).start)
Avail(buf) == Len(buf) - Data(buf)
Mark(buf)  == skipScanBytes(buf, Data(buf), Avail(buf), Avail(buf))
Eoi(buf)   == findJPEGheader(buf, Data(buf) + Mark(buf).pos, Avail(buf) - Mark(buf).pos, EOI)

LEMMA DecodeStages ==
    ASSUME NEW buf
    PROVE  decodeJPEGfile(buf)
             = IF \/ ~Soi(buf).ok \/ ~Sos(buf).ok \/ Data(buf) >= Len(buf)
                  \/ ~Mark(buf).ok \/ ~Eoi(buf).ok
               THEN Refused
               ELSE [ok |-> TRUE, start |-> Data(buf), len |-> Eoi(buf).start - Data(buf),
                     q0 |-> IF Q0(buf).ok THEN Q0(buf).start + 3 ELSE NoTable,
                     q1 |-> IF Q0(buf).ok THEN Q1(buf).start + 3 ELSE NoTable]
  BY Zenon DEF decodeJPEGfile, Decoded, Soi, Q0, Q1, Sos, Data, Avail, Mark, Eoi


-----------------------------------------------------------------------------
(* The driver's files.                                                     *)

Bytes == Seq(Byte)

\* Buffer u is s and then t.
Joined(u, s, t) ==
    /\ u \in Bytes /\ Len(u) = Len(s) + Len(t)
    /\ Len(s) \in Nat /\ Len(t) \in Nat
    /\ \A p \in Nat : p < Len(s) => ByteAt(u, p) = ByteAt(s, p)
    /\ \A p \in Nat : p < Len(t) => ByteAt(u, Len(s) + p) = ByteAt(t, p)

LEMMA JoinedBytes ==
    ASSUME NEW s \in Bytes, NEW t \in Bytes
    PROVE  Joined(s \o t, s, t)
  <1> DEFINE u == s \o t
  <1>1. /\ u \in Bytes /\ Len(u) = Len(s) + Len(t)
        /\ Len(s) \in Nat /\ Len(t) \in Nat
        /\ \A i \in 1..Len(s) : u[i] = s[i]
        /\ \A i \in 1..Len(t) : u[Len(s) + i] = t[i]
    BY DEF Bytes
  <1> HIDE DEF u
  <1>2. ASSUME NEW p \in Nat, p < Len(s) PROVE ByteAt(u, p) = ByteAt(s, p)
    <2>1. p + 1 \in 1..Len(s) /\ p < Len(u)
      BY <1>1, <1>2
    <2> QED
      BY <1>1, <1>2, <2>1 DEF ByteAt
  <1>3. ASSUME NEW p \in Nat, p < Len(t) PROVE ByteAt(u, Len(s) + p) = ByteAt(t, p)
    <2>1. p + 1 \in 1..Len(t) /\ Len(s) + p < Len(u) /\ (Len(s) + p) + 1 = Len(s) + (p + 1)
      BY <1>1, <1>3
    <2> QED
      BY <1>1, <1>3, <2>1 DEF ByteAt
  <1> QED
    BY <1>1, <1>2, <1>3 DEF Joined, u

LEMMA TwoBytes ==
    ASSUME NEW n \in Nat, n <= 65535
    PROVE  n \div 256 \in Byte /\ n % 256 \in Byte /\ ((n \div 256) * 256) + (n % 256) = n
  <1>1. n \div 256 \in Nat /\ n \div 256 <= 255
    OBVIOUS
  <1>2. n % 256 \in 0..255
    OBVIOUS
  <1>3. ((n \div 256) * 256) + (n % 256) = n
    OBVIOUS
  <1>4. n \div 256 \in 0..255
    BY <1>1
  <1> QED
    BY <1>2, <1>3, <1>4 DEF Byte

LEMMA FourBytes ==
    ASSUME NEW a \in Byte, NEW b \in Byte, NEW c \in Byte, NEW d \in Byte
    PROVE  /\ <<a, b, c, d>> \in Bytes /\ Len(<<a, b, c, d>>) = 4
           /\ ByteAt(<<a, b, c, d>>, 0) = a /\ ByteAt(<<a, b, c, d>>, 1) = b
           /\ ByteAt(<<a, b, c, d>>, 2) = c /\ ByteAt(<<a, b, c, d>>, 3) = d
  <1>1. <<a, b, c, d>> \in Bytes /\ Len(<<a, b, c, d>>) = 4
    BY DEF Bytes
  <1>2. /\ 0 < 4 /\ 1 < 4 /\ 2 < 4 /\ 3 < 4
        /\ 0 + 1 = 1 /\ 1 + 1 = 2 /\ 2 + 1 = 3 /\ 3 + 1 = 4
    OBVIOUS
  <1> QED
    BY <1>1, <1>2 DEF ByteAt

LEMMA SegmentBytes ==
    ASSUME NEW type \in Byte, NEW payload \in Payloads
    PROVE  /\ Segment(type, payload) \in Bytes
           /\ Len(Segment(type, payload)) = Len(payload) + 4
           /\ Len(payload) \in Nat
           /\ SegmentAt(Segment(type, payload), 0, type, Len(payload) + 2)
  <1>1. payload \in Bytes /\ Len(payload) \in Nat /\ Len(payload) <= 65533
    BY DEF Payloads, Bytes, Byte
  <1>2. PICK n \in Nat : n = Len(payload) + 2 /\ n <= 65535
    BY <1>1
  <1>3. PICK c, d \in Byte : c = n \div 256 /\ d = n % 256 /\ (c * 256) + d = n
    BY <1>2, TwoBytes
  <1>4. PICK h : h = <<255, type, c, d>>
    OBVIOUS
  <1>5. Segment(type, payload) = h \o payload
    BY <1>2, <1>3, <1>4 DEF Segment
  <1>6. 255 \in Byte
    BY DEF Byte
  <1>7. /\ h \in Bytes /\ Len(h) = 4
        /\ ByteAt(h, 0) = 255 /\ ByteAt(h, 1) = type /\ ByteAt(h, 2) = c /\ ByteAt(h, 3) = d
    BY <1>4, <1>6, FourBytes
  <1>8. /\ h \o payload \in Bytes /\ Len(h \o payload) = Len(payload) + 4
        /\ \A p \in Nat : p < 4 => ByteAt(h \o payload, p) = ByteAt(h, p)
    <2>1. h \in Bytes /\ payload \in Bytes /\ Len(h) = 4
      BY <1>1, <1>7
    <2>2. Joined(h \o payload, h, payload)
      BY <2>1, JoinedBytes
    <2> QED
      BY <2>1, <2>2 DEF Joined
  <1>9. /\ ByteAt(h \o payload, 0) = 255 /\ ByteAt(h \o payload, 0 + 1) = type
        /\ ByteAt(h \o payload, 0 + 2) = c /\ ByteAt(h \o payload, 0 + 2 + 1) = d
    BY <1>7, <1>8
  <1>10. SegmentAt(h \o payload, 0, type, n)
    BY <1>3, <1>9 DEF SegmentAt, SegmentLen
  <1> QED
    BY <1>1, <1>2, <1>5, <1>8, <1>10

\* Buffer t goes on where s ends.
Extends(t, s) ==
    Len(t) >= Len(s) /\ \A p \in Nat : p < Len(s) => ByteAt(t, p) = ByteAt(s, p)

LEMMA SegmentKept ==
    ASSUME NEW s \in Bytes, NEW t, NEW p \in Nat, NEW type, NEW n,
           Extends(t, s), SegmentAt(s, p, type, n), p + 4 <= Len(s)
    PROVE  SegmentAt(t, p, type, n)
  <1>1. p < Len(s) /\ p + 1 < Len(s) /\ p + 2 < Len(s) /\ p + 2 + 1 < Len(s)
    BY DEF Bytes
  <1>2. /\ ByteAt(t, p) = ByteAt(s, p) /\ ByteAt(t, p + 1) = ByteAt(s, p + 1)
        /\ ByteAt(t, p + 2) = ByteAt(s, p + 2)
        /\ ByteAt(t, p + 2 + 1) = ByteAt(s, p + 2 + 1)
    BY <1>1 DEF Extends
  <1> QED
    BY <1>2 DEF SegmentAt, SegmentLen

\* Buffer t is s and a segment, perhaps.
Added(t, s, present, type, payload) ==
    /\ t \in Bytes /\ Extends(t, s)
    /\ present => /\ Len(t) = Len(s) + (Len(payload) + 4)
                  /\ SegmentAt(t, Len(s), type, Len(payload) + 2)
    /\ ~present => Len(t) = Len(s)

LEMMA SegmentAdded ==
    ASSUME NEW s \in Bytes, NEW type \in Byte, NEW payload \in Payloads,
           NEW t, t = s \o Segment(type, payload)
    PROVE  Added(t, s, TRUE, type, payload)
  <1>1. PICK g \in Bytes : /\ g = Segment(type, payload) /\ Len(g) = Len(payload) + 4
                           /\ Len(payload) \in Nat
                           /\ SegmentAt(g, 0, type, Len(payload) + 2)
    BY SegmentBytes
  <1>2. t = s \o g /\ Len(s) \in Nat
    BY <1>1 DEF Bytes
  <1>3. /\ t \in Bytes /\ Len(t) = Len(s) + Len(g)
        /\ \A p \in Nat : p < Len(s) => ByteAt(t, p) = ByteAt(s, p)
        /\ \A p \in Nat : p < Len(g) => ByteAt(t, Len(s) + p) = ByteAt(g, p)
    <2>1. Joined(t, s, g)
      BY <1>2, JoinedBytes
    <2> QED
      BY <2>1 DEF Joined
  <1>4. /\ ByteAt(t, Len(s)) = ByteAt(g, 0) /\ ByteAt(t, Len(s) + 1) = ByteAt(g, 0 + 1)
        /\ ByteAt(t, Len(s) + 2) = ByteAt(g, 0 + 2)
        /\ ByteAt(t, Len(s) + 2 + 1) = ByteAt(g, 0 + 2 + 1)
    <2>1. /\ 0 < Len(g) /\ 1 < Len(g) /\ 2 < Len(g) /\ 3 < Len(g)
          /\ Len(s) + 0 = Len(s) /\ Len(s) + 3 = Len(s) + 2 + 1
      BY <1>1, <1>2
    <2> QED
      BY <1>3, <2>1
  <1>5. SegmentAt(t, Len(s), type, Len(payload) + 2)
    BY <1>1, <1>4 DEF SegmentAt, SegmentLen
  <1>6. Extends(t, s)
    BY <1>1, <1>2, <1>3 DEF Extends
  <1> QED
    BY <1>1, <1>3, <1>5, <1>6 DEF Added

LEMMA OptionalAdded ==
    ASSUME NEW s \in Bytes, NEW type \in Byte, NEW payload \in Payloads,
           NEW present \in BOOLEAN, NEW t, t = s \o Optional(present, type, payload)
    PROVE  Added(t, s, present, type, payload)
  <1>1. CASE present
    <2>1. t = s \o Segment(type, payload) /\ present = TRUE
      BY <1>1 DEF Optional
    <2>2. Added(t, s, TRUE, type, payload)
      BY <2>1, SegmentAdded
    <2> QED
      BY <2>1, <2>2
  <1>2. CASE ~present
    <2>1. t = s /\ Len(s) \in Nat
      BY <1>2 DEF Optional, Bytes
    <2> QED
      BY <1>2, <2>1 DEF Extends, Added
  <1> QED
    BY <1>1, <1>2

\* Where the segments of a file stand.
Size(img, name) == Len(img.payload[name]) + 4
AtDqt0(img) == 2 + IF img.app0 THEN Size(img, "app0") ELSE 0
AtDqt1(img) == AtDqt0(img) + IF img.tables THEN Size(img, "dqt0") ELSE 0
AtSof(img)  == AtDqt1(img) + IF img.tables THEN Size(img, "dqt1") ELSE 0
AtDht(img)  == AtSof(img) + Size(img, "sof0")
AtSos(img)  == AtDht(img) + Size(img, "dht")
AtScan(img) == AtSos(img) + Size(img, "sos")

Layout(buf, img) ==
    /\ ByteAt(buf, 0) = 255 /\ ByteAt(buf, 1) = SOI
    /\ img.app0 => SegmentAt(buf, 2, 224, Size(img, "app0") - 2)
    /\ img.tables => /\ SegmentAt(buf, AtDqt0(img), DQT, Size(img, "dqt0") - 2)
                       /\ SegmentAt(buf, AtDqt1(img), DQT, Size(img, "dqt1") - 2)
    /\ SegmentAt(buf, AtSof(img), 192, Size(img, "sof0") - 2)
    /\ SegmentAt(buf, AtDht(img), 196, Size(img, "dht") - 2)
    /\ SegmentAt(buf, AtSos(img), SOS, Size(img, "sos") - 2)

LEMMA Positions ==
    ASSUME NEW img \in Images
    PROVE  /\ \A name \in {"app0", "dqt0", "dqt1", "sof0", "dht", "sos"} :
                 /\ img.payload[name] \in Payloads
                 /\ Size(img, name) \in Nat /\ Size(img, name) >= 4
                 /\ Size(img, name) - 2 = Len(img.payload[name]) + 2
           /\ AtDqt0(img) \in Nat /\ AtDqt0(img) >= 2
           /\ img.app0 => AtDqt0(img) = 2 + Size(img, "app0")
           /\ ~img.app0 => AtDqt0(img) = 2
           /\ AtDqt1(img) \in Nat /\ AtDqt1(img) >= AtDqt0(img)
           /\ img.tables => AtDqt1(img) = AtDqt0(img) + Size(img, "dqt0")
           /\ ~img.tables => AtDqt1(img) = AtDqt0(img)
           /\ AtSof(img) \in Nat /\ AtSof(img) >= AtDqt1(img)
           /\ img.tables => AtSof(img) = AtDqt1(img) + Size(img, "dqt1")
           /\ ~img.tables => AtSof(img) = AtDqt1(img)
           /\ AtDht(img) \in Nat /\ AtDht(img) = AtSof(img) + Size(img, "sof0")
           /\ AtSos(img) \in Nat /\ AtSos(img) = AtDht(img) + Size(img, "dht")
           /\ AtScan(img) \in Nat /\ AtScan(img) = AtSos(img) + Size(img, "sos")
  <1>1. /\ img.app0 \in BOOLEAN /\ img.tables \in BOOLEAN
        /\ \A name \in {"app0", "dqt0", "dqt1", "sof0", "dht", "sos"} :
              img.payload[name] \in Payloads
    BY DEF Images
  <1>2. \A payload \in Payloads : Len(payload) \in Nat
    BY DEF Payloads
  <1>3. \A name \in {"app0", "dqt0", "dqt1", "sof0", "dht", "sos"} :
           /\ Size(img, name) \in Nat /\ Size(img, name) >= 4
           /\ Size(img, name) - 2 = Len(img.payload[name]) + 2
    BY <1>1, <1>2 DEF Size
  <1>a. Size(img, "app0") \in Nat /\ Size(img, "app0") >= 4
    BY <1>3
  <1>b. Size(img, "dqt0") \in Nat /\ Size(img, "dqt0") >= 4
    BY <1>3
  <1>c. Size(img, "dqt1") \in Nat /\ Size(img, "dqt1") >= 4
    BY <1>3
  <1>d. Size(img, "sof0") \in Nat /\ Size(img, "dht") \in Nat /\ Size(img, "sos") \in Nat
    BY <1>3
  <1>4. /\ AtDqt0(img) \in Nat /\ AtDqt0(img) >= 2
        /\ img.app0 => AtDqt0(img) = 2 + Size(img, "app0")
        /\ ~img.app0 => AtDqt0(img) = 2
    <2>1. img.app0 => AtDqt0(img) = 2 + Size(img, "app0")
      BY DEF AtDqt0
    <2>2. ~img.app0 => AtDqt0(img) = 2 + 0
      BY DEF AtDqt0
    <2> QED
      BY <1>a, <2>1, <2>2
  <1>5. /\ AtDqt1(img) \in Nat /\ AtDqt1(img) >= AtDqt0(img)
        /\ img.tables => AtDqt1(img) = AtDqt0(img) + Size(img, "dqt0")
        /\ ~img.tables => AtDqt1(img) = AtDqt0(img)
    <2>1. img.tables => AtDqt1(img) = AtDqt0(img) + Size(img, "dqt0")
      BY DEF AtDqt1
    <2>2. ~img.tables => AtDqt1(img) = AtDqt0(img) + 0
      BY DEF AtDqt1
    <2> QED
      BY <1>b, <1>4, <2>1, <2>2
  <1>6. /\ AtSof(img) \in Nat /\ AtSof(img) >= AtDqt1(img)
        /\ img.tables => AtSof(img) = AtDqt1(img) + Size(img, "dqt1")
        /\ ~img.tables => AtSof(img) = AtDqt1(img)
    <2>1. img.tables => AtSof(img) = AtDqt1(img) + Size(img, "dqt1")
      BY DEF AtSof
    <2>2. ~img.tables => AtSof(img) = AtDqt1(img) + 0
      BY DEF AtSof
    <2> QED
      BY <1>c, <1>5, <2>1, <2>2
  <1>7. /\ AtDht(img) \in Nat /\ AtDht(img) = AtSof(img) + Size(img, "sof0")
        /\ AtSos(img) \in Nat /\ AtSos(img) = AtDht(img) + Size(img, "dht")
        /\ AtScan(img) \in Nat /\ AtScan(img) = AtSos(img) + Size(img, "sos")
    BY <1>d, <1>6 DEF AtDht, AtSos, AtScan
  <1> QED
    BY <1>1, <1>3, <1>4, <1>5, <1>6, <1>7

LEMMA ExtendsTransitive ==
    ASSUME NEW s \in Bytes, NEW t \in Bytes, NEW u \in Bytes, Extends(t, s), Extends(u, t)
    PROVE  Extends(u, s)
  <1>1. Len(s) \in Nat /\ Len(t) \in Nat /\ Len(u) \in Nat
    BY DEF Bytes
  <1> QED
    BY <1>1 DEF Extends

\* A buffer that goes on where the header ends has the header's segments.
LEMMA LayoutKept ==
    ASSUME NEW img \in Images, NEW s \in Bytes, NEW t, Extends(t, s),
           Layout(s, img), Len(s) >= AtScan(img)
    PROVE  Layout(t, img)
  <1>1. Len(s) \in Nat
    BY DEF Bytes
  <1>2. ASSUME NEW p \in Nat, NEW type, NEW n, SegmentAt(s, p, type, n), p + 4 <= Len(s)
        PROVE  SegmentAt(t, p, type, n)
    BY <1>2, SegmentKept
  <1>3. /\ Size(img, "app0") \in Nat /\ Size(img, "app0") >= 4
        /\ Size(img, "dqt0") \in Nat /\ Size(img, "dqt0") >= 4
        /\ Size(img, "dqt1") \in Nat /\ Size(img, "dqt1") >= 4
        /\ Size(img, "sof0") \in Nat /\ Size(img, "sof0") >= 4
        /\ Size(img, "dht") \in Nat /\ Size(img, "dht") >= 4
        /\ Size(img, "sos") \in Nat /\ Size(img, "sos") >= 4
    BY Positions
  <1>4. /\ AtDqt0(img) \in Nat /\ AtDqt1(img) \in Nat /\ AtSof(img) \in Nat
        /\ AtDht(img) \in Nat /\ AtSos(img) \in Nat
        /\ AtDqt0(img) >= 2 /\ AtDqt1(img) >= AtDqt0(img)
        /\ AtSof(img) >= AtDqt1(img)
        /\ img.app0 => AtDqt0(img) = 2 + Size(img, "app0")
        /\ AtDht(img) = AtSof(img) + Size(img, "sof0")
        /\ AtSos(img) = AtDht(img) + Size(img, "dht")
        /\ AtScan(img) = AtSos(img) + Size(img, "sos")
    BY Positions
  <1>5. /\ 0 < Len(s) /\ 1 < Len(s)
        /\ img.app0 => 2 + 4 <= Len(s)
        /\ AtDqt0(img) + 4 <= Len(s) /\ AtDqt1(img) + 4 <= Len(s)
        /\ AtSof(img) + 4 <= Len(s) /\ AtDht(img) + 4 <= Len(s)
        /\ AtSos(img) + 4 <= Len(s)
    <2>1. AtSos(img) + 4 <= Len(s)
      <3>1. /\ AtSos(img) \in Nat /\ Size(img, "sos") \in Nat /\ Size(img, "sos") >= 4
            /\ AtScan(img) = AtSos(img) + Size(img, "sos")
        BY <1>3, <1>4
      <3> QED
        BY <1>1, <3>1
    <2>2. AtDht(img) + 4 <= Len(s)
      <3>1. /\ AtDht(img) \in Nat /\ Size(img, "dht") \in Nat /\ Size(img, "dht") >= 4
            /\ AtSos(img) = AtDht(img) + Size(img, "dht")
        BY <1>3, <1>4
      <3> QED
        BY <1>1, <2>1, <3>1
    <2>3. AtSof(img) + 4 <= Len(s)
      <3>1. /\ AtSof(img) \in Nat /\ Size(img, "sof0") \in Nat /\ Size(img, "sof0") >= 4
            /\ AtDht(img) = AtSof(img) + Size(img, "sof0")
        BY <1>3, <1>4
      <3> QED
        BY <1>1, <2>2, <3>1
    <2>4. AtDqt1(img) + 4 <= Len(s) /\ AtDqt0(img) + 4 <= Len(s)
      <3>1. /\ AtDqt0(img) \in Nat /\ AtDqt1(img) \in Nat /\ AtSof(img) \in Nat
            /\ AtDqt1(img) >= AtDqt0(img) /\ AtSof(img) >= AtDqt1(img)
        BY <1>4
      <3> QED
        BY <1>1, <2>3, <3>1
    <2>5. 2 + 4 <= Len(s)
      <3>1. AtDqt0(img) \in Nat /\ AtDqt0(img) >= 2
        BY <1>4
      <3> QED
        BY <1>1, <2>4, <3>1
    <2> QED
      BY <1>1, <2>1, <2>2, <2>3, <2>4, <2>5
  <1>6. ByteAt(t, 0) = 255 /\ ByteAt(t, 1) = SOI
    BY <1>5 DEF Extends, Layout
  <1>7. img.app0 => SegmentAt(t, 2, 224, Size(img, "app0") - 2)
    BY <1>2, <1>5 DEF Layout
  <1>8. img.tables => /\ SegmentAt(t, AtDqt0(img), DQT, Size(img, "dqt0") - 2)
                        /\ SegmentAt(t, AtDqt1(img), DQT, Size(img, "dqt1") - 2)
    BY <1>2, <1>4, <1>5, ZenonT(90) DEF Layout
  <1>9. /\ SegmentAt(t, AtSof(img), 192, Size(img, "sof0") - 2)
        /\ SegmentAt(t, AtDht(img), 196, Size(img, "dht") - 2)
        /\ SegmentAt(t, AtSos(img), SOS, Size(img, "sos") - 2)
    BY <1>2, <1>4, <1>5, ZenonT(90) DEF Layout
  <1> QED
    BY <1>6, <1>7, <1>8, <1>9 DEF Layout

LEMMA HeaderLayout ==
    ASSUME NEW img \in Images
    PROVE  /\ Header(img) \in Bytes /\ Len(Header(img)) = AtScan(img)
           /\ Len(Start(img)) = AtDqt0(img)
           /\ Layout(Header(img), img)
  <1>1. /\ img.app0 \in BOOLEAN /\ img.tables \in BOOLEAN
        /\ \A name \in {"app0", "dqt0", "dqt1", "sof0", "dht", "sos"} :
              /\ img.payload[name] \in Payloads
              /\ Len(img.payload[name]) + 4 = Size(img, name)
              /\ Len(img.payload[name]) + 2 = Size(img, name) - 2
    <2>1. img.app0 \in BOOLEAN /\ img.tables \in BOOLEAN
      BY DEF Images
    <2>2. ASSUME NEW name \in {"app0", "dqt0", "dqt1", "sof0", "dht", "sos"}
          PROVE  /\ img.payload[name] \in Payloads
                 /\ Len(img.payload[name]) + 4 = Size(img, name)
                 /\ Len(img.payload[name]) + 2 = Size(img, name) - 2
      BY Positions DEF Size
    <2> QED
      BY <2>1, <2>2
  <1>2. /\ {224, DQT, 192, 196, SOS} \subseteq Byte
        /\ 255 \in Byte /\ SOI \in Byte
    BY DEF Byte, DQT, SOS, SOI
  <1>3. PICK s0 \in Bytes : /\ s0 = <<255, SOI>> /\ Len(s0) = 2
                            /\ ByteAt(s0, 0) = 255 /\ ByteAt(s0, 1) = SOI
    <2>1. <<255, SOI>> \in Bytes /\ Len(<<255, SOI>>) = 2
      BY <1>2 DEF Bytes
    <2> QED
      BY <2>1 DEF ByteAt
  <1>4. \A name \in {"app0", "dqt0", "dqt1", "sof0", "dht", "sos"} :
           \A t, s, present, type :
              Added(t, s, present, type, img.payload[name]) =>
                /\ t \in Bytes /\ Extends(t, s)
                /\ present => /\ Len(t) = Len(s) + Size(img, name)
                              /\ SegmentAt(t, Len(s), type, Size(img, name) - 2)
                /\ ~present => Len(t) = Len(s)
    BY <1>1, ZenonT(90) DEF Added
  <1>5. PICK s1 : s1 = s0 \o Optional(img.app0, 224, img.payload["app0"])
    OBVIOUS
  <1>6. PICK s2 : s2 = s1 \o Optional(img.tables, DQT, img.payload["dqt0"])
    OBVIOUS
  <1>7. PICK s3 : s3 = s2 \o Optional(img.tables, DQT, img.payload["dqt1"])
    OBVIOUS
  <1>8. PICK s4 : s4 = s3 \o Segment(192, img.payload["sof0"])
    OBVIOUS
  <1>9. PICK s5 : s5 = s4 \o Segment(196, img.payload["dht"])
    OBVIOUS
  <1>10. PICK s6 : s6 = s5 \o Segment(SOS, img.payload["sos"])
    OBVIOUS
  <1>11. Start(img) = s1 /\ Header(img) = s6
    BY <1>3, <1>5, <1>6, <1>7, <1>8, <1>9, <1>10, ZenonT(90) DEF Start, Header
  <1>12. /\ s1 \in Bytes /\ Extends(s1, s0) /\ Len(s1) = AtDqt0(img)
         /\ img.app0 => SegmentAt(s1, 2, 224, Size(img, "app0") - 2)
    <2>1. Added(s1, s0, img.app0, 224, img.payload["app0"])
      <3>1. 224 \in Byte /\ img.payload["app0"] \in Payloads /\ img.app0 \in BOOLEAN
        BY <1>1, <1>2
      <3> QED
        BY <1>5, <3>1, OptionalAdded, ZenonT(90)
    <2>2. /\ s1 \in Bytes /\ Extends(s1, s0)
          /\ img.app0 => /\ Len(s1) = 2 + Size(img, "app0")
                           /\ SegmentAt(s1, 2, 224, Size(img, "app0") - 2)
          /\ ~img.app0 => Len(s1) = 2
      <3>1. /\ Len(img.payload["app0"]) + 4 = Size(img, "app0")
            /\ Len(img.payload["app0"]) + 2 = Size(img, "app0") - 2
        BY <1>1
      <3>2. Len(s0) = 2
        BY <1>3
      <3> QED
        BY <2>1, <3>1, <3>2 DEF Added
    <2> QED
      BY <1>1, <2>2, Positions
  <1>13. /\ s2 \in Bytes /\ Extends(s2, s1) /\ Len(s2) = AtDqt1(img)
         /\ img.tables => SegmentAt(s2, AtDqt0(img), DQT, Size(img, "dqt0") - 2)
    <2>1. Added(s2, s1, img.tables, DQT, img.payload["dqt0"])
      <3>1. DQT \in Byte /\ img.payload["dqt0"] \in Payloads /\ img.tables \in BOOLEAN
        BY <1>1, <1>2
      <3> QED
        BY <1>6, <1>12, <3>1, OptionalAdded, Zenon
    <2>2. /\ s2 \in Bytes /\ Extends(s2, s1)
          /\ img.tables => /\ Len(s2) = AtDqt0(img) + Size(img, "dqt0")
                             /\ SegmentAt(s2, AtDqt0(img), DQT, Size(img, "dqt0") - 2)
          /\ ~img.tables => Len(s2) = AtDqt0(img)
      BY <1>4, <1>12, <2>1
    <2> QED
      BY <1>1, <2>2, Positions
  <1>14. /\ s3 \in Bytes /\ Extends(s3, s2) /\ Len(s3) = AtSof(img)
         /\ img.tables => SegmentAt(s3, AtDqt1(img), DQT, Size(img, "dqt1") - 2)
    <2>1. Added(s3, s2, img.tables, DQT, img.payload["dqt1"])
      <3>1. DQT \in Byte /\ img.payload["dqt1"] \in Payloads /\ img.tables \in BOOLEAN
        BY <1>1, <1>2
      <3> QED
        BY <1>7, <1>13, <3>1, OptionalAdded, Zenon
    <2>2. /\ s3 \in Bytes /\ Extends(s3, s2)
          /\ img.tables => /\ Len(s3) = AtDqt1(img) + Size(img, "dqt1")
                             /\ SegmentAt(s3, AtDqt1(img), DQT, Size(img, "dqt1") - 2)
          /\ ~img.tables => Len(s3) = AtDqt1(img)
      BY <1>4, <1>13, <2>1
    <2> QED
      BY <1>1, <2>2, Positions
  <1>15. /\ s4 \in Bytes /\ Extends(s4, s3) /\ Len(s4) = AtDht(img)
         /\ SegmentAt(s4, AtSof(img), 192, Size(img, "sof0") - 2)
    <2>1. Added(s4, s3, TRUE, 192, img.payload["sof0"])
      <3>1. 192 \in Byte /\ img.payload["sof0"] \in Payloads
        BY <1>1, <1>2
      <3> QED
        BY <1>8, <1>14, <3>1, SegmentAdded, ZenonT(90)
    <2>2. /\ s4 \in Bytes /\ Extends(s4, s3) /\ Len(s4) = AtSof(img) + Size(img, "sof0")
          /\ SegmentAt(s4, AtSof(img), 192, Size(img, "sof0") - 2)
      <3>1. /\ Len(img.payload["sof0"]) + 4 = Size(img, "sof0")
            /\ Len(img.payload["sof0"]) + 2 = Size(img, "sof0") - 2
        BY <1>1
      <3>2. Len(s3) = AtSof(img)
        BY <1>14
      <3> QED
        BY <2>1, <3>1, <3>2 DEF Added
    <2> QED
      BY <2>2, Positions
  <1>16. /\ s5 \in Bytes /\ Extends(s5, s4) /\ Len(s5) = AtSos(img)
         /\ SegmentAt(s5, AtDht(img), 196, Size(img, "dht") - 2)
    <2>1. Added(s5, s4, TRUE, 196, img.payload["dht"])
      <3>1. 196 \in Byte /\ img.payload["dht"] \in Payloads
        BY <1>1, <1>2
      <3> QED
        BY <1>9, <1>15, <3>1, SegmentAdded, ZenonT(90)
    <2>2. /\ s5 \in Bytes /\ Extends(s5, s4) /\ Len(s5) = AtDht(img) + Size(img, "dht")
          /\ SegmentAt(s5, AtDht(img), 196, Size(img, "dht") - 2)
      <3>1. /\ Len(img.payload["dht"]) + 4 = Size(img, "dht")
            /\ Len(img.payload["dht"]) + 2 = Size(img, "dht") - 2
        BY <1>1
      <3>2. Len(s4) = AtDht(img)
        BY <1>15
      <3> QED
        BY <2>1, <3>1, <3>2 DEF Added
    <2> QED
      BY <2>2, Positions
  <1>17. /\ s6 \in Bytes /\ Extends(s6, s5) /\ Len(s6) = AtScan(img)
         /\ SegmentAt(s6, AtSos(img), SOS, Size(img, "sos") - 2)
    <2>1. Added(s6, s5, TRUE, SOS, img.payload["sos"])
      <3>1. SOS \in Byte /\ img.payload["sos"] \in Payloads
        BY <1>1, <1>2
      <3> QED
        BY <1>10, <1>16, <3>1, SegmentAdded, Zenon
    <2>2. /\ s6 \in Bytes /\ Extends(s6, s5) /\ Len(s6) = AtSos(img) + Size(img, "sos")
          /\ SegmentAt(s6, AtSos(img), SOS, Size(img, "sos") - 2)
      <3>1. /\ Len(img.payload["sos"]) + 4 = Size(img, "sos")
            /\ Len(img.payload["sos"]) + 2 = Size(img, "sos") - 2
        BY <1>1
      <3>2. Len(s5) = AtSos(img)
        BY <1>16
      <3> QED
        BY <2>1, <3>1, <3>2 DEF Added
    <2> QED
      BY <2>2, Positions
  <1>18. /\ Extends(s6, s4) /\ Extends(s6, s3) /\ Extends(s6, s2) /\ Extends(s6, s1)
         /\ Extends(s6, s0)
    <2>1. Extends(s6, s4)
      BY <1>15, <1>16, <1>17, ExtendsTransitive
    <2>2. Extends(s6, s3)
      BY <1>14, <1>15, <1>17, <2>1, ExtendsTransitive
    <2>3. Extends(s6, s2)
      BY <1>13, <1>14, <1>17, <2>2, ExtendsTransitive
    <2>4. Extends(s6, s1)
      BY <1>12, <1>13, <1>17, <2>3, ExtendsTransitive
    <2> QED
      BY <1>3, <1>12, <1>17, <2>1, <2>2, <2>3, <2>4, ExtendsTransitive
  <1>19. ByteAt(s6, 0) = 255 /\ ByteAt(s6, 1) = SOI
    BY <1>3, <1>18 DEF Extends
  <1>20. /\ img.app0 => SegmentAt(s6, 2, 224, Size(img, "app0") - 2)
         /\ img.tables => /\ SegmentAt(s6, AtDqt0(img), DQT, Size(img, "dqt0") - 2)
                            /\ SegmentAt(s6, AtDqt1(img), DQT, Size(img, "dqt1") - 2)
    <2>1. img.app0 => 2 + 4 <= Len(s1)
      <3>1. /\ Size(img, "app0") \in Nat /\ Size(img, "app0") >= 4
            /\ img.app0 => AtDqt0(img) = 2 + Size(img, "app0")
        BY Positions
      <3> QED
        BY <1>12, <3>1
    <2>2. img.tables => AtDqt0(img) + 4 <= Len(s2)
      <3>1. /\ Size(img, "dqt0") \in Nat /\ Size(img, "dqt0") >= 4 /\ AtDqt0(img) \in Nat
            /\ img.tables => AtDqt1(img) = AtDqt0(img) + Size(img, "dqt0")
        BY Positions
      <3> QED
        BY <1>13, <3>1
    <2>3. img.tables => AtDqt1(img) + 4 <= Len(s3)
      <3>1. /\ Size(img, "dqt1") \in Nat /\ Size(img, "dqt1") >= 4 /\ AtDqt1(img) \in Nat
            /\ img.tables => AtSof(img) = AtDqt1(img) + Size(img, "dqt1")
        BY Positions
      <3> QED
        BY <1>14, <3>1
    <2>4. AtDqt0(img) \in Nat /\ AtDqt1(img) \in Nat
      BY Positions
    <2>5. img.app0 => SegmentAt(s6, 2, 224, Size(img, "app0") - 2)
      BY <1>12, <1>18, <2>1, SegmentKept
    <2>6. img.tables => SegmentAt(s6, AtDqt0(img), DQT, Size(img, "dqt0") - 2)
      BY <1>13, <1>18, <2>2, <2>4, SegmentKept
    <2>7. img.tables => SegmentAt(s6, AtDqt1(img), DQT, Size(img, "dqt1") - 2)
      BY <1>14, <1>18, <2>3, <2>4, SegmentKept
    <2> QED
      BY <2>5, <2>6, <2>7
  <1>21. /\ SegmentAt(s6, AtSof(img), 192, Size(img, "sof0") - 2)
         /\ SegmentAt(s6, AtDht(img), 196, Size(img, "dht") - 2)
    <2>1. AtSof(img) \in Nat /\ AtSof(img) + 4 <= Len(s4)
      <3>1. /\ Size(img, "sof0") \in Nat /\ Size(img, "sof0") >= 4 /\ AtSof(img) \in Nat
            /\ AtDht(img) = AtSof(img) + Size(img, "sof0")
        BY Positions
      <3> QED
        BY <1>15, <3>1
    <2>2. AtDht(img) \in Nat /\ AtDht(img) + 4 <= Len(s5)
      <3>1. /\ Size(img, "dht") \in Nat /\ Size(img, "dht") >= 4 /\ AtDht(img) \in Nat
            /\ AtSos(img) = AtDht(img) + Size(img, "dht")
        BY Positions
      <3> QED
        BY <1>16, <3>1
    <2>3. SegmentAt(s6, AtSof(img), 192, Size(img, "sof0") - 2)
      BY <1>15, <1>18, <2>1, SegmentKept
    <2>4. SegmentAt(s6, AtDht(img), 196, Size(img, "dht") - 2)
      BY <1>16, <1>17, <2>2, SegmentKept
    <2> QED
      BY <2>3, <2>4
  <1>22. Layout(s6, img)
    BY <1>17, <1>19, <1>20, <1>21 DEF Layout
  <1> QED
    BY <1>11, <1>12, <1>17, <1>22

\* The rest of a file: no marker in the scan, then the ending and the padding.
AtEnd(img) == AtScan(img) + Len(img.scan)
AtPad(img) == AtEnd(img) + Len(img.ending)

Parted(buf, img) ==
    /\ buf \in Bytes /\ Layout(buf, img)
    /\ AtEnd(img) \in Nat /\ AtPad(img) \in Nat /\ Len(buf) \in Nat
    /\ AtScan(img) <= AtEnd(img) /\ AtEnd(img) <= AtPad(img) /\ AtPad(img) <= Len(buf)
    /\ \A p \in Nat : p < Len(img.scan) =>
          ByteAt(buf, AtScan(img) + p) = ByteAt(img.scan, p)
    /\ \A p \in Nat : p < Len(img.ending) =>
          ByteAt(buf, AtEnd(img) + p) = ByteAt(img.ending, p)
    /\ \A p \in Nat : AtPad(img) <= p /\ p < Len(buf) => ByteAt(buf, p) = 0

LEMMA JoinedExtends ==
    ASSUME NEW s, NEW t, NEW u, Joined(u, s, t)
    PROVE  Extends(u, s) /\ u \in Bytes /\ Len(u) = Len(s) + Len(t)
           /\ \A p \in Nat : p < Len(t) => ByteAt(u, Len(s) + p) = ByteAt(t, p)
  BY DEF Joined, Extends

LEMMA EndingCases ==
    ASSUME NEW img \in Images
    PROVE  \/ img.ending = <<255, EOI>>
           \/ img.ending = <<>>
           \/ \E r \in 208..215, b \in 0..254 : img.ending = Broken(r, b)
  <1>1. ASSUME NEW e \in Endings
        PROVE  \/ e = <<255, EOI>> \/ e = <<>>
               \/ \E r \in 208..215, b \in 0..254 : e = Broken(r, b)
    <2>1. \/ e = <<255, EOI>> \/ e = <<>>
          \/ e \in {Broken(r, b) : r \in 208..215, b \in 0..254}
      BY SMT DEF Endings
    <2> QED
      BY <2>1
  <1>2. img.ending \in Endings
    BY DEF Images
  <1> QED
    BY <1>1, <1>2, ZenonT(90)

LEMMA FileParted ==
    ASSUME NEW img \in Images
    PROVE  Parted(JpegOf(img).bytes, img)
  <1>1. img.scan \in Bytes /\ img.ending \in Bytes /\ img.padding \in Bytes
    <2>1. img.scan \in Bytes
      BY DEF Images, Scans, Bytes, Byte
    <2>2. img.padding \in Bytes
      <3>1. img.padding \in Seq({0}) /\ {0} \subseteq Byte
        BY DEF Images, Byte
      <3> QED
        BY <3>1 DEF Bytes
    <2>3. img.ending \in Bytes
      <3>2. <<255, EOI>> \in Bytes /\ <<>> \in Bytes
        <4>1. 255 \in Byte /\ EOI \in Byte
          BY DEF Byte, EOI
        <4> QED
          BY <4>1 DEF Bytes
      <3>3. \A r \in 208..215, b \in 0..254 : Broken(r, b) \in Bytes
        <4>1. 255 \in Byte /\ EOI \in Byte /\ 208..215 \subseteq Byte /\ 0..254 \subseteq Byte
          BY DEF Byte, EOI
        <4> QED
          BY <4>1 DEF Bytes, Broken
      <3> QED
        BY <3>2, <3>3, EndingCases, ZenonT(90)
    <2> QED
      BY <2>1, <2>2, <2>3
  <1>2. PICK h \in Bytes : h = Header(img) /\ Len(h) = AtScan(img) /\ Layout(h, img)
    BY HeaderLayout
  <1>3. PICK s : s = h \o img.scan
    OBVIOUS
  <1>4. PICK t : t = s \o img.ending
    OBVIOUS
  <1>5. PICK u : u = t \o img.padding
    OBVIOUS
  <1>6. JpegOf(img).bytes = u
    BY <1>2, <1>3, <1>4, <1>5 DEF JpegOf
  <1>7. /\ s \in Bytes /\ Extends(s, h) /\ Len(s) = AtEnd(img)
        /\ \A p \in Nat : p < Len(img.scan) =>
              ByteAt(s, AtScan(img) + p) = ByteAt(img.scan, p)
    <2>1. Joined(s, h, img.scan)
      BY <1>1, <1>3, JoinedBytes
    <2> QED
      BY <1>2, <2>1, JoinedExtends DEF AtEnd
  <1>8. /\ t \in Bytes /\ Extends(t, s) /\ Len(t) = AtPad(img)
        /\ \A p \in Nat : p < Len(img.ending) =>
              ByteAt(t, AtEnd(img) + p) = ByteAt(img.ending, p)
    <2>1. Joined(t, s, img.ending)
      BY <1>1, <1>4, <1>7, JoinedBytes
    <2> QED
      BY <1>7, <2>1, JoinedExtends, SMTT(60) DEF AtPad
  <1>9. /\ u \in Bytes /\ Extends(u, t) /\ Len(u) = AtPad(img) + Len(img.padding)
        /\ \A p \in Nat : p < Len(img.padding) =>
              ByteAt(u, AtPad(img) + p) = ByteAt(img.padding, p)
    <2>1. Joined(u, t, img.padding)
      BY <1>1, <1>5, <1>8, JoinedBytes
    <2> QED
      BY <1>8, <2>1, JoinedExtends, SMTT(60)
  <1>10. /\ Len(img.scan) \in Nat /\ Len(img.ending) \in Nat /\ Len(img.padding) \in Nat
         /\ Len(h) \in Nat /\ Len(s) \in Nat /\ Len(t) \in Nat /\ Len(u) \in Nat
    BY <1>1, <1>2, <1>7, <1>8, <1>9, SMTT(60) DEF Bytes
  <1>11. /\ AtEnd(img) \in Nat /\ AtPad(img) \in Nat
         /\ AtScan(img) <= AtEnd(img) /\ AtEnd(img) <= AtPad(img)
         /\ AtPad(img) <= Len(u)
    <2>1. AtScan(img) \in Nat
      BY <1>2, <1>10
    <2>2. Len(u) = AtPad(img) + Len(img.padding)
      BY <1>9
    <2>3. AtEnd(img) \in Nat /\ AtScan(img) <= AtEnd(img)
      BY <1>10, <2>1, SMTT(60) DEF AtEnd
    <2>4. AtPad(img) \in Nat /\ AtEnd(img) <= AtPad(img)
      BY <1>10, <2>3, SMTT(60) DEF AtPad
    <2>5. AtPad(img) <= Len(u)
      BY <1>10, <2>2, <2>4
    <2> QED
      BY <2>3, <2>4, <2>5
  <1>12. Extends(u, s) /\ Extends(u, h)
    <2>1. Extends(u, s)
      BY <1>7, <1>8, <1>9, ExtendsTransitive
    <2> QED
      BY <1>7, <1>9, <2>1, ExtendsTransitive
  <1>13. Layout(u, img)
    <2>1. Len(h) >= AtScan(img)
      BY <1>2, <1>10
    <2> QED
      BY <1>2, <1>12, <2>1, LayoutKept
  <1>14. ASSUME NEW p \in Nat, p < Len(img.scan)
         PROVE  ByteAt(u, AtScan(img) + p) = ByteAt(img.scan, p)
    <2>1. AtScan(img) + p \in Nat /\ AtScan(img) + p < Len(s)
      BY <1>2, <1>7, <1>10, <1>14, SMTT(60) DEF AtEnd
    <2>2. ByteAt(u, AtScan(img) + p) = ByteAt(s, AtScan(img) + p)
      BY <1>12, <2>1 DEF Extends
    <2> QED
      BY <1>7, <1>14, <2>2
  <1>15. ASSUME NEW p \in Nat, p < Len(img.ending)
         PROVE  ByteAt(u, AtEnd(img) + p) = ByteAt(img.ending, p)
    <2>1. AtEnd(img) + p \in Nat /\ AtEnd(img) + p < Len(t)
      BY <1>7, <1>8, <1>10, <1>15 DEF AtPad
    <2>2. ByteAt(u, AtEnd(img) + p) = ByteAt(t, AtEnd(img) + p)
      BY <1>9, <2>1 DEF Extends
    <2> QED
      BY <1>8, <1>15, <2>2
  <1>16. ASSUME NEW p \in Nat, AtPad(img) <= p, p < Len(u) PROVE ByteAt(u, p) = 0
    <2>1. PICK q \in Nat : p = AtPad(img) + q /\ q < Len(img.padding)
      <3>1. p - AtPad(img) \in Nat /\ p = AtPad(img) + (p - AtPad(img))
            /\ p - AtPad(img) < Len(img.padding)
        <4>1. AtPad(img) \in Nat /\ Len(img.padding) \in Nat
              /\ Len(u) = AtPad(img) + Len(img.padding)
          BY <1>9, <1>10, <1>11
        <4> QED
          BY <1>16, <4>1
      <3> QED
        BY <3>1
    <2>2. ByteAt(img.padding, q) = 0
      <3>1. img.padding \in Seq({0}) /\ q + 1 \in 1..Len(img.padding)
        BY <1>10, <2>1 DEF Images
      <3>2. img.padding[q + 1] = 0
        BY <3>1
      <3> QED
        BY <2>1, <3>2 DEF ByteAt
    <2> QED
      BY <1>9, <2>1, <2>2
  <1> QED
    BY <1>6, <1>9, <1>10, <1>11, <1>13, <1>14, <1>15, <1>16 DEF Parted

LEMMA ScanBytes ==
    ASSUME NEW img \in Images, NEW buf, Parted(buf, img),
           NEW p \in AtScan(img)..(AtEnd(img) - 1), ByteAt(buf, p) = 255
    PROVE  p + 1 < AtEnd(img) /\ ByteAt(buf, p + 1) = 0
  <1>1. img.scan \in Scans /\ img.scan \in Seq(0..255)
    BY DEF Images, Scans
  <1>2. AtScan(img) \in Nat /\ Len(img.scan) \in Nat
    <2>1. AtScan(img) \in Nat
      BY Positions
    <2> QED
      BY <1>1, <2>1
  <1>3. PICK q \in Nat : p = AtScan(img) + q /\ q < Len(img.scan)
    <2>1. /\ p - AtScan(img) \in Nat /\ p = AtScan(img) + (p - AtScan(img))
          /\ p - AtScan(img) < Len(img.scan)
      BY <1>2 DEF AtEnd
    <2> QED
      BY <2>1
  <1>4. ByteAt(img.scan, q) = 255
    BY <1>3 DEF Parted
  <1>5. q + 1 \in 1..Len(img.scan) /\ img.scan[q + 1] = 255
    BY <1>2, <1>3, <1>4 DEF ByteAt
  <1>6. q + 1 < Len(img.scan) /\ img.scan[q + 1 + 1] = 0
    BY <1>1, <1>5 DEF Scans
  <1>7. ByteAt(img.scan, q + 1) = 0
    BY <1>6 DEF ByteAt
  <1>8. ByteAt(buf, AtScan(img) + (q + 1)) = 0
    BY <1>3, <1>6, <1>7 DEF Parted
  <1>9. p + 1 = AtScan(img) + (q + 1) /\ p + 1 < AtEnd(img)
    BY <1>2, <1>3, <1>6, SMTT(60) DEF AtEnd
  <1> QED
    BY <1>8, <1>9

LEMMA EndBytes ==
    ASSUME NEW img \in Images, NEW buf, Parted(buf, img), img.ending = <<255, EOI>>
    PROVE  /\ AtPad(img) = AtEnd(img) + 2
           /\ ByteAt(buf, AtEnd(img)) = 255 /\ ByteAt(buf, AtEnd(img) + 1) = EOI
  <1>1. AtEnd(img) \in Nat
    BY DEF Parted
  <1>2. Len(img.ending) = 2 /\ img.ending[1] = 255 /\ img.ending[2] = EOI
    OBVIOUS
  <1>3. ByteAt(img.ending, 0) = 255 /\ ByteAt(img.ending, 1) = EOI
    BY <1>2 DEF ByteAt
  <1>4. /\ ByteAt(buf, AtEnd(img) + 0) = ByteAt(img.ending, 0)
        /\ ByteAt(buf, AtEnd(img) + 1) = ByteAt(img.ending, 1)
    BY <1>2 DEF Parted
  <1>5. AtEnd(img) + 0 = AtEnd(img)
    BY <1>1
  <1> QED
    BY <1>2, <1>3, <1>4, <1>5 DEF AtPad

LEMMA NoEndBytes ==
    ASSUME NEW img \in Images, NEW buf, Parted(buf, img), img.ending = <<>>
    PROVE  AtPad(img) = AtEnd(img)
  <1>1. AtEnd(img) \in Nat
    BY DEF Parted
  <1>2. Len(img.ending) = 0
    OBVIOUS
  <1> QED
    BY <1>1, <1>2 DEF AtPad

BrokenAt(buf, img, r, b) ==
    /\ AtPad(img) = AtEnd(img) + 5
    /\ ByteAt(buf, AtEnd(img)) = 255 /\ ByteAt(buf, AtEnd(img) + 1) = r
    /\ ByteAt(buf, AtEnd(img) + 2) = b /\ ByteAt(buf, AtEnd(img) + 3) = 255
    /\ ByteAt(buf, AtEnd(img) + 4) = EOI

LEMMA BrokenBytes ==
    ASSUME NEW img \in Images, NEW buf, Parted(buf, img),
           NEW r \in 208..215, NEW b \in 0..254, img.ending = Broken(r, b)
    PROVE  BrokenAt(buf, img, r, b)
  <1>1. AtEnd(img) \in Nat
    BY DEF Parted
  <1>2. /\ Len(img.ending) = 5 /\ img.ending[1] = 255 /\ img.ending[2] = r
        /\ img.ending[3] = b /\ img.ending[4] = 255 /\ img.ending[5] = EOI
    BY DEF Broken
  <1>3. /\ ByteAt(img.ending, 0) = 255 /\ ByteAt(img.ending, 1) = r
        /\ ByteAt(img.ending, 2) = b /\ ByteAt(img.ending, 3) = 255
        /\ ByteAt(img.ending, 4) = EOI
    BY <1>2 DEF ByteAt
  <1>4. \A p \in 0..4 : ByteAt(buf, AtEnd(img) + p) = ByteAt(img.ending, p)
    BY <1>2, SMTT(60) DEF Parted
  <1>5. AtEnd(img) + 0 = AtEnd(img)
    BY <1>1
  <1>6. AtPad(img) = AtEnd(img) + 5
    BY <1>2 DEF AtPad
  <1>7. /\ ByteAt(buf, AtEnd(img) + 0) = 255 /\ ByteAt(buf, AtEnd(img) + 1) = r
        /\ ByteAt(buf, AtEnd(img) + 2) = b /\ ByteAt(buf, AtEnd(img) + 3) = 255
        /\ ByteAt(buf, AtEnd(img) + 4) = EOI
    BY <1>3, <1>4
  <1> QED
    BY <1>5, <1>6, <1>7 DEF BrokenAt

\* The bytes that follow a 0xff in what comes after the header.
Continuing == {0, EOI} \cup 208..215

\* After the header no 0xff begins a segment.
LEMMA RestHasNoSegment ==
    ASSUME NEW img \in Images, NEW buf, Parted(buf, img),
           NEW p \in AtScan(img)..(Len(buf) - 1), ByteAt(buf, p) = 255
    PROVE  ByteAt(buf, p + 1) \in Continuing
  <1>1. AtScan(img) \in Nat
    BY Positions
  <1>2. /\ AtEnd(img) \in Nat /\ AtPad(img) \in Nat /\ Len(buf) \in Nat
        /\ AtScan(img) <= AtEnd(img) /\ AtEnd(img) <= AtPad(img)
        /\ AtPad(img) <= Len(buf)
        /\ AtPad(img) <= p => ByteAt(buf, p) = 0
    BY <1>1 DEF Parted
  <1>3. CASE p < AtEnd(img)
    <2>1. p \in AtScan(img)..(AtEnd(img) - 1)
      BY <1>1, <1>2, <1>3
    <2> QED
      BY <2>1, ScanBytes, SMTT(60) DEF Continuing
  <1>4. CASE AtEnd(img) <= p
    <2>1. p < AtPad(img)
      BY <1>1, <1>2
    <2>2. CASE img.ending = <<255, EOI>>
      <3>1. /\ AtPad(img) = AtEnd(img) + 2
            /\ ByteAt(buf, AtEnd(img) + 1) = EOI
        BY <2>2, EndBytes
      <3>2. p = AtEnd(img) \/ p = AtEnd(img) + 1
        <4>1. AtEnd(img) \in Nat /\ p \in Nat
          BY <1>1, <1>2
        <4>2. p < AtEnd(img) + 2 /\ AtEnd(img) <= p
          BY <1>4, <2>1, <3>1
        <4> QED
          BY <4>1, <4>2
      <3>3. EOI # 255
        BY DEF EOI
      <3> QED
        BY <3>1, <3>2, <3>3 DEF Continuing
    <2>3. CASE img.ending = <<>>
      BY <1>1, <1>2, <1>4, <2>1, <2>3, NoEndBytes, SMTT(60)
    <2>4. CASE \E r \in 208..215, b \in 0..254 : img.ending = Broken(r, b)
      <3>0. PICK r \in 208..215, b \in 0..254 : img.ending = Broken(r, b)
        BY <2>4, ZenonT(60)
      <3>1. /\ AtPad(img) = AtEnd(img) + 5
            /\ ByteAt(buf, AtEnd(img)) = 255 /\ ByteAt(buf, AtEnd(img) + 1) = r
            /\ ByteAt(buf, AtEnd(img) + 2) = b /\ ByteAt(buf, AtEnd(img) + 3) = 255
            /\ ByteAt(buf, AtEnd(img) + 4) = EOI
        <4>1. BrokenAt(buf, img, r, b)
          BY <3>0, BrokenBytes, ZenonT(90)
        <4> QED
          BY <4>1, SMTT(60) DEF BrokenAt
      <3>2. \/ p = AtEnd(img) \/ p = AtEnd(img) + 1 \/ p = AtEnd(img) + 2
            \/ p = AtEnd(img) + 3 \/ p = AtEnd(img) + 4
        <4>1. AtEnd(img) \in Nat /\ p \in Nat
          BY <1>1, <1>2
        <4>2. p < AtEnd(img) + 5 /\ AtEnd(img) <= p
          BY <1>4, <2>1, <3>1
        <4> QED
          BY <4>1, <4>2, SMTT(60)
      <3>3. EOI # 255 /\ r # 255 /\ b # 255 /\ (AtEnd(img) + 3) + 1 = AtEnd(img) + 4
        BY <1>2, SMTT(60) DEF EOI
      <3>4. p # AtEnd(img) + 1 /\ p # AtEnd(img) + 2 /\ p # AtEnd(img) + 4
        BY <3>1, <3>3
      <3> QED
        <4>1. CASE p = AtEnd(img)
          BY <3>1, <4>1, SMTT(60) DEF Continuing
        <4>2. CASE p = AtEnd(img) + 3
          <5>1. ByteAt(buf, p + 1) = EOI
            BY <3>1, <3>3, <4>2
          <5> QED
            BY <5>1 DEF Continuing
        <4> QED
          BY <3>2, <3>4, <4>1, <4>2
    <2>5. \/ img.ending = <<255, EOI>>
          \/ img.ending = <<>>
          \/ \E r \in 208..215, b \in 0..254 : img.ending = Broken(r, b)
      BY EndingCases, ZenonT(60)
    <2> QED
      BY <2>2, <2>3, <2>4, <2>5, ZenonT(60)
  <1> QED
    BY <1>1, <1>2, <1>3, <1>4, SMTT(60)

LEMMA SegmentSkipped ==
    ASSUME NEW buf \in Seq(Byte), NEW len \in Nat, NEW marker, NEW p \in Nat, p < len,
           NEW size \in Nat, size >= 4, NEW type \in Sections \ {marker},
           SegmentAt(buf, p, type, size - 2)
    PROVE  Walk(buf, 0, len, marker)[p]
             = IF p + size <= len THEN Walk(buf, 0, len, marker)[p + size] ELSE Lost(0, len)
  <1>1. PICK n \in Nat \ {0, 1} : n = size - 2
    OBVIOUS
  <1>2. /\ ByteAt(buf, p) = 255 /\ ByteAt(buf, p + 1) = type /\ SegmentLen(buf, p + 2) = n
        /\ type # marker /\ type \in Sections
    BY <1>1 DEF SegmentAt
  <1>3. Walk(buf, 0, len, marker)[p]
          = Step(buf, 0, len, marker, Walk(buf, 0, len, marker), p)
    <2>1. p \in 0..(0 + len + 1)
      OBVIOUS
    <2> QED
      BY <2>1, WalkSteps
  <1>4. /\ ~(p - 0 >= len) /\ p + 2 + n = p + size
        /\ p + size <= len => ~(p + 2 + 1 >= 0 + len) /\ ~(p + 2 + n > 0 + len)
        /\ ~(p + size <= len) => p + 2 + n > 0 + len
    BY <1>1
  <1> QED
    BY <1>2, <1>3, <1>4, SMTT(60) DEF Step, Lost

\* The header lies within the length that the search for SOI leaves.
LEMMA HeaderInside ==
    ASSUME NEW img \in Images, NEW buf, Parted(buf, img)
    PROVE  /\ buf \in Seq(Byte) /\ Len(buf) \in Nat /\ Len(buf) - 2 \in Nat
           /\ AtDqt0(img) \in Nat /\ AtDqt1(img) \in Nat /\ AtSof(img) \in Nat
           /\ AtDht(img) \in Nat /\ AtSos(img) \in Nat /\ AtScan(img) \in Nat
           /\ 2 <= AtDqt0(img) /\ AtDqt0(img) <= AtDqt1(img)
           /\ AtDqt1(img) <= AtSof(img) /\ AtSof(img) <= AtDht(img)
           /\ AtDht(img) <= AtSos(img) /\ AtSos(img) + 4 <= AtScan(img)
           /\ AtScan(img) <= Len(buf) /\ AtSos(img) < Len(buf) - 2
  <1>1. /\ Size(img, "sof0") \in Nat /\ Size(img, "dht") \in Nat
        /\ Size(img, "sos") \in Nat /\ Size(img, "sos") >= 4
    BY Positions
  <1>2. /\ AtDqt0(img) \in Nat /\ AtDqt1(img) \in Nat /\ AtSof(img) \in Nat
        /\ 2 <= AtDqt0(img) /\ AtDqt0(img) <= AtDqt1(img) /\ AtDqt1(img) <= AtSof(img)
    BY Positions
  <1>3. /\ AtDht(img) \in Nat /\ AtDht(img) = AtSof(img) + Size(img, "sof0")
        /\ AtSos(img) \in Nat /\ AtSos(img) = AtDht(img) + Size(img, "dht")
        /\ AtScan(img) \in Nat /\ AtScan(img) = AtSos(img) + Size(img, "sos")
    BY Positions
  <1>4. /\ buf \in Seq(Byte) /\ Len(buf) \in Nat /\ AtEnd(img) \in Nat /\ AtPad(img) \in Nat
        /\ AtScan(img) <= AtEnd(img) /\ AtEnd(img) <= AtPad(img)
        /\ AtPad(img) <= Len(buf)
    BY DEF Parted, Bytes
  <1>5. AtScan(img) <= Len(buf)
    BY <1>3, <1>4
  <1>6. AtSof(img) <= AtDht(img) /\ AtDht(img) <= AtSos(img)
    BY <1>1, <1>2, <1>3
  <1>7. AtSos(img) + 4 <= AtScan(img)
    BY <1>1, <1>3
  <1>8. Len(buf) - 2 \in Nat /\ AtSos(img) < Len(buf) - 2
    BY <1>3, <1>4, <1>5, <1>7
  <1> QED
    BY <1>2, <1>3, <1>4, <1>5, <1>6, <1>7, <1>8

\* The searches for a table and for SOS pass over the segments before them.
LEMMA WalkToTables ==
    ASSUME NEW img \in Images, NEW buf, Parted(buf, img), NEW marker \in {DQT, SOS}
    PROVE  Walk(buf, 0, Len(buf) - 2, marker)[0] = Walk(buf, 0, Len(buf) - 2, marker)[AtDqt0(img)]
  <1> DEFINE len == Len(buf) - 2
             W == Walk(buf, 0, len, marker)
  <1>1. buf \in Seq(Byte) /\ len \in Nat /\ AtDqt0(img) \in Nat /\ 2 <= AtDqt0(img)
        /\ AtDqt0(img) < len
    <2>1. /\ buf \in Seq(Byte) /\ len \in Nat
          /\ AtDqt0(img) \in Nat /\ AtDqt1(img) \in Nat /\ AtSof(img) \in Nat
          /\ AtDht(img) \in Nat /\ AtSos(img) \in Nat
      BY HeaderInside
    <2>2. /\ 2 <= AtDqt0(img) /\ AtDqt0(img) <= AtDqt1(img)
          /\ AtDqt1(img) <= AtSof(img) /\ AtSof(img) <= AtDht(img)
          /\ AtDht(img) <= AtSos(img) /\ AtSos(img) < len
      BY HeaderInside
    <2> QED
      BY <2>1, <2>2
  <1>2. W[0] = W[2]
    <2>1. ByteAt(buf, 0) = 255 /\ ByteAt(buf, 0 + 1) = SOI
      BY DEF Parted, Layout
    <2>2. SOI \notin Sections \cup {marker}
      BY DEF SOI, Sections, DQT, SOS
    <2>3. 0 \in 0..(0 + len + 1) /\ 0 - 0 < len /\ 0 + 2 = 2
      BY <1>1
    <2> HIDE DEF len
    <2>4. W[0] = W[0 + 2]
      BY <1>1, <2>1, <2>2, <2>3, WalkPasses
    <2> QED
      BY <2>3, <2>4
  <1>3. CASE img.app0
    <2>1. PICK size \in Nat : size = Size(img, "app0") /\ size >= 4
      BY Positions
    <2>2. AtDqt0(img) = 2 + size
      <3>1. img.app0 => AtDqt0(img) = 2 + Size(img, "app0")
        BY Positions
      <3> QED
        BY <1>3, <2>1, <3>1
    <2>3. SegmentAt(buf, 2, 224, size - 2)
      BY <1>3, <2>1 DEF Parted, Layout
    <2>4. 224 \in Sections \ {marker}
      BY DEF Sections, DQT, SOS
    <2>5. 2 < len /\ 2 + size <= len
      BY <1>1, <2>2
    <2> HIDE DEF len
    <2>6. W[2] = IF 2 + size <= len THEN W[2 + size] ELSE Lost(0, len)
      BY <1>1, <2>1, <2>3, <2>4, <2>5, SegmentSkipped, SMTT(60)
    <2> QED
      BY <1>2, <2>2, <2>5, <2>6 DEF len
  <1>4. CASE ~img.app0
    <2>1. AtDqt0(img) = 2
      BY <1>4, Positions
    <2> QED
      BY <1>2, <2>1
  <1> QED
    BY <1>3, <1>4

LEMMA WalkOverTables ==
    ASSUME NEW img \in Images, NEW buf, Parted(buf, img), NEW marker \in {DQT, SOS},
           img.tables => marker = SOS
    PROVE  Walk(buf, 0, Len(buf) - 2, marker)[AtDqt0(img)]
             = Walk(buf, 0, Len(buf) - 2, marker)[AtSof(img)]
  <1> DEFINE len == Len(buf) - 2
             W == Walk(buf, 0, len, marker)
  <1>1. buf \in Seq(Byte) /\ len \in Nat /\ AtSof(img) \in Nat /\ AtSof(img) < len
    <2>1. /\ buf \in Seq(Byte) /\ len \in Nat /\ AtSof(img) \in Nat
          /\ AtDht(img) \in Nat /\ AtSos(img) \in Nat
      BY HeaderInside
    <2>2. AtSof(img) <= AtDht(img) /\ AtDht(img) <= AtSos(img) /\ AtSos(img) < len
      BY HeaderInside
    <2> QED
      BY <2>1, <2>2
  <1>2. CASE img.tables
    <2>1. PICK size0 \in Nat : size0 = Size(img, "dqt0") /\ size0 >= 4
      BY Positions
    <2>2. PICK size1 \in Nat : size1 = Size(img, "dqt1") /\ size1 >= 4
      BY Positions
    <2>3. /\ AtDqt0(img) \in Nat /\ AtDqt1(img) \in Nat
          /\ AtDqt1(img) = AtDqt0(img) + size0 /\ AtSof(img) = AtDqt1(img) + size1
      <3>1. /\ AtDqt0(img) \in Nat /\ AtDqt1(img) \in Nat
            /\ img.tables => AtDqt1(img) = AtDqt0(img) + Size(img, "dqt0")
            /\ img.tables => AtSof(img) = AtDqt1(img) + Size(img, "dqt1")
        BY Positions
      <3> QED
        BY <1>2, <2>1, <2>2, <3>1
    <2>4. /\ SegmentAt(buf, AtDqt0(img), DQT, size0 - 2)
          /\ SegmentAt(buf, AtDqt1(img), DQT, size1 - 2)
      BY <1>2, <2>1, <2>2 DEF Parted, Layout
    <2>5. DQT \in Sections \ {marker}
      BY <1>2 DEF Sections, DQT, SOS
    <2>6. /\ AtDqt0(img) < len /\ AtDqt0(img) + size0 <= len
          /\ AtDqt1(img) < len /\ AtDqt1(img) + size1 <= len
      BY <1>1, <2>1, <2>2, <2>3, SMTT(60)
    <2> HIDE DEF len
    <2>7. W[AtDqt0(img)] = IF AtDqt0(img) + size0 <= len
                             THEN W[AtDqt0(img) + size0] ELSE Lost(0, len)
      BY <1>1, <2>1, <2>3, <2>4, <2>5, <2>6, SegmentSkipped, SMTT(60)
    <2>8. W[AtDqt1(img)] = IF AtDqt1(img) + size1 <= len
                             THEN W[AtDqt1(img) + size1] ELSE Lost(0, len)
      BY <1>1, <2>2, <2>3, <2>4, <2>5, <2>6, SegmentSkipped, ZenonT(90)
    <2> QED
      BY <2>3, <2>6, <2>7, <2>8 DEF len
  <1>3. CASE ~img.tables
    <2>1. /\ ~img.tables => AtDqt1(img) = AtDqt0(img)
          /\ ~img.tables => AtSof(img) = AtDqt1(img)
      BY Positions
    <2> QED
      BY <1>3, <2>1
  <1> QED
    BY <1>2, <1>3

LEMMA WalkToSos ==
    ASSUME NEW img \in Images, NEW buf, Parted(buf, img), NEW marker \in {DQT, SOS}
    PROVE  Walk(buf, 0, Len(buf) - 2, marker)[AtSof(img)]
             = Walk(buf, 0, Len(buf) - 2, marker)[AtSos(img)]
  <1> DEFINE len == Len(buf) - 2
             W == Walk(buf, 0, len, marker)
  <1>1. /\ buf \in Seq(Byte) /\ len \in Nat /\ AtSof(img) \in Nat
        /\ AtDht(img) \in Nat /\ AtSos(img) \in Nat
    BY HeaderInside
  <1>2. AtSof(img) <= AtDht(img) /\ AtDht(img) <= AtSos(img) /\ AtSos(img) < len
    BY HeaderInside
  <1>3. PICK size0 \in Nat : size0 = Size(img, "sof0") /\ size0 >= 4
    BY Positions
  <1>4. PICK size1 \in Nat : size1 = Size(img, "dht") /\ size1 >= 4
    BY Positions
  <1>5. AtDht(img) = AtSof(img) + size0 /\ AtSos(img) = AtDht(img) + size1
    <2>1. /\ AtDht(img) = AtSof(img) + Size(img, "sof0")
          /\ AtSos(img) = AtDht(img) + Size(img, "dht")
      BY Positions
    <2> QED
      BY <1>3, <1>4, <2>1
  <1>6. /\ SegmentAt(buf, AtSof(img), 192, size0 - 2)
        /\ SegmentAt(buf, AtDht(img), 196, size1 - 2)
    BY <1>3, <1>4 DEF Parted, Layout
  <1>7. 192 \in Sections \ {marker} /\ 196 \in Sections \ {marker}
    BY DEF Sections, DQT, SOS
  <1>8. /\ AtSof(img) < len /\ AtSof(img) + size0 <= len
        /\ AtDht(img) < len /\ AtDht(img) + size1 <= len
    BY <1>1, <1>2, <1>5
  <1> HIDE DEF len
  <1>9. W[AtSof(img)] = IF AtSof(img) + size0 <= len
                          THEN W[AtSof(img) + size0] ELSE Lost(0, len)
    BY <1>1, <1>3, <1>6, <1>7, <1>8, SegmentSkipped, SMTT(60)
  <1>10. W[AtDht(img)] = IF AtDht(img) + size1 <= len
                           THEN W[AtDht(img) + size1] ELSE Lost(0, len)
    BY <1>1, <1>4, <1>6, <1>7, <1>8, SegmentSkipped, SMTT(60)
  <1>11. W[AtSof(img)] = W[AtSos(img)]
    BY <1>5, <1>8, <1>9, <1>10
  <1> QED
    BY <1>11 DEF len

\* The stages on a file.
LEMMA FindsSoi ==
    ASSUME NEW img \in Images, NEW buf, Parted(buf, img)
    PROVE  Soi(buf) = [ok |-> TRUE, start |-> 2, len |-> Len(buf) - 2]
  <1>1. buf \in Seq(Byte) /\ Len(buf) \in Nat /\ Len(buf) - 2 \in Nat
    BY HeaderInside
  <1>2. ByteAt(buf, 0) = 255 /\ ByteAt(buf, 0 + 1) = SOI
    BY DEF Parted, Layout
  <1>3. 0 < Len(buf)
    BY <1>1
  <1>4. Walk(buf, 0, Len(buf), SOI)[0]
          = [ok |-> TRUE, start |-> 0 + 2, len |-> Len(buf) - 2]
    BY <1>1, <1>2, <1>3, WalkFindsAtOnce
  <1>5. Soi(buf) = Walk(buf, 0, Len(buf), SOI)[0]
    BY HeaderIsWalk DEF Soi
  <1> QED
    BY <1>4, <1>5

LEMMA FindsSos ==
    ASSUME NEW img \in Images, NEW buf, Parted(buf, img)
    PROVE  /\ Sos(buf).ok = TRUE
           /\ Data(buf) = AtScan(img)
  <1> DEFINE len == Len(buf) - 2
  <1>1. buf \in Seq(Byte) /\ len \in Nat /\ AtSos(img) \in Nat /\ AtSos(img) < len
    BY HeaderInside, Zenon
  <1>2. Sos(buf) = Walk(buf, 0, len, SOS)[0]
    <2>1. Soi(buf).len = len
      BY FindsSoi
    <2> QED
      BY <2>1, HeaderIsWalk DEF Sos
  <1>3. Walk(buf, 0, len, SOS)[0] = Walk(buf, 0, len, SOS)[AtSos(img)]
    <2>1. SOS \in {DQT, SOS}
      OBVIOUS
    <2>2. Walk(buf, 0, len, SOS)[0] = Walk(buf, 0, len, SOS)[AtDqt0(img)]
      BY <2>1, WalkToTables
    <2>3. Walk(buf, 0, len, SOS)[AtDqt0(img)] = Walk(buf, 0, len, SOS)[AtSof(img)]
      BY <2>1, WalkOverTables
    <2>4. Walk(buf, 0, len, SOS)[AtSof(img)] = Walk(buf, 0, len, SOS)[AtSos(img)]
      BY <2>1, WalkToSos
    <2> QED
      BY <2>2, <2>3, <2>4
  <1>4. SegmentAt(buf, AtSos(img), SOS, Size(img, "sos") - 2)
    BY DEF Parted, Layout
  <1>5. AtSos(img) \in 0..(0 + len + 1) /\ AtSos(img) - 0 < len
    BY <1>1
  <1> HIDE DEF len
  <1>6. Walk(buf, 0, len, SOS)[AtSos(img)]
          = [ok |-> TRUE, start |-> AtSos(img) + 2, len |-> len - (AtSos(img) + 2 - 0)]
    <2>1. ByteAt(buf, AtSos(img)) = 255 /\ ByteAt(buf, AtSos(img) + 1) = SOS
      BY <1>4 DEF SegmentAt
    <2> QED
      BY <1>1, <1>5, <2>1, WalkFinds
  <1>7. Sos(buf).ok = TRUE /\ Sos(buf).start = AtSos(img) + 2
    BY <1>2, <1>3, <1>6
  <1>8. SegmentLen(buf, AtSos(img) + 2) = Size(img, "sos") - 2
    BY <1>4 DEF SegmentAt
  <1>9. /\ AtScan(img) = AtSos(img) + Size(img, "sos")
        /\ Size(img, "sos") \in Nat
    BY Positions
  <1>10. Data(buf) = (AtSos(img) + 2) + (Size(img, "sos") - 2)
    BY <1>7, <1>8 DEF Data
  <1> QED
    BY <1>1, <1>7, <1>9, <1>10

\* With tables, the first search stops at the first one and the second at the second.
LEMMA FindsTables ==
    ASSUME NEW img \in Images, NEW buf, Parted(buf, img), img.tables
    PROVE  /\ Q0(buf).ok = TRUE /\ Q0(buf).start = AtDqt0(img) + 2
           /\ Q1(buf).start = AtDqt1(img) + 2
  <1> DEFINE len == Len(buf) - 2
  <1>1. /\ buf \in Seq(Byte) /\ len \in Nat
        /\ AtDqt0(img) \in Nat /\ AtDqt1(img) \in Nat
        /\ AtDqt0(img) + 2 < len /\ AtDqt1(img) = AtDqt0(img) + Size(img, "dqt0")
        /\ Size(img, "dqt0") \in Nat
    <2>1. /\ buf \in Seq(Byte) /\ len \in Nat
          /\ AtDqt0(img) \in Nat /\ AtDqt1(img) \in Nat /\ AtSof(img) \in Nat
          /\ AtDht(img) \in Nat /\ AtSos(img) \in Nat
      BY HeaderInside
    <2>2. /\ AtDqt1(img) <= AtSof(img) /\ AtSof(img) <= AtDht(img)
          /\ AtDht(img) <= AtSos(img) /\ AtSos(img) < len
      BY HeaderInside
    <2>3. /\ img.tables => AtDqt1(img) = AtDqt0(img) + Size(img, "dqt0")
          /\ Size(img, "dqt0") \in Nat /\ Size(img, "dqt0") >= 4
      BY Positions
    <2>4. AtDqt1(img) < len
      BY <2>1, <2>2
    <2>5. AtDqt0(img) + 2 < len
      BY <2>1, <2>3, <2>4, SMTT(60)
    <2> QED
      BY <2>1, <2>3, <2>5
  <1>2. Q0(buf) = Walk(buf, 0, len, DQT)[0]
    <2>1. Soi(buf).len = len
      BY FindsSoi
    <2> QED
      BY <2>1, HeaderIsWalk DEF Q0
  <1>3. Walk(buf, 0, len, DQT)[0] = Walk(buf, 0, len, DQT)[AtDqt0(img)]
    <2>1. DQT \in {DQT, SOS}
      OBVIOUS
    <2> QED
      BY <2>1, WalkToTables
  <1>4. /\ SegmentAt(buf, AtDqt0(img), DQT, Size(img, "dqt0") - 2)
        /\ SegmentAt(buf, AtDqt1(img), DQT, Size(img, "dqt1") - 2)
    BY DEF Parted, Layout
  <1>5. /\ ByteAt(buf, AtDqt0(img)) = 255 /\ ByteAt(buf, AtDqt0(img) + 1) = DQT
        /\ SegmentLen(buf, AtDqt0(img) + 2) = Size(img, "dqt0") - 2
        /\ ByteAt(buf, AtDqt1(img)) = 255 /\ ByteAt(buf, AtDqt1(img) + 1) = DQT
    BY <1>4 DEF SegmentAt
  <1>6. AtDqt0(img) \in 0..(0 + len + 1) /\ AtDqt0(img) - 0 < len
    BY <1>1
  <1> HIDE DEF len
  <1>7. Walk(buf, 0, len, DQT)[AtDqt0(img)]
          = [ok |-> TRUE, start |-> AtDqt0(img) + 2, len |-> len - (AtDqt0(img) + 2 - 0)]
    BY <1>1, <1>5, <1>6, WalkFinds, SMTT(60)
  <1>8. /\ Q0(buf).ok = TRUE /\ Q0(buf).start = AtDqt0(img) + 2
        /\ Q0(buf).len = len - (AtDqt0(img) + 2 - 0)
    BY <1>2, <1>3, <1>7
  <1>9. Q0(buf).start + SegmentLen(buf, Q0(buf).start) = AtDqt1(img)
    BY <1>1, <1>5, <1>8
  <1>10. PICK left \in Nat : left = Q0(buf).len /\ left > 0
    BY <1>1, <1>8
  <1>11. Q1(buf) = Walk(buf, AtDqt1(img), left, DQT)[AtDqt1(img)]
    BY <1>9, <1>10, HeaderIsWalk DEF Q1
  <1>12. Walk(buf, AtDqt1(img), left, DQT)[AtDqt1(img)]
           = [ok |-> TRUE, start |-> AtDqt1(img) + 2, len |-> left - 2]
    BY <1>1, <1>5, <1>10, WalkFindsAtOnce, SMTT(60)
  <1> QED
    BY <1>8, <1>11, <1>12

\* Without tables the search for one runs to the end, or into the byte beyond it.
LEMMA FindsNoTable ==
    ASSUME NEW img \in Images, NEW buf, Parted(buf, img), ~img.tables
    PROVE  Q0(buf).ok = FALSE
  <1> DEFINE len == Len(buf) - 2
             W == Walk(buf, 0, len, DQT)
  <1>1. /\ buf \in Seq(Byte) /\ len \in Nat /\ Len(buf) \in Nat /\ AtSos(img) \in Nat
        /\ AtSos(img) < len /\ AtScan(img) \in Nat
    BY HeaderInside
  <1>2. Q0(buf) = W[0]
    <2>1. Soi(buf).len = len
      BY FindsSoi
    <2> QED
      BY <2>1, HeaderIsWalk DEF Q0
  <1>3. W[0] = W[AtSos(img)]
    <2>1. DQT \in {DQT, SOS}
      OBVIOUS
    <2>2. W[0] = W[AtDqt0(img)]
      BY <2>1, WalkToTables
    <2>3. W[AtDqt0(img)] = W[AtSof(img)]
      BY <2>1, WalkOverTables
    <2>4. W[AtSof(img)] = W[AtSos(img)]
      BY <2>1, WalkToSos
    <2> QED
      BY <2>2, <2>3, <2>4
  <1>4. PICK size \in Nat : size = Size(img, "sos") /\ size >= 4
    BY Positions
  <1>5. AtScan(img) = AtSos(img) + size
    <2>1. AtScan(img) = AtSos(img) + Size(img, "sos")
      BY Positions
    <2> QED
      BY <1>4, <2>1
  <1>6. W[AtSos(img)] = IF AtSos(img) + size <= len
                          THEN W[AtSos(img) + size] ELSE Lost(0, len)
    <2>1. SegmentAt(buf, AtSos(img), SOS, size - 2)
      BY <1>4 DEF Parted, Layout
    <2>2. SOS \in Sections \ {DQT}
      BY DEF Sections, SOS, DQT
    <2>3. AtSos(img) < len /\ buf \in Seq(Byte) /\ len \in Nat
      BY <1>1
    <2> HIDE DEF len
    <2> QED
      BY <1>1, <1>4, <2>1, <2>2, <2>3, SegmentSkipped
  <1>7. ASSUME AtScan(img) <= len PROVE W[AtScan(img)] = Lost(0, len)
    <2>1. AtScan(img) \in 0..(0 + len + 1)
      BY <1>1, <1>7
    <2>2. ASSUME NEW p \in AtScan(img)..(0 + len - 1), ByteAt(buf, p) = 255
          PROVE  ByteAt(buf, p + 1) \notin Sections \cup {DQT}
      <3>1. p \in AtScan(img)..(Len(buf) - 1)
        BY <1>1
      <3>2. ByteAt(buf, p + 1) \in {0, EOI} \cup 208..215
        BY <2>2, <3>1, RestHasNoSegment DEF Continuing
      <3> QED
        BY <3>2, SMTT(60) DEF EOI, Sections, DQT, SOS
    <2> HIDE DEF len
    <2> QED
      BY <1>1, <2>1, <2>2, WalkFindsNothing
  <1>8. W[AtSos(img)] = Lost(0, len)
    BY <1>5, <1>6, <1>7
  <1> QED
    BY <1>2, <1>3, <1>8 DEF Lost

\* The marks that skipScanBytes looks for.
Marks(buf, start, len) ==
    {i \in 0..(len - 1) : /\ ByteAt(buf, start + i) = 255
                          /\ i + 1 < len
                          /\ ByteAt(buf, start + i + 1) # 0}

LEMMA SkipIsFirstMark ==
    ASSUME NEW buf, NEW start, NEW len \in Nat
    PROVE  skipScanBytes(buf, start, len, len)
             = IF Marks(buf, start, len) = {} THEN [ok |-> FALSE, pos |-> len]
               ELSE [ok |-> TRUE, pos |-> Min(Marks(buf, start, len))]
  <1>1. ~(len < len)
    OBVIOUS
  <1> QED
    BY <1>1, Zenon DEF skipScanBytes, Marks

LEMMA LeastIsMin ==
    ASSUME NEW S, S \subseteq Nat, NEW m \in S, \A y \in S : m <= y
    PROVE  Min(S) = m
  <1>1. ASSUME NEW x \in S, \A y \in S : x <= y PROVE x = m
    BY <1>1
  <1> QED
    BY <1>1 DEF Min

\* With an ending the first mark is where the scan ends.
LEMMA FindsMark ==
    ASSUME NEW img \in Images, NEW buf, Parted(buf, img),
           ByteAt(buf, AtEnd(img)) = 255, ByteAt(buf, AtEnd(img) + 1) # 0,
           AtEnd(img) + 1 < Len(buf), Data(buf) = AtScan(img)
    PROVE  Mark(buf) = [ok |-> TRUE, pos |-> Len(img.scan)]
  <1>1. /\ AtScan(img) \in Nat /\ AtEnd(img) \in Nat /\ Len(buf) \in Nat
        /\ AtScan(img) <= AtEnd(img)
    <2>1. AtScan(img) \in Nat
      BY Positions
    <2> QED
      BY <2>1 DEF Parted
  <1>2. Len(img.scan) \in Nat
    BY DEF Images, Scans
  <1>3. PICK n \in Nat : n = Len(img.scan) /\ AtEnd(img) = AtScan(img) + n
    BY <1>2 DEF AtEnd
  <1>4. PICK len \in Nat : len = Avail(buf) /\ len = Len(buf) - AtScan(img)
    BY <1>1 DEF Avail
  <1> DEFINE S == Marks(buf, AtScan(img), len)
  <1>5. n \in S
    <2>1. n \in 0..(len - 1) /\ n + 1 < len
      BY <1>1, <1>3, <1>4, SMTT(60)
    <2> QED
      BY <1>3, <2>1 DEF Marks
  <1>6. ASSUME NEW i \in S PROVE i \in Nat /\ n <= i
    <2>1. /\ i \in Nat /\ ByteAt(buf, AtScan(img) + i) = 255
          /\ ByteAt(buf, AtScan(img) + i + 1) # 0
      BY <1>6 DEF Marks
    <2>2. CASE i < n
      <3>1. AtScan(img) + i \in AtScan(img)..(AtEnd(img) - 1)
        BY <1>1, <1>3, <2>1, <2>2, SMTT(60)
      <3>2. ByteAt(buf, AtScan(img) + i + 1) = 0
        BY <2>1, <3>1, ScanBytes
      <3> QED
        BY <2>1, <3>2
    <2> QED
      BY <2>1, <2>2
  <1>7. S # {} /\ Min(S) = n
    <2>1. S \subseteq Nat
      BY <1>6
    <2> HIDE DEF S
    <2> QED
      BY <1>5, <1>6, <2>1, LeastIsMin
  <1>8. Mark(buf) = skipScanBytes(buf, AtScan(img), len, len)
    BY <1>4 DEF Mark
  <1>9. skipScanBytes(buf, AtScan(img), len, len) = [ok |-> TRUE, pos |-> Min(S)]
    BY <1>7, SkipIsFirstMark
  <1> QED
    BY <1>3, <1>7, <1>8, <1>9

\* Without one there is no mark.
LEMMA FindsNoMark ==
    ASSUME NEW img \in Images, NEW buf, Parted(buf, img), img.ending = <<>>,
           Data(buf) = AtScan(img)
    PROVE  Mark(buf).ok = FALSE
  <1>1. /\ AtScan(img) \in Nat /\ AtEnd(img) \in Nat /\ Len(buf) \in Nat
        /\ AtScan(img) <= AtEnd(img) /\ AtEnd(img) <= Len(buf)
    <2>1. AtScan(img) \in Nat
      BY Positions
    <2>2. AtPad(img) = AtEnd(img)
      BY NoEndBytes
    <2> QED
      BY <2>1, <2>2 DEF Parted
  <1>2. PICK len \in Nat : len = Avail(buf) /\ len = Len(buf) - AtScan(img)
    BY <1>1 DEF Avail
  <1>3. ASSUME NEW i \in Marks(buf, AtScan(img), len) PROVE FALSE
    <2>1. /\ i \in Nat /\ i < len /\ ByteAt(buf, AtScan(img) + i) = 255
          /\ ByteAt(buf, AtScan(img) + i + 1) # 0
      BY <1>3 DEF Marks
    <2>2. CASE AtScan(img) + i < AtEnd(img)
      <3>1. AtScan(img) + i \in AtScan(img)..(AtEnd(img) - 1)
        BY <1>1, <2>1, <2>2
      <3>2. ByteAt(buf, AtScan(img) + i + 1) = 0
        BY <2>1, <3>1, ScanBytes
      <3> QED
        BY <2>1, <3>2
    <2>3. CASE AtEnd(img) <= AtScan(img) + i
      <3>1. AtPad(img) = AtEnd(img)
        BY NoEndBytes
      <3>2. AtScan(img) + i \in Nat /\ AtScan(img) + i < Len(buf)
        BY <1>1, <1>2, <2>1
      <3>3. ByteAt(buf, AtScan(img) + i) = 0
        BY <2>3, <3>1, <3>2 DEF Parted
      <3> QED
        BY <2>1, <3>3
    <2> QED
      BY <1>1, <2>1, <2>2, <2>3
  <1>4. Marks(buf, AtScan(img), len) = {}
    BY <1>3
  <1>5. Mark(buf) = skipScanBytes(buf, AtScan(img), len, len)
    BY <1>2 DEF Mark
  <1>6. skipScanBytes(buf, AtScan(img), len, len) = [ok |-> FALSE, pos |-> len]
    BY <1>4, SkipIsFirstMark
  <1> QED
    BY <1>5, <1>6

\* A whole file: EOI is where the mark was found.
LEMMA FindsEoi ==
    ASSUME NEW img \in Images, NEW buf, Parted(buf, img), img.ending = <<255, EOI>>,
           Data(buf) = AtScan(img)
    PROVE  /\ Data(buf) < Len(buf) /\ Mark(buf).ok = TRUE
           /\ Eoi(buf).ok = TRUE /\ Eoi(buf).start - Data(buf) = Len(img.scan) + 2
  <1>1. /\ AtPad(img) = AtEnd(img) + 2
        /\ ByteAt(buf, AtEnd(img)) = 255 /\ ByteAt(buf, AtEnd(img) + 1) = EOI
    BY EndBytes
  <1>2. /\ AtScan(img) \in Nat /\ AtEnd(img) \in Nat /\ Len(buf) \in Nat
        /\ AtScan(img) <= AtEnd(img) /\ AtEnd(img) + 2 <= Len(buf)
    <2>1. AtScan(img) \in Nat
      BY Positions
    <2> QED
      BY <1>1, <2>1 DEF Parted
  <1>3. Mark(buf) = [ok |-> TRUE, pos |-> Len(img.scan)]
    <2>1. EOI # 0 /\ AtEnd(img) + 1 < Len(buf)
      BY <1>2 DEF EOI
    <2> QED
      BY <1>1, <2>1, FindsMark
  <1>4. PICK n \in Nat : n = Len(img.scan) /\ AtEnd(img) = AtScan(img) + n
    <2>1. Len(img.scan) \in Nat
      BY DEF Images, Scans
    <2> QED
      BY <2>1 DEF AtEnd
  <1>5. PICK left \in Nat : left = Avail(buf) - Mark(buf).pos /\ 0 < left
    <2>1. Mark(buf).pos = n
      BY <1>3, <1>4
    <2>2. Avail(buf) = Len(buf) - AtScan(img)
      BY DEF Avail
    <2>3. (Len(buf) - AtScan(img)) - n \in Nat /\ 0 < (Len(buf) - AtScan(img)) - n
      BY <1>2, <1>4, SMTT(60)
    <2> QED
      BY <2>1, <2>2, <2>3
  <1>6. Eoi(buf) = Walk(buf, AtEnd(img), left, EOI)[AtEnd(img)]
    <2>1. Data(buf) + Mark(buf).pos = AtEnd(img)
      BY <1>3, <1>4
    <2> QED
      BY <1>5, <2>1, HeaderIsWalk DEF Eoi
  <1>7. Walk(buf, AtEnd(img), left, EOI)[AtEnd(img)]
          = [ok |-> TRUE, start |-> AtEnd(img) + 2, len |-> left - 2]
    <2>1. buf \in Seq(Byte)
      BY DEF Parted, Bytes
    <2> QED
      BY <1>1, <1>2, <1>5, <2>1, WalkFindsAtOnce
  <1>8. Eoi(buf).ok = TRUE /\ Eoi(buf).start = AtEnd(img) + 2
    BY <1>6, <1>7
  <1>9. (AtEnd(img) + 2) - AtScan(img) = Len(img.scan) + 2 /\ AtScan(img) < Len(buf)
    BY <1>2, <1>4, SMTT(60)
  <1>10. Mark(buf).ok = TRUE
    BY <1>3
  <1> QED
    BY <1>8, <1>9, <1>10

\* A broken file: the search for EOI steps over the restart marker and is lost.
LEMMA FindsNoEoi ==
    ASSUME NEW img \in Images, NEW buf, Parted(buf, img),
           NEW r \in 208..215, NEW b \in 0..254, img.ending = Broken(r, b),
           Data(buf) = AtScan(img)
    PROVE  Eoi(buf).ok = FALSE
  <1>1. /\ AtPad(img) = AtEnd(img) + 5
        /\ ByteAt(buf, AtEnd(img)) = 255 /\ ByteAt(buf, AtEnd(img) + 1) = r
        /\ ByteAt(buf, AtEnd(img) + 2) = b
    <2>1. BrokenAt(buf, img, r, b)
      BY BrokenBytes, ZenonT(90)
    <2> QED
      BY <2>1 DEF BrokenAt
  <1>2. /\ AtScan(img) \in Nat /\ AtEnd(img) \in Nat /\ Len(buf) \in Nat
        /\ AtScan(img) <= AtEnd(img) /\ AtEnd(img) + 5 <= Len(buf)
    <2>1. AtScan(img) \in Nat
      BY Positions
    <2> QED
      BY <1>1, <2>1 DEF Parted
  <1>3. Mark(buf) = [ok |-> TRUE, pos |-> Len(img.scan)]
    <2>1. r # 0 /\ AtEnd(img) + 1 < Len(buf)
      BY <1>2
    <2> QED
      BY <1>1, <2>1, FindsMark
  <1>4. PICK n \in Nat : n = Len(img.scan) /\ AtEnd(img) = AtScan(img) + n
    <2>1. Len(img.scan) \in Nat
      BY DEF Images, Scans
    <2> QED
      BY <2>1 DEF AtEnd
  <1>5. PICK left \in Nat : left = Avail(buf) - Mark(buf).pos /\ 0 < left
    <2>1. Mark(buf).pos = n
      BY <1>3, <1>4
    <2>2. Avail(buf) = Len(buf) - AtScan(img)
      BY DEF Avail
    <2>3. (Len(buf) - AtScan(img)) - n \in Nat /\ 0 < (Len(buf) - AtScan(img)) - n
      BY <1>2, <1>4, SMTT(60)
    <2> QED
      BY <2>1, <2>2, <2>3
  <1>6. Eoi(buf) = Walk(buf, AtEnd(img), left, EOI)[AtEnd(img)]
    <2>1. Data(buf) + Mark(buf).pos = AtEnd(img)
      BY <1>3, <1>4
    <2> QED
      BY <1>5, <2>1, HeaderIsWalk DEF Eoi
  <1> DEFINE end == AtEnd(img)
             W == Walk(buf, end, left, EOI)
  <1>7. buf \in Seq(Byte)
    BY DEF Parted, Bytes
  <1>8. W[end] = W[end + 2]
    <2>1. end \in end..(end + left + 1) /\ end - end < left
      BY <1>2, <1>5
    <2>2. r \notin Sections \cup {EOI}
      BY DEF Sections, EOI, DQT, SOS
    <2> QED
      BY <1>1, <1>2, <1>5, <1>7, <2>1, <2>2, WalkPasses, SMTT(60)
  <1>9. W[end + 2] = Lost(end, left)
    <2>1. end \in Nat /\ left \in Nat /\ 0 < left
      BY <1>2, <1>5
    <2>2. ByteAt(buf, end + 2) # 255
      BY <1>1
    <2> HIDE DEF end
    <2>3. end + 2 \in end..(end + left + 1)
      BY <2>1
    <2> QED
      BY <1>7, <2>1, <2>2, <2>3, WalkLost
  <1> QED
    BY <1>6, <1>8, <1>9 DEF Lost

\* Whatever it sends and refuses, the decoder is right about a file of the driver.
LEMMA FilesDecode ==
    ASSUME NEW img \in Images
    PROVE  LET file == JpegOf(img)
               found == decodeJPEGfile(file.bytes)
           IN /\ found.ok <=> file.whole
              /\ found.ok => /\ found.start = file.start /\ found.len = file.len
                             /\ found.q0 = file.q0 /\ found.q1 = file.q1
                             /\ found.len \in Nat \ {0}
  <1> DEFINE file == JpegOf(img)
             buf == file.bytes
             found == decodeJPEGfile(buf)
  <1>1. Parted(buf, img)
    BY FileParted
  <1>2. /\ file.whole <=> img.ending = <<255, EOI>>
        /\ file.start = Len(Header(img)) /\ file.len = Len(img.scan) + 2
        /\ file.q0 = IF img.tables THEN Len(Start(img)) + 5 ELSE NoTable
        /\ file.q1 = IF img.tables
                     THEN Len(Start(img)) + Len(img.payload["dqt0"]) + 9 ELSE NoTable
    BY DEF JpegOf
  <1> HIDE DEF buf, file
  <1>3. Soi(buf).ok = TRUE /\ Sos(buf).ok = TRUE /\ Data(buf) = AtScan(img)
    <2>1. Soi(buf) = [ok |-> TRUE, start |-> 2, len |-> Len(buf) - 2]
      BY <1>1, FindsSoi
    <2>2. Sos(buf).ok = TRUE /\ Data(buf) = AtScan(img)
      BY <1>1, FindsSos
    <2> QED
      BY <2>1, <2>2
  <1>4. CASE img.ending = <<255, EOI>>
    <2>1. /\ Data(buf) < Len(buf) /\ Mark(buf).ok = TRUE
          /\ Eoi(buf).ok = TRUE /\ Eoi(buf).start - Data(buf) = Len(img.scan) + 2
      BY <1>1, <1>3, <1>4, FindsEoi
    <2>2. ~(Data(buf) >= Len(buf))
      <3>1. Data(buf) \in Nat /\ Len(buf) \in Nat
        <4>1. AtScan(img) \in Nat
          BY Positions
        <4> QED
          BY <1>1, <1>3, <4>1 DEF Parted
      <3> QED
        BY <2>1, <3>1
    <2>3. found = [ok |-> TRUE, start |-> Data(buf), len |-> Eoi(buf).start - Data(buf),
                   q0 |-> IF Q0(buf).ok THEN Q0(buf).start + 3 ELSE NoTable,
                   q1 |-> IF Q0(buf).ok THEN Q1(buf).start + 3 ELSE NoTable]
      BY <1>3, <2>1, <2>2, DecodeStages
    <2>4. found.ok /\ found.start = file.start /\ found.len = file.len
      BY <1>2, <1>3, <2>1, <2>3, HeaderLayout
    <2>5. found.q0 = file.q0 /\ found.q1 = file.q1
      <3>1. CASE img.tables
        <4>1. /\ Q0(buf).ok = TRUE /\ Q0(buf).start = AtDqt0(img) + 2
              /\ Q1(buf).start = AtDqt1(img) + 2
          BY <1>1, <3>1, FindsTables
        <4>2. found.q0 = AtDqt0(img) + 2 + 3 /\ found.q1 = AtDqt1(img) + 2 + 3
          BY <2>3, <4>1
        <4>3. /\ AtDqt0(img) \in Nat /\ AtDqt1(img) = AtDqt0(img) + Size(img, "dqt0")
              /\ Len(img.payload["dqt0"]) \in Nat
          <5>1. /\ AtDqt0(img) \in Nat
                /\ img.tables => AtDqt1(img) = AtDqt0(img) + Size(img, "dqt0")
            BY Positions
          <5>2. img.payload["dqt0"] \in Payloads
            BY Positions
          <5>3. Len(img.payload["dqt0"]) \in Nat
            BY <5>2 DEF Payloads
          <5> QED
            BY <3>1, <5>1, <5>3
        <4>4. Len(Start(img)) = AtDqt0(img)
          BY HeaderLayout
        <4> QED
          <5>1. Size(img, "dqt0") = Len(img.payload["dqt0"]) + 4
            BY DEF Size
          <5>2. /\ file.q0 = AtDqt0(img) + 5
                /\ file.q1 = AtDqt0(img) + Len(img.payload["dqt0"]) + 9
            BY <1>2, <3>1, <4>4
          <5>3. /\ AtDqt0(img) + 2 + 3 = AtDqt0(img) + 5
                /\ AtDqt1(img) + 2 + 3 = AtDqt0(img) + Len(img.payload["dqt0"]) + 9
            BY <4>3, <5>1, SMTT(60)
          <5> QED
            BY <4>2, <5>2, <5>3
      <3>2. CASE ~img.tables
        <4>1. Q0(buf).ok = FALSE
          BY <1>1, <3>2, FindsNoTable
        <4> QED
          BY <1>2, <2>3, <3>2, <4>1
      <3> QED
        BY <3>1, <3>2
    <2>6. file.len \in Nat \ {0}
      <3>1. Len(img.scan) \in Nat
        BY DEF Images, Scans
      <3> QED
        BY <1>2, <3>1
    <2> QED
      BY <1>2, <1>4, <2>4, <2>5, <2>6 DEF buf, file
  <1>5. ASSUME img.ending # <<255, EOI>> PROVE found = Refused
    <2>1. CASE img.ending = <<>>
      <3>1. Mark(buf).ok = FALSE
        BY <1>1, <1>3, <2>1, FindsNoMark
      <3> QED
        BY <3>1, DecodeStages
    <2>2. CASE \E r \in 208..215, b \in 0..254 : img.ending = Broken(r, b)
      <3>0. PICK r \in 208..215, b \in 0..254 : img.ending = Broken(r, b)
        BY <2>2, ZenonT(60)
      <3>1. Eoi(buf).ok = FALSE
        BY <1>1, <1>3, <3>0, FindsNoEoi, ZenonT(90)
      <3> QED
        BY <3>1, DecodeStages, SMTT(60)
    <2>3. \/ img.ending = <<255, EOI>>
          \/ img.ending = <<>>
          \/ \E r \in 208..215, b \in 0..254 : img.ending = Broken(r, b)
      BY EndingCases, ZenonT(60)
    <2> QED
      BY <1>5, <2>1, <2>2, <2>3, ZenonT(60)
  <1>6. CASE img.ending # <<255, EOI>>
    <2>1. ~found.ok
      BY <1>5, <1>6 DEF Refused
    <2> QED
      BY <1>2, <1>6, <2>1 DEF buf, file
  <1> QED
    BY <1>4, <1>6

-----------------------------------------------------------------------------
(* The streamer.                                                           *)

\* The decoder's answer tells what is in the file.
Exact(file, found) ==
    /\ found.ok <=> file.whole
    /\ found.ok => /\ found.start = file.start /\ found.len = file.len
                   /\ found.q0 = file.q0 /\ found.q1 = file.q1

LEMMA FilesAreExact ==
    ASSUME NEW f \in Files
    PROVE  /\ f.bytes \in Seq(0..255)
           /\ Exact(f, decodeJPEGfile(f.bytes))
           /\ decodeJPEGfile(f.bytes).ok => decodeJPEGfile(f.bytes).len \in Nat \ {0}
  <1>1. PICK i \in Recorded : f = JpegOf(i)
    BY DEF Files
  <1>2. i \in Images
    BY RtpAssumption
  <1>3. f.bytes \in Seq(0..255)
    BY <1>1, <1>2, FileParted DEF Parted, Bytes, Byte
  <1>4. /\ Exact(JpegOf(i), decodeJPEGfile(JpegOf(i).bytes))
        /\ decodeJPEGfile(JpegOf(i).bytes).ok
              => decodeJPEGfile(JpegOf(i).bytes).len \in Nat \ {0}
    BY <1>2, FilesDecode, Zenon DEF Exact
  <1> QED
    BY <1>1, <1>3, <1>4

\* The packets sent so far end where the next one begins.
EndOf(packets) ==
    IF packets = <<>> THEN 0 ELSE packets[Len(packets)].off + packets[Len(packets)].len

Progress ==
    pc \in {"send", "sent"} =>
        /\ image.len \in Nat \ {0}
        /\ offset = EndOf(out)
        /\ offset = 0 <=> out = <<>>
        /\ pc = "send" => offset < image.len
        /\ pc = "sent" => offset = image.len

IInv == TypeOK /\ PacketsReassemble /\ Progress

\* A packet is never empty, never too long, and ends within the frame.
LEMMA FragmentFits ==
    ASSUME image.len \in Nat, offset \in Nat, offset < image.len
    PROVE  /\ Fragment \in 1..MaxFragment
           /\ offset + Fragment <= image.len
  BY RtpAssumption DEF Fragment

\* One more packet leaves the packets before it as they were.
LEMMA Appended ==
    ASSUME NEW S, NEW s \in Seq(S), NEW e \in S
    PROVE  /\ Append(s, e) \in Seq(S) /\ Append(s, e) # <<>>
           /\ Len(Append(s, e)) = Len(s) + 1
           /\ Append(s, e)[Len(s) + 1] = e
           /\ \A i \in 1..Len(s) : Append(s, e)[i] = s[i]
  OBVIOUS

\* The counters wrap: what streamFrame adds stays within the width.
LEMMA StampsWrap ==
    ASSUME NEW stamp \in Stamp, NEW ms \in Nat
    PROVE  (stamp + ((Units * ms) % Word) \div Milli) % Word \in Stamp
  <1>1. Units \in Nat /\ Word \in Nat \ {0} /\ Milli \in Nat \ {0}
    BY RtpAssumption
  <1>2. Units * ms \in Nat
    BY <1>1
  <1>3. (Units * ms) % Word \in Nat
    BY <1>1, <1>2
  <1>4. ((Units * ms) % Word) \div Milli \in Nat
    BY <1>1, <1>3
  <1> DEFINE t == stamp + ((Units * ms) % Word) \div Milli
  <1>5. t \in Nat
    BY <1>1, <1>4 DEF Stamp
  <1> HIDE DEF t
  <1>6. t % Word \in 0..(Word - 1)
    BY <1>1, <1>5
  <1> QED
    BY <1>6 DEF t, Stamp

LEMMA Initially == Init => IInv
  <1> SUFFICES ASSUME Init PROVE IInv
    OBVIOUS
  <1>1. NoPacket \in Packet /\ 0 \in Stamp
    BY RtpAssumption DEF NoPacket, Packet, Stamp
  <1>2. TypeOK
    BY <1>1, RtpAssumption DEF Init, TypeOK, Stamp, NoFrame
  <1>3. PacketsReassemble /\ Progress
    BY DEF Init, PacketsReassemble, Progress
  <1> QED
    BY <1>2, <1>3 DEF IInv

LEMMA StreamFrameKeeps ==
    ASSUME IInv, NEW f \in Files, StreamFrame(f)
    PROVE  IInv'
  <1>1. /\ f.bytes \in Seq(0..255)
        /\ image'.ok => image'.len \in Nat \ {0}
    <2>1. /\ f.bytes \in Seq(0..255)
          /\ decodeJPEGfile(f.bytes).ok => decodeJPEGfile(f.bytes).len \in Nat \ {0}
      BY FilesAreExact
    <2> QED
      BY <2>1 DEF StreamFrame
  <1>2. deltams' \in Nat
    BY RtpAssumption DEF StreamFrame, IInv, TypeOK, Stamp
  <1>3. TypeOK'
    BY <1>1, <1>2 DEF StreamFrame, IInv, TypeOK, Stamp
  <1>4. out' = <<>> /\ offset' = 0
    BY DEF StreamFrame
  <1>5. pc' = "send" => image'.ok
    BY DEF StreamFrame
  <1>6. pc' \in {"send", "idle"}
    BY DEF StreamFrame
  <1>7. PacketsReassemble'
    BY <1>4, <1>6 DEF PacketsReassemble
  <1>8. Progress'
    BY <1>1, <1>4, <1>5, <1>6 DEF Progress, EndOf
  <1> QED
    BY <1>3, <1>7, <1>8 DEF IInv

LEMMA SendRtpPacketKeeps ==
    ASSUME IInv, SendRtpPacket
    PROVE  IInv'
  <1> DEFINE packet ==
        [off |-> offset, len |-> Fragment, marker |-> LastFragment,
         tables |-> image.q0 # NoTable /\ image.q1 # NoTable /\ offset = 0,
         seq |-> m_SequenceNumber, stamp |-> m_Timestamp]
  <1>1. /\ pc = "send" /\ out' = Append(out, packet) /\ last' = packet
        /\ offset' = offset + Fragment
        /\ pc' = IF LastFragment THEN "sent" ELSE "send"
        /\ m_SequenceNumber' = (m_SequenceNumber + 1) % SeqWord
        /\ UNCHANGED <<now, frame, image, m_prevMsec, m_Timestamp, deltams>>
    BY DEF SendRtpPacket, Emit
  <1>2. /\ image.len \in Nat \ {0} /\ offset \in Nat /\ offset < image.len
        /\ offset = EndOf(out) /\ (offset = 0 <=> out = <<>>)
    BY <1>1 DEF IInv, Progress, TypeOK
  <1>3. Fragment \in 1..MaxFragment /\ offset + Fragment <= image.len
    BY <1>2, FragmentFits
  <1>4. Fragment \in Nat \ {0} /\ MaxFragment \in Nat
    BY <1>3, RtpAssumption
  <1>5. packet \in Packet
    <2>1. LastFragment \in BOOLEAN
      BY DEF LastFragment
    <2>2. m_SequenceNumber \in 0..(SeqWord - 1) /\ m_Timestamp \in Stamp
      BY DEF IInv, TypeOK
    <2> QED
      BY <1>2, <1>4, <2>1, <2>2 DEF Packet
  <1>6. out \in Seq(Packet)
    BY DEF IInv, TypeOK
  <1> HIDE DEF packet
  <1>7. /\ out' \in Seq(Packet) /\ out' # <<>> /\ Len(out') = Len(out) + 1
        /\ out'[Len(out) + 1] = packet
        /\ \A i \in 1..Len(out) : out'[i] = out[i]
    BY <1>1, <1>5, <1>6, Appended
  <1>8. Len(out) \in Nat
    BY <1>6
  <1>9. TypeOK'
    <2>1. (m_SequenceNumber + 1) % SeqWord \in 0..(SeqWord - 1)
      BY RtpAssumption, SMTT(60) DEF IInv, TypeOK
    <2>2. offset' \in Nat /\ pc' \in {"idle", "send", "sent"}
      BY <1>1, <1>2, <1>4
    <2> QED
      BY <1>1, <1>5, <1>7, <2>1, <2>2 DEF IInv, TypeOK, Stamp
  <1>10. EndOf(out') = offset + Fragment
    BY <1>7, <1>8 DEF EndOf, packet
  <1>11. LastFragment <=> offset + Fragment = image.len
    BY DEF LastFragment
  <1>12. Progress'
    <2>1. offset' = EndOf(out') /\ offset' > 0
      BY <1>1, <1>2, <1>4, <1>10
    <2>2. image'.len \in Nat \ {0} /\ offset' <= image'.len
      BY <1>1, <1>2, <1>3
    <2>3. pc' = "send" => offset' < image'.len
      BY <1>1, <1>11, <1>2, <1>3, <1>4
    <2>4. pc' = "sent" => offset' = image'.len
      BY <1>1, <1>11
    <2> QED
      BY <2>1, <2>2, <2>3, <2>4, <1>7 DEF Progress
  <1>13. PacketsReassemble'
    <2>1. pc' # "idle"
      BY <1>1
    <2> SUFFICES ASSUME NEW i \in 1..(Len(out) + 1)
                 PROVE  /\ out'[i].off = (IF i = 1 THEN 0
                                          ELSE out'[i - 1].off + out'[i - 1].len)
                        /\ out'[i].len \in 1..MaxFragment
                        /\ out'[i].marker <=> out'[i].off + out'[i].len = image.len
                        /\ out'[i].tables <=> /\ i = 1
                                              /\ image.q0 # NoTable /\ image.q1 # NoTable
                        /\ out'[i].stamp = m_Timestamp
      <3>1. pc' = "sent" => out'[Len(out')].marker
        BY <1>1, <1>7 DEF packet
      <3> QED
        BY <1>1, <1>7, <2>1, <3>1 DEF PacketsReassemble
    <2>2. CASE i \in 1..Len(out)
      <3>1. i \in Nat /\ out'[i] = out[i] /\ (i # 1 => out'[i - 1] = out[i - 1])
        BY <1>7, <1>8, <2>2
      <3>2. /\ out[i].off = (IF i = 1 THEN 0 ELSE out[i - 1].off + out[i - 1].len)
            /\ out[i].len \in 1..MaxFragment
            /\ out[i].marker <=> out[i].off + out[i].len = image.len
            /\ out[i].tables <=> i = 1 /\ image.q0 # NoTable /\ image.q1 # NoTable
            /\ out[i].stamp = m_Timestamp
        BY <1>1, <2>2 DEF IInv, PacketsReassemble
      <3> QED
        BY <3>1, <3>2
    <2>3. CASE i = Len(out) + 1
      <3>1. out'[i] = packet
        BY <1>7, <2>3
      <3>2. packet.off = (IF i = 1 THEN 0 ELSE out'[i - 1].off + out'[i - 1].len)
        <4>1. packet.off = EndOf(out)
          BY <1>2 DEF packet
        <4>2. CASE i = 1
          <5>1. out = <<>>
            BY <4>2, <2>3, <1>6, <1>8
          <5> QED
            BY <5>1, <4>1, <4>2 DEF EndOf
        <4>3. CASE i # 1
          <5>1. i - 1 = Len(out) /\ Len(out) \in 1..Len(out) /\ out # <<>>
            BY <4>3, <2>3, <1>6, <1>8
          <5>2. out'[i - 1] = out[Len(out)]
            BY <5>1, <1>7
          <5> QED
            BY <5>1, <5>2, <4>1, <4>3 DEF EndOf
        <4> QED
          BY <4>2, <4>3
      <3>3. packet.len \in 1..MaxFragment /\ packet.stamp = m_Timestamp
        BY <1>3 DEF packet
      <3>4. packet.marker <=> packet.off + packet.len = image.len
        BY <1>11 DEF packet
      <3>5. packet.tables <=> i = 1 /\ image.q0 # NoTable /\ image.q1 # NoTable
        <4>1. i = 1 <=> out = <<>>
          BY <2>3, <1>6, <1>8
        <4> QED
          BY <4>1, <1>2 DEF packet
      <3> QED
        BY <3>1, <3>2, <3>3, <3>4, <3>5
    <2> QED
      BY <2>2, <2>3, <1>8
  <1> QED
    BY <1>9, <1>12, <1>13 DEF IInv

LEMMA FrameSentKeeps ==
    ASSUME IInv, FrameSent
    PROVE  IInv'
  <1>1. m_Timestamp' \in Stamp
    BY StampsWrap DEF FrameSent, IInv, TypeOK
  <1>2. TypeOK'
    BY <1>1 DEF FrameSent, IInv, TypeOK, Stamp
  <1>3. pc' = "idle" /\ UNCHANGED <<image, out>>
    BY DEF FrameSent
  <1>4. PacketsReassemble'
    BY <1>3 DEF IInv, PacketsReassemble
  <1>5. Progress'
    BY <1>3 DEF Progress
  <1> QED
    BY <1>2, <1>4, <1>5 DEF IInv

LEMMA PassKeeps ==
    ASSUME IInv, Pass
    PROVE  IInv'
  <1>1. now' \in Stamp
    <2>1. PICK gap \in Gaps : now' = (now + gap) % Word
      BY DEF Pass
    <2>2. now + gap \in Nat /\ Word \in Nat \ {0}
      BY <2>1, RtpAssumption DEF IInv, TypeOK, Stamp
    <2> QED
      BY <2>1, <2>2 DEF Stamp
  <1>2. TypeOK'
    BY <1>1 DEF Pass, IInv, TypeOK, Stamp, sessionVars, NoFrame
  <1>3. PacketsReassemble' /\ Progress'
    BY DEF Pass, PacketsReassemble, Progress
  <1> QED
    BY <1>2, <1>3 DEF IInv

LEMMA StepsKeep == IInv /\ [Next]_vars => IInv'
  <1> SUFFICES ASSUME IInv, [Next]_vars PROVE IInv'
    OBVIOUS
  <1>1. ASSUME NEW f \in Files, StreamFrame(f) PROVE IInv'
    BY <1>1, StreamFrameKeeps
  <1>2. CASE SendRtpPacket
    BY <1>2, SendRtpPacketKeeps
  <1>3. CASE FrameSent
    BY <1>3, FrameSentKeeps
  <1>4. CASE Pass
    BY <1>4, PassKeeps
  <1>5. CASE UNCHANGED vars
    <2>1. TypeOK'
      BY <1>5 DEF vars, sessionVars, IInv, TypeOK, Stamp
    <2>2. PacketsReassemble'
      BY <1>5 DEF vars, sessionVars, IInv, PacketsReassemble
    <2>3. Progress'
      BY <1>5 DEF vars, sessionVars, IInv, Progress, EndOf
    <2> QED
      BY <2>1, <2>2, <2>3 DEF IInv
  <1> QED
    BY <1>1, <1>2, <1>3, <1>4, <1>5 DEF Next

LEMMA Inductive == Spec => []IInv
  BY Initially, StepsKeep, PTL DEF Spec

\* The streamer's state keeps its type: in particular clock, timestamp and
\* sequence number stay within the width of their fields.
THEOREM TypeCorrect == Spec => []TypeOK
  <1>1. IInv => TypeOK
    BY DEF IInv
  <1> QED
    BY <1>1, Inductive, PTL

\* Whatever the length of the frame and the size of a packet, the packets of a
\* frame put together are its data, with one marker, at the end.
THEOREM FramesReassemble == Spec => []PacketsReassemble
  <1>1. IInv => PacketsReassemble
    BY DEF IInv
  <1> QED
    BY <1>1, Inductive, PTL

-----------------------------------------------------------------------------
(* The numbering of the packets across frames.                             *)

Numbering ==
    /\ m_SequenceNumber = (last.seq + 1) % SeqWord
    /\ IF pc = "send" THEN offset = 0 <=> last.marker ELSE last.marker

\* The step that SequenceContinues allows.
Numbered == last' # last => /\ last'.seq = (last.seq + 1) % SeqWord
                            /\ last'.off = 0 <=> last.marker

LEMMA NumberingInitially == Init => Numbering
  <1>1. ((SeqWord - 1) + 1) % SeqWord = 0
    BY RtpAssumption
  <1> QED
    BY <1>1 DEF Init, Numbering, NoPacket

\* Only SendRtpPacket sends, and it takes up the numbering where it was left.
LEMMA SendNumbers ==
    ASSUME IInv, Numbering, SendRtpPacket
    PROVE  /\ Numbering'
           /\ last'.seq = (last.seq + 1) % SeqWord
           /\ last'.off = 0 <=> last.marker
  <1>1. /\ pc = "send"
        /\ last'.off = offset /\ last'.seq = m_SequenceNumber
        /\ last'.marker = LastFragment
        /\ offset' = offset + Fragment
        /\ pc' = IF LastFragment THEN "sent" ELSE "send"
        /\ m_SequenceNumber' = (m_SequenceNumber + 1) % SeqWord
    BY DEF SendRtpPacket, Emit
  <1>2. offset \in Nat /\ image.len \in Nat /\ offset < image.len
    BY <1>1 DEF IInv, TypeOK, Progress
  <1>3. offset + Fragment > 0
    BY <1>2, FragmentFits, RtpAssumption
  <1>4. m_SequenceNumber' = (last'.seq + 1) % SeqWord
    BY <1>1
  <1>5. (pc' = "send" <=> ~LastFragment) /\ offset' # 0
    BY <1>1, <1>2, <1>3
  <1>6. IF pc' = "send" THEN offset' = 0 <=> last'.marker ELSE last'.marker
    BY <1>1, <1>5
  <1>7. Numbering'
    BY <1>4, <1>6 DEF Numbering
  <1> QED
    BY <1>1, <1>7 DEF Numbering

LEMMA NumberingKept == IInv /\ Numbering /\ [Next]_vars => Numbering' /\ Numbered
  <1> SUFFICES ASSUME IInv, Numbering, [Next]_vars
               PROVE  Numbering' /\ Numbered
    OBVIOUS
  <1>1. ASSUME NEW f \in Files, StreamFrame(f) PROVE Numbering' /\ last' = last
    BY <1>1 DEF StreamFrame, Numbering
  <1>2. CASE SendRtpPacket
    BY <1>2, SendNumbers DEF Numbered
  <1>3. FrameSent => Numbering' /\ last' = last
    BY DEF FrameSent, Numbering
  <1>4. Pass => Numbering' /\ last' = last
    BY DEF Pass, Numbering, sessionVars
  <1>5. UNCHANGED vars => Numbering' /\ last' = last
    BY DEF vars, sessionVars, Numbering
  <1>6. last' = last => Numbered
    BY DEF Numbered
  <1> QED
    BY <1>1, <1>2, <1>3, <1>4, <1>5, <1>6 DEF Next

\* For every width of the sequence number, a session's packets are numbered
\* without a gap over all its frames, and each frame starts right after a marker.
THEOREM NumberedWithoutGap == Spec => SequenceContinues
  <1>1. Spec => [](IInv /\ Numbering)
    <2>1. Init => IInv /\ Numbering
      BY Initially, NumberingInitially
    <2>2. IInv /\ Numbering /\ [Next]_vars => (IInv /\ Numbering)'
      BY StepsKeep, NumberingKept
    <2> QED
      BY <2>1, <2>2, PTL DEF Spec
  <1>2. IInv /\ Numbering /\ [Next]_vars => [Numbered]_vars
    BY NumberingKept
  <1> QED
    BY <1>1, <1>2, PTL DEF Spec, SequenceContinues, Numbered

-----------------------------------------------------------------------------
(* The decoder's answers.                                                  *)

LEMMA ExactnessKept == DecodeIsExact /\ [Next]_vars => DecodeIsExact'
  <1> SUFFICES ASSUME DecodeIsExact, [Next]_vars PROVE DecodeIsExact'
    OBVIOUS
  <1>1. ASSUME NEW f \in Files, StreamFrame(f) PROVE DecodeIsExact'
    <2>1. frame' = f /\ image' = decodeJPEGfile(f.bytes)
      BY <1>1 DEF StreamFrame
    <2>2. Exact(frame', image')
      BY <2>1, FilesAreExact
    <2> QED
      BY <2>2 DEF DecodeIsExact, Exact
  <1>2. Pass => frame' = NoFrame
    BY DEF Pass
  <1>3. SendRtpPacket \/ FrameSent \/ UNCHANGED vars => UNCHANGED <<frame, image>>
    BY DEF SendRtpPacket, Emit, FrameSent, vars
  <1>4. UNCHANGED <<frame, image>> => DecodeIsExact'
    BY DEF DecodeIsExact
  <1> QED
    BY <1>1, <1>2, <1>3, <1>4 DEF Next, DecodeIsExact

\* Whatever its segments hold and however long they are, a whole file of the driver
\* is sent with exactly its scan and its tables, and one that is cut off or broken
\* is dropped (decodeJPEGfile, findJPEGheader, skipScanBytes).
THEOREM DecodingIsExact == Spec => []DecodeIsExact
  <1>1. Init => DecodeIsExact
    BY DEF Init, DecodeIsExact
  <1> QED
    BY <1>1, ExactnessKept, PTL DEF Spec
=============================================================================
