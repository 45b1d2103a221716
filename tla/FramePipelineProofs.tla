------------------------ MODULE FramePipelineProofs ------------------------
(***************************************************************************)
(* Proofs about FramePipeline for any set of buffers, any queue length,    *)
(* any clients and frame durations.                                        *)
(***************************************************************************)
EXTENDS FramePipeline, FiniteSetTheorems, SequenceTheorems, TLAPS

-----------------------------------------------------------------------------
(* The elements of a sequence under Append and Tail.                       *)

\* Sending adds exactly the sent pointer to the queue's elements and keeps them
\* distinct if it was not there.
LEMMA AppendElems ==
    ASSUME NEW S, NEW s \in Seq(S), NEW e \in S
    PROVE  /\ Append(s, e) \in Seq(S)
           /\ Elems(Append(s, e)) = Elems(s) \cup {e}
           /\ Distinct(s) /\ e \notin Elems(s) => Distinct(Append(s, e))
<1>1. /\ Append(s, e) \in Seq(S)
      /\ Len(Append(s, e)) = Len(s) + 1
      /\ DOMAIN Append(s, e) = 1..(Len(s) + 1)
      /\ DOMAIN s = 1..Len(s)
      /\ \A i \in 1..Len(s) : Append(s, e)[i] = s[i]
      /\ Append(s, e)[Len(s) + 1] = e
      /\ Len(s) \in Nat
  OBVIOUS
<1>2. Elems(Append(s, e)) = Elems(s) \cup {e}
  BY <1>1 DEF Elems
<1>3. Distinct(s) /\ e \notin Elems(s) => Distinct(Append(s, e))
  BY <1>1 DEF Elems, Distinct
<1> QED  BY <1>1, <1>2, <1>3

\* Receiving removes exactly the head.
LEMMA TailElems ==
    ASSUME NEW S, NEW s \in Seq(S), s # <<>>
    PROVE  /\ Tail(s) \in Seq(S)
           /\ Head(s) \in S
           /\ Head(s) \in Elems(s)
           /\ Elems(s) = Elems(Tail(s)) \cup {Head(s)}
           /\ Distinct(s) => Distinct(Tail(s)) /\ Head(s) \notin Elems(Tail(s))
<1>1. /\ Tail(s) \in Seq(S)
      /\ Len(s) \in Nat \ {0}
      /\ DOMAIN s = 1..Len(s)
      /\ DOMAIN Tail(s) = 1..(Len(s) - 1)
      /\ \A i \in 1..(Len(s) - 1) : Tail(s)[i] = s[i + 1]
      /\ Head(s) = s[1]
      /\ Head(s) \in S
  OBVIOUS
<1>2. Elems(s) = Elems(Tail(s)) \cup {Head(s)}
  <2>1. \A i \in 1..Len(s) : i = 1 \/ i - 1 \in 1..(Len(s) - 1)
    BY <1>1
  <2>2. \A i \in 1..(Len(s) - 1) : i + 1 \in 1..Len(s)
    BY <1>1
  <2>3. ASSUME NEW x \in Elems(s)  PROVE x \in Elems(Tail(s)) \cup {Head(s)}
    <3>1. PICK i \in 1..Len(s) : x = s[i]
      BY <1>1 DEF Elems
    <3>2. CASE i = 1
      BY <3>1, <3>2, <1>1
    <3>3. CASE i # 1
      <4>1. i - 1 \in 1..(Len(s) - 1) /\ Tail(s)[i - 1] = s[i]
        BY <3>3, <2>1, <1>1
      <4> QED  BY <4>1, <3>1, <1>1 DEF Elems
    <3> QED  BY <3>2, <3>3
  <2>4. ASSUME NEW x \in Elems(Tail(s)) \cup {Head(s)}  PROVE x \in Elems(s)
    BY <1>1, <2>2 DEF Elems
  <2> QED  BY <2>3, <2>4
<1>3. Distinct(s) => Distinct(Tail(s)) /\ Head(s) \notin Elems(Tail(s))
  BY <1>1 DEF Elems, Distinct
<1> QED  BY <1>1, <1>2, <1>3 DEF Elems

-----------------------------------------------------------------------------
(* Type correctness.  What CamPublish stores and RtspReturn gives back is a  *)
(* buffer only because a task holds one in those phases, so the two parts    *)
(* are inductive together.                                                   *)

TypeInv == TypeOK /\ HolderPhases

LEMMA InitTypeInv == Init => TypeInv
<1> SUFFICES ASSUME Init  PROVE TypeInv
  OBVIOUS
<1>1. TypeOK
  <2>1. queue \in Seq(Buffers)
    BY DEF Init
  <2>2. content \in [Buffers -> Nat] /\ seen \in [Clients -> Nat]
    BY DEF Init
  <2> QED
    BY <2>1, <2>2, IntervalsAssumption
    DEF Init, TypeOK, MaybeBuffer, CamPhases, RtspPhases
<1>2. HolderPhases
  BY DEF Init, HolderPhases
<1> QED  BY <1>1, <1>2 DEF TypeInv

LEMMA NextTypeInv == TypeInv /\ [Next]_vars => TypeInv'
<1> SUFFICES ASSUME TypeInv, [Next]_vars  PROVE TypeInv'
  OBVIOUS
<1> USE DEF TypeInv, TypeOK, HolderPhases, MaybeBuffer, CamPhases, RtspPhases, Held,
            driverVars, camVars, rtspVars, paceVars
<1>1. CASE SensorFrame
  BY <1>1, BuffersAssumption DEF SensorFrame
<1>2. CASE NetworkReady
  BY <1>2 DEF NetworkReady
<1>3. CASE Tick
  BY <1>3, ClockAssumption DEF Tick
<1>4. CASE SetInterval
  BY <1>4 DEF SetInterval
<1>5. CASE CamStart
  BY <1>5 DEF CamStart
<1>6. CASE CamGet
  BY <1>6 DEF CamGet
<1>7. CASE CamGetNull
  BY <1>7 DEF CamGetNull
<1>8. CASE CamPublish
  BY <1>8 DEF CamPublish
<1>9. CASE CamSend
  BY <1>9 DEF CamSend
<1>10. CASE CamSendTimeout
  BY <1>10 DEF CamSendTimeout
<1>11. CASE CamDelay
  BY <1>11 DEF CamDelay
<1>12. CASE RtspStart
  BY <1>12 DEF RtspStart
<1>13. CASE RtspDoLoop
  BY <1>13 DEF RtspDoLoop
<1>14. CASE RtspReceive
  BY <1>14, BuffersAssumption, TailElems DEF RtspReceive
<1>15. CASE RtspReceiveNothing
  BY <1>15 DEF RtspReceiveNothing
<1>16. ASSUME NEW c \in Clients, RtspServe(c)  PROVE TypeInv'
  BY <1>16 DEF RtspServe
<1>17. CASE RtspServed
  BY <1>17 DEF RtspServed
<1>18. CASE RtspReturn
  BY <1>18 DEF RtspReturn
<1>19. CASE UNCHANGED vars
  BY <1>19 DEF vars
<1> QED
  BY <1>1, <1>2, <1>3, <1>4, <1>5, <1>6, <1>7, <1>8, <1>9, <1>10, <1>11, <1>12,
     <1>13, <1>14, <1>15, <1>16, <1>17, <1>18, <1>19
  DEF Next, CamNext, RtspNext

\* Every reachable state of the pipeline is well typed.
THEOREM TypeCorrect == Spec => []TypeOK
<1>1. Spec => []TypeInv
  BY InitTypeInv, NextTypeInv, PTL DEF Spec
<1>2. TypeInv => TypeOK
  BY DEF TypeInv
<1> QED  BY <1>1, <1>2, PTL

-----------------------------------------------------------------------------
(* Ownership                                                               *)

IInv == TypeInv /\ BufferOwnership

\* The queue, and with it the set of queued buffers, is touched by two actions;
\* the other steps move a buffer between the driver and a task, or nothing.
LEMMA NextOwnership == IInv /\ [Next]_vars => BufferOwnership'
<1> SUFFICES ASSUME IInv, [Next]_vars  PROVE BufferOwnership'
  OBVIOUS
<1> USE BuffersAssumption
    DEF IInv, TypeInv, BufferOwnership, OneOwner, NoneLost, DriverBuffers, QueuedBuffers, Held
<1>t. TypeOK /\ HolderPhases
  OBVIOUS
<1>b. /\ idle \subseteq Buffers /\ ready \in MaybeBuffer
      /\ camFb \in MaybeBuffer /\ rtspFb \in MaybeBuffer
      /\ queue \in Seq(Buffers)
  BY <1>t DEF TypeOK
<1>1. CASE SensorFrame
  BY <1>1, <1>b DEF SensorFrame, camVars, rtspVars, MaybeBuffer
<1>2. CASE NetworkReady \/ Tick \/ SetInterval \/ UNCHANGED vars
  BY <1>2 DEF NetworkReady, Tick, SetInterval, vars, driverVars, camVars, rtspVars
<1>3. CASE CamStart \/ CamGetNull \/ CamPublish \/ CamDelay
  BY <1>3 DEF CamStart, CamGetNull, CamPublish, CamDelay, driverVars, camVars, rtspVars
<1>4. CASE CamGet
  BY <1>4, <1>t DEF CamGet, rtspVars, HolderPhases
<1>5. CASE CamSend
  <2>1. camFb \in Buffers
    BY <1>5, <1>t DEF CamSend, HolderPhases, TypeOK, MaybeBuffer
  <2>2. /\ Elems(queue') = Elems(queue) \cup {camFb}
        /\ Distinct(queue')
    BY <1>5, <1>b, <2>1, AppendElems DEF CamSend
  <2> QED
    BY <1>5, <2>1, <2>2 DEF CamSend, driverVars, rtspVars
<1>6. CASE CamSendTimeout
  BY <1>6, <1>t DEF CamSendTimeout, rtspVars, HolderPhases
<1>7. CASE RtspStart \/ RtspDoLoop \/ RtspReceiveNothing \/ RtspServed
  BY <1>7 DEF RtspStart, RtspDoLoop, RtspReceiveNothing, RtspServed, driverVars, camVars
<1>8. ASSUME NEW c \in Clients, RtspServe(c)  PROVE BufferOwnership'
  BY <1>8 DEF RtspServe, driverVars, camVars
<1>9. CASE RtspReceive
  <2>1. rtspFb = NoBuf
    BY <1>9, <1>t DEF RtspReceive, HolderPhases
  <2>2. /\ rtspFb' = Head(queue) /\ queue' = Tail(queue)
        /\ UNCHANGED <<idle, ready, camFb>>
    BY <1>9 DEF RtspReceive, driverVars, camVars
  <2>3. /\ Head(queue) \in Buffers
        /\ Elems(queue) = Elems(queue') \cup {Head(queue)}
        /\ Head(queue) \notin Elems(queue')
        /\ Distinct(queue')
    BY <1>9, <1>b, <2>2, TailElems DEF RtspReceive
  <2> QED
    BY <2>1, <2>2, <2>3
<1>10. CASE RtspReturn
  BY <1>10, <1>t DEF RtspReturn, camVars, HolderPhases
<1> QED
  BY <1>1, <1>2, <1>3, <1>4, <1>5, <1>6, <1>7, <1>8, <1>9, <1>10
  DEF Next, CamNext, RtspNext

LEMMA InitOwnership == Init => BufferOwnership
<1>1. Elems(<<>>) = {} /\ Distinct(<<>>)
  <2>1. DOMAIN <<>> = {}
    BY SMT
  <2> QED  BY <2>1 DEF Elems, Distinct
<1>2. Held(NoBuf) = {}
  BY DEF Held
<1> QED
  BY <1>1, <1>2, BuffersAssumption
  DEF Init, BufferOwnership, OneOwner, NoneLost, DriverBuffers, QueuedBuffers

LEMMA IInvInvariant == Spec => []IInv
<1>1. Init => IInv
  BY InitTypeInv, InitOwnership DEF IInv
<1>2. IInv /\ [Next]_vars => IInv'
  BY NextTypeInv, NextOwnership DEF IInv
<1> QED  BY <1>1, <1>2, PTL DEF Spec

\* Every frame buffer is at all times in exactly one place: the driver, a task's
\* hand or the queue.  No leak, no double return, no pointer sent twice.
THEOREM OwnershipCorrect == Spec => []BufferOwnership
<1>1. IInv => BufferOwnership
  BY DEF IInv
<1> QED  BY <1>1, IInvInvariant, PTL

-----------------------------------------------------------------------------
(* The queue never overflows                                               *)

\* A sequence without repetitions is no longer than the set it draws from.
LEMMA DistinctLength ==
    ASSUME NEW S, IsFiniteSet(S), NEW s \in Seq(S), Distinct(s)
    PROVE  Len(s) <= Cardinality(S)
<1>1. Len(s) \in Nat /\ DOMAIN s = 1..Len(s)
  OBVIOUS
<1>2. IsFiniteSet(1..Len(s)) /\ Cardinality(1..Len(s)) = Len(s)
  BY <1>1, FS_Interval
<1>3. s \in Injection(1..Len(s), S)
  BY <1>1 DEF Distinct, Injection, IsInjective
<1> QED  BY <1>2, <1>3, FS_Injection

\* With as many queue slots as buffers the drop path of task_camera is dead: the
\* buffers queued are distinct and differ from the one about to be sent.
THEOREM SendAlwaysFindsRoom == Spec => []SendFindsRoom
<1>1. IInv => SendFindsRoom
  <2> SUFFICES ASSUME IInv, QueueLength >= Cardinality(Buffers), cam = "send"
               PROVE  Len(queue) < QueueLength
    BY DEF SendFindsRoom
  <2>1. camFb \in Buffers /\ queue \in Seq(Buffers) /\ Distinct(queue)
    BY DEF IInv, TypeInv, TypeOK, HolderPhases, MaybeBuffer, BufferOwnership, OneOwner
  <2>2. camFb \notin Elems(queue)
    BY <2>1, BuffersAssumption
    DEF IInv, BufferOwnership, OneOwner, Held, QueuedBuffers
  <2>3. Append(queue, camFb) \in Seq(Buffers) /\ Distinct(Append(queue, camFb))
    BY <2>1, <2>2, AppendElems
  <2>4. Len(Append(queue, camFb)) = Len(queue) + 1 /\ Len(queue) \in Nat
    BY <2>1
  <2>5. Len(Append(queue, camFb)) <= Cardinality(Buffers)
    BY <2>3, BuffersAssumption, DistinctLength
  <2>6. Cardinality(Buffers) \in Nat
    BY BuffersAssumption, FS_CardinalityType
  <2> QED  BY <2>4, <2>5, <2>6, QueueAssumption
<1> QED  BY <1>1, IInvInvariant, PTL

-----------------------------------------------------------------------------
(* A broadcast reads one frame                                             *)

\* The sensor only writes buffers the driver owns, and a buffer being broadcast
\* is not one of them: all clients of a broadcast get the same frame.
THEOREM BroadcastIsStable == Spec => []StableBroadcast
<1>1. Init => StableBroadcast
  BY DEF Init, StableBroadcast
<1>2. IInv /\ StableBroadcast /\ [Next]_vars => StableBroadcast'
  <2> SUFFICES ASSUME IInv, StableBroadcast, [Next]_vars, rtsp' = "broadcast",
                      NEW c \in streaming' \ toServe'
               PROVE  seen'[c] = content'[rtspFb']
    BY DEF StableBroadcast
  <2>t. /\ content \in [Buffers -> Nat] /\ seen \in [Clients -> Nat]
        /\ toServe \subseteq Clients /\ streaming \subseteq Clients
        /\ idle \subseteq Buffers
    BY DEF IInv, TypeInv, TypeOK
  <2>1. CASE SensorFrame
    <3>1. rtsp = "broadcast" /\ UNCHANGED <<streaming, toServe, seen, rtspFb>>
      BY <2>1 DEF SensorFrame, rtspVars
    <3>2. rtspFb \in Buffers /\ rtspFb \notin idle
      BY <3>1, BuffersAssumption
      DEF IInv, TypeInv, TypeOK, HolderPhases, MaybeBuffer, BufferOwnership, OneOwner,
          DriverBuffers, Held
    <3>3. content'[rtspFb] = content[rtspFb]
      BY <2>1, <2>t, <3>2 DEF SensorFrame
    <3> QED  BY <3>1, <3>3 DEF StableBroadcast
  <2>2. CASE RtspReceive
    BY <2>2 DEF RtspReceive
  <2>3. ASSUME NEW d \in Clients, RtspServe(d)
        PROVE  seen'[c] = content'[rtspFb']
    BY <2>3, <2>t DEF RtspServe, StableBroadcast, driverVars
  <2>4. CASE RtspStart \/ RtspDoLoop \/ RtspReceiveNothing \/ RtspServed \/ RtspReturn
    BY <2>4 DEF RtspStart, RtspDoLoop, RtspReceiveNothing, RtspServed, RtspReturn
  <2>5. CASE \/ NetworkReady \/ Tick \/ SetInterval \/ CamNext \/ UNCHANGED vars
    BY <2>5
    DEF NetworkReady, Tick, SetInterval, CamNext, CamStart, CamGet, CamGetNull, CamPublish,
        CamSend, CamSendTimeout, CamDelay, vars, driverVars, rtspVars, StableBroadcast
  <2> QED  BY <2>1, <2>2, <2>3, <2>4, <2>5 DEF Next, RtspNext
<1> QED  BY <1>1, <1>2, IInvInvariant, PTL DEF Spec

-----------------------------------------------------------------------------
(* Pacing                                                                  *)

\* The unsigned difference of two counter values that wrap at M.
LEMMA WrappedDifference ==
    ASSUME NEW M \in Nat \ {0}, NEW a \in 0..(M - 1), NEW b \in 0..(M - 1)
    PROVE  (a - b) % M = IF a >= b THEN a - b ELSE a - b + M
<1>1. CASE a >= b
  BY <1>1
<1>2. CASE a < b
  BY <1>2
<1> QED  BY <1>1, <1>2

PaceInv ==
    /\ clock \in 0..(ClockMod - 1)
    /\ lastBroadcast \in 0..(ClockMod - 1)
    /\ elapsed \in Nat
    /\ (clock - lastBroadcast) % ClockMod <= elapsed

\* The counter difference the code compares never exceeds the time that really
\* passed, so a wrap of millis() can delay a broadcast but not hasten one.
LEMMA PaceInvInvariant == Spec => []PaceInv
<1> USE ClockAssumption
<1>1. Init => PaceInv
  BY WrappedDifference DEF Init, PaceInv
<1>2. PaceInv /\ [Next]_vars => PaceInv'
  <2> SUFFICES ASSUME PaceInv, [Next]_vars  PROVE PaceInv'
    OBVIOUS
  <2>1. CASE Tick
    <3> DEFINE gap == (clock - lastBroadcast) % ClockMod
               gap2 == (clock' - lastBroadcast) % ClockMod
    <3>1. lastBroadcast' = lastBroadcast
      BY <2>1 DEF Tick
    <3>2. clock' = IF clock = ClockMod - 1 THEN 0 ELSE clock + 1
      BY <2>1 DEF Tick, PaceInv
    <3>3. clock' \in 0..(ClockMod - 1)
      BY <3>2 DEF PaceInv
    <3>4. gap = IF clock >= lastBroadcast THEN clock - lastBroadcast
                ELSE clock - lastBroadcast + ClockMod
      BY WrappedDifference DEF PaceInv
    <3>5. gap2 = IF clock' >= lastBroadcast THEN clock' - lastBroadcast
                 ELSE clock' - lastBroadcast + ClockMod
      BY <3>3, WrappedDifference DEF PaceInv
    <3>6. gap2 <= gap + 1 /\ gap2 < ClockMod /\ gap \in Int /\ gap2 \in Int
      BY <3>2, <3>4, <3>5 DEF PaceInv
    <3>7. elapsed' = IF elapsed < ClockMod THEN elapsed + 1 ELSE elapsed
      BY <2>1 DEF Tick
    <3>8. gap <= elapsed /\ elapsed \in Nat
      BY DEF PaceInv
    <3>9. gap2 <= elapsed' /\ elapsed' \in Nat
      <4> HIDE DEF gap, gap2
      <4> QED  BY <3>6, <3>7, <3>8
    <3> QED  BY <3>1, <3>3, <3>9 DEF PaceInv
  <2>2. CASE RtspReceive
    <3>1. CASE Due
      BY <2>2, <3>1, WrappedDifference DEF RtspReceive, PaceInv
    <3>2. CASE ~Due
      BY <2>2, <3>2 DEF RtspReceive, PaceInv
    <3> QED  BY <3>1, <3>2
  <2>3. ASSUME NEW c \in Clients, RtspServe(c)  PROVE PaceInv'
    BY <2>3 DEF RtspServe, paceVars, PaceInv
  <2>4. CASE SensorFrame \/ NetworkReady \/ SetInterval \/ CamNext \/ UNCHANGED vars
    BY <2>4
    DEF SensorFrame, NetworkReady, SetInterval, CamNext, CamStart, CamGet, CamGetNull,
        CamPublish, CamSend, CamSendTimeout, CamDelay, vars, paceVars, PaceInv
  <2>5. CASE RtspStart \/ RtspDoLoop \/ RtspReceiveNothing \/ RtspServed \/ RtspReturn
    BY <2>5
    DEF RtspStart, RtspDoLoop, RtspReceiveNothing, RtspServed, RtspReturn, paceVars, PaceInv
  <2> QED  BY <2>1, <2>2, <2>3, <2>4, <2>5 DEF Next, RtspNext
<1> QED  BY <1>1, <1>2, PTL DEF Spec

\* Broadcasts are paced by real time for every counter width, every frame
\* duration and any change of it between two frames.
THEOREM OutputIsPaced == Spec => PacedOutput
<1>1. PaceInv /\ TypeInv /\ [Next]_vars
        => [rtsp = "receive" /\ rtsp' = "broadcast" => elapsed >= interval]_vars
  <2> SUFFICES ASSUME PaceInv, TypeInv, Next, rtsp = "receive", rtsp' = "broadcast"
               PROVE  elapsed >= interval
    BY DEF vars
  <2>1. \/ RtspReceive
        \/ UNCHANGED rtsp
    BY DEF Next, SensorFrame, NetworkReady, Tick, SetInterval, CamNext, CamStart, CamGet,
           CamGetNull, CamPublish, CamSend, CamSendTimeout, CamDelay, RtspNext, RtspStart,
           RtspDoLoop, RtspReceiveNothing, RtspServe, RtspServed, RtspReturn, rtspVars
  <2>2. Due
    BY <2>1 DEF RtspReceive
  <2>3. interval \in Nat /\ elapsed \in Nat /\ (clock - lastBroadcast) % ClockMod \in Nat
    BY IntervalsAssumption, ClockAssumption DEF TypeInv, TypeOK, PaceInv
  <2> QED  BY <2>2, <2>3 DEF Due, PaceInv
<1>2. Spec => []TypeInv
  BY InitTypeInv, NextTypeInv, PTL DEF Spec
<1> QED  BY <1>1, <1>2, PaceInvInvariant, PTL DEF Spec, PacedOutput
-----------------------------------------------------------------------------
(* Order: the buffers on their way, oldest frame first                      *)

Flight == AsSeq(rtspFb) \o queue \o AsSeq(camFb)

\* A buffer, or none, as a sequence.
LEMMA AsSeqFacts ==
    ASSUME NEW b \in MaybeBuffer
    PROVE  /\ AsSeq(b) \in Seq(Buffers)
           /\ b = NoBuf => AsSeq(b) = <<>> /\ Len(AsSeq(b)) = 0
           /\ b # NoBuf => AsSeq(b) = <<b>> /\ Len(AsSeq(b)) = 1 /\ AsSeq(b)[1] = b
BY DEF AsSeq, MaybeBuffer

\* The elements of a concatenation, and when they are distinct.
LEMMA ConcatElems ==
    ASSUME NEW S, NEW s \in Seq(S), NEW t \in Seq(S)
    PROVE  /\ s \o t \in Seq(S)
           /\ Elems(s \o t) = Elems(s) \cup Elems(t)
           /\ Distinct(s) /\ Distinct(t) /\ Elems(s) \cap Elems(t) = {}
                => Distinct(s \o t)
<1>1. /\ s \o t \in Seq(S)
      /\ Len(s \o t) = Len(s) + Len(t)
      /\ \A i \in 1..Len(s) + Len(t) :
            (s \o t)[i] = IF i <= Len(s) THEN s[i] ELSE t[i - Len(s)]
  BY ConcatProperties
<1>2. /\ Len(s) \in Nat /\ Len(t) \in Nat
      /\ DOMAIN s = 1..Len(s) /\ DOMAIN t = 1..Len(t)
      /\ DOMAIN (s \o t) = 1..Len(s) + Len(t)
  BY <1>1, LenProperties
<1>3. \A i \in 1..Len(s) : i \in 1..Len(s) + Len(t) /\ (s \o t)[i] = s[i]
  BY <1>1, <1>2
<1>4. \A i \in 1..Len(t) : /\ i + Len(s) \in 1..Len(s) + Len(t)
                           /\ (s \o t)[i + Len(s)] = t[i]
  BY <1>1, <1>2
<1>5. \A i \in 1..Len(s) + Len(t) :
         \/ i \in 1..Len(s)
         \/ i - Len(s) \in 1..Len(t) /\ i = (i - Len(s)) + Len(s)
  BY <1>2
<1>6. Elems(s \o t) = Elems(s) \cup Elems(t)
  <2>1. ASSUME NEW x \in Elems(s \o t)  PROVE x \in Elems(s) \cup Elems(t)
    <3>1. PICK i \in 1..Len(s) + Len(t) : x = (s \o t)[i]
      BY <1>2 DEF Elems
    <3>2. CASE i \in 1..Len(s)
      BY <3>1, <3>2, <1>2, <1>3 DEF Elems
    <3>3. CASE i - Len(s) \in 1..Len(t) /\ i = (i - Len(s)) + Len(s)
      BY <3>1, <3>3, <1>2, <1>4 DEF Elems
    <3>. QED  BY <3>2, <3>3, <1>5
  <2>2. ASSUME NEW x \in Elems(s)  PROVE x \in Elems(s \o t)
    BY <1>2, <1>3 DEF Elems
  <2>3. ASSUME NEW x \in Elems(t)  PROVE x \in Elems(s \o t)
    BY <1>2, <1>4 DEF Elems
  <2>. QED  BY <2>1, <2>2, <2>3
<1>7. ASSUME Distinct(s), Distinct(t), Elems(s) \cap Elems(t) = {},
             NEW i \in 1..Len(s) + Len(t), NEW j \in 1..Len(s) + Len(t),
             (s \o t)[i] = (s \o t)[j]
      PROVE  i = j
  <2>1. CASE i \in 1..Len(s) /\ j \in 1..Len(s)
    BY <1>2, <1>3, <1>7, <2>1 DEF Distinct
  <2>2. CASE i - Len(s) \in 1..Len(t) /\ j - Len(s) \in 1..Len(t)
    <3>1. t[i - Len(s)] = t[j - Len(s)]
      BY <1>1, <1>2, <1>7, <2>2
    <3>2. i - Len(s) = j - Len(s)
      BY <1>2, <1>7, <2>2, <3>1 DEF Distinct
    <3>. QED  BY <3>2, <1>2
  <2>3. CASE i \in 1..Len(s) /\ j - Len(s) \in 1..Len(t)
    <3>1. s[i] = t[j - Len(s)]
      BY <1>1, <1>2, <1>7, <2>3
    <3>. QED  BY <3>1, <2>3, <1>2, <1>7 DEF Elems
  <2>4. CASE j \in 1..Len(s) /\ i - Len(s) \in 1..Len(t)
    <3>1. s[j] = t[i - Len(s)]
      BY <1>1, <1>2, <1>7, <2>4
    <3>. QED  BY <3>1, <2>4, <1>2, <1>7 DEF Elems
  <2>. QED  BY <2>1, <2>2, <2>3, <2>4, <1>5
<1>. QED  BY <1>1, <1>2, <1>6, <1>7 DEF Distinct

LEMMA HeadOfConcat ==
    ASSUME NEW S, NEW s \in Seq(S), NEW t \in Seq(S), s # <<>>
    PROVE  s \o t # <<>> /\ Head(s \o t) = Head(s)
<1>1. Len(s) \in Nat \ {0} /\ Len(t) \in Nat
  BY EmptySeq, LenProperties
<1>2. s \o t \in Seq(S) /\ Len(s \o t) = Len(s) + Len(t) /\ (s \o t)[1] = s[1]
  BY <1>1, ConcatProperties
<1>. QED  BY <1>1, <1>2

\* The frames on their way are in buffers the driver does not own, each in one.
LEMMA FlightFacts ==
    ASSUME IInv
    PROVE  /\ Flight \in Seq(Buffers)
           /\ Distinct(Flight)
           /\ Elems(Flight) \cap DriverBuffers = {}
           /\ rtspFb # NoBuf => Flight # <<>> /\ Head(Flight) = rtspFb
<1>1. /\ rtspFb \in MaybeBuffer /\ camFb \in MaybeBuffer /\ queue \in Seq(Buffers)
      /\ OneOwner
  BY DEF IInv, TypeInv, TypeOK, BufferOwnership
<1>2. ASSUME NEW b \in MaybeBuffer
      PROVE  AsSeq(b) \in Seq(Buffers) /\ Elems(AsSeq(b)) = Held(b) /\ Distinct(AsSeq(b))
  <2>1. CASE b = NoBuf
    <3>1. AsSeq(b) = <<>> /\ DOMAIN <<>> = {}
      BY <2>1, AsSeqFacts, SMT
    <3>2. Elems(<<>>) = {} /\ Distinct(<<>>)
      BY <3>1 DEF Elems, Distinct
    <3>3. Held(b) = {}
      BY <2>1 DEF Held
    <3>. QED  BY <3>1, <3>2, <3>3, AsSeqFacts
  <2>2. CASE b # NoBuf
    <3>1. DOMAIN AsSeq(b) = {1} /\ AsSeq(b)[1] = b /\ AsSeq(b) \in Seq(Buffers)
      BY <2>2, AsSeqFacts, SMT
    <3>2. Elems(AsSeq(b)) = {b} /\ Distinct(AsSeq(b))
      BY <3>1 DEF Elems, Distinct
    <3>3. Held(b) = {b}
      BY <2>2 DEF Held
    <3>. QED  BY <3>1, <3>2, <3>3
  <2>. QED  BY <2>1, <2>2
<1> DEFINE front == AsSeq(rtspFb) \o queue
<1>3. /\ front \in Seq(Buffers)
      /\ Elems(front) = Held(rtspFb) \cup QueuedBuffers
      /\ Distinct(front)
  BY <1>1, <1>2, ConcatElems DEF OneOwner, QueuedBuffers
<1>4. /\ Flight \in Seq(Buffers)
      /\ Elems(Flight) = Held(rtspFb) \cup QueuedBuffers \cup Held(camFb)
      /\ Distinct(Flight)
  <2>1. Elems(front) \cap Elems(AsSeq(camFb)) = {}
    BY <1>1, <1>2, <1>3 DEF OneOwner
  <2>2. Flight = front \o AsSeq(camFb)
    BY DEF Flight
  <2> HIDE DEF front
  <2>. QED  BY <1>1, <1>2, <1>3, <2>1, <2>2, ConcatElems
<1>5. Elems(Flight) \cap DriverBuffers = {}
  BY <1>1, <1>4 DEF OneOwner
<1>6. ASSUME rtspFb # NoBuf  PROVE Flight # <<>> /\ Head(Flight) = rtspFb
  <2>1. AsSeq(rtspFb) \in Seq(Buffers) /\ AsSeq(rtspFb) # <<>> /\ Head(AsSeq(rtspFb)) = rtspFb
    BY <1>1, <1>6, AsSeqFacts
  <2>2. front # <<>> /\ Head(front) = rtspFb
    BY <1>1, <2>1, HeadOfConcat
  <2>3. Flight = front \o AsSeq(camFb) /\ AsSeq(camFb) \in Seq(Buffers)
    BY <1>1, <1>2 DEF Flight
  <2> HIDE DEF front
  <2>. QED  BY <1>3, <2>2, <2>3, HeadOfConcat
<1>. QED  BY <1>4, <1>5, <1>6
\* Putting an element in front, and taking it away again.
LEMMA ConsFacts ==
    ASSUME NEW S, NEW s \in Seq(S), NEW e \in S
    PROVE  /\ <<e>> \o s # <<>>
           /\ Tail(<<e>> \o s) = s
           /\ s # <<>> => <<Head(s)>> \o Tail(s) = s
<1>1. /\ <<e>> \o s \in Seq(S)
      /\ Len(<<e>> \o s) = Len(s) + 1
      /\ \A i \in 1..Len(s) : (<<e>> \o s)[i + 1] = s[i]
      /\ Len(s) \in Nat
  BY ConcatProperties, LenProperties
<1>2. <<e>> \o s # <<>>
  BY <1>1
<1>3. Tail(<<e>> \o s) = s
  <2>1. /\ Tail(<<e>> \o s) \in Seq(S)
        /\ Len(Tail(<<e>> \o s)) = Len(s)
        /\ \A i \in 1..Len(s) : Tail(<<e>> \o s)[i] = s[i]
    BY <1>1, <1>2, HeadTailProperties
  <2>. QED  BY <2>1, SeqEqual
<1>4. ASSUME s # <<>>  PROVE <<Head(s)>> \o Tail(s) = s
  <2>1. /\ Head(s) \in S /\ Head(s) = s[1] /\ Tail(s) \in Seq(S)
        /\ Len(Tail(s)) = Len(s) - 1
        /\ \A i \in 1..Len(Tail(s)) : Tail(s)[i] = s[i + 1]
        /\ Len(s) \in Nat \ {0}
    BY <1>1, <1>4, HeadTailProperties, EmptySeq
  <2>2. /\ <<Head(s)>> \o Tail(s) \in Seq(S)
        /\ Len(<<Head(s)>> \o Tail(s)) = Len(s)
        /\ \A i \in 1..Len(s) :
              (<<Head(s)>> \o Tail(s))[i] = IF i <= 1 THEN s[1] ELSE Tail(s)[i - 1]
    <3>1. /\ <<Head(s)>> \in Seq(S) /\ Len(<<Head(s)>>) = 1
          /\ <<Head(s)>>[1] = s[1]
      BY <2>1
    <3>. QED  BY <2>1, <3>1, ConcatProperties
  <2>3. \A i \in 1..Len(s) : (<<Head(s)>> \o Tail(s))[i] = s[i]
    <3> TAKE i \in 1..Len(s)
    <3>1. CASE i = 1
      BY <2>2, <3>1
    <3>2. CASE i # 1
      <4>1. i - 1 \in 1..Len(Tail(s)) /\ ~(i <= 1)
        BY <2>1, <3>2
      <4>2. Tail(s)[i - 1] = s[(i - 1) + 1] /\ (i - 1) + 1 = i
        BY <2>1, <4>1
      <4>. QED  BY <2>2, <4>1, <4>2
    <3>. QED  BY <3>1, <3>2
  <2>. QED  BY <2>2, <2>3, SeqEqual
<1>. QED  BY <1>2, <1>3, <1>4

\* What each step does to the frames on their way: camera_fb_get adds one at the end,
\* a send that times out takes it off again, camera_fb_return removes the first, and
\* nothing else changes them.
LEMMA FlightSteps ==
    ASSUME IInv, [Next]_vars
    PROVE  \/ UNCHANGED Flight /\ ~CamGet /\ ~RtspReturn
           \/ CamGet /\ Flight' = Append(Flight, ready)
           \/ CamSendTimeout /\ Flight # <<>> /\ Flight' = SubSeq(Flight, 1, Len(Flight) - 1)
           \/ RtspReturn /\ Flight # <<>> /\ Flight' = Tail(Flight)
<1>1. /\ rtspFb \in MaybeBuffer /\ camFb \in MaybeBuffer /\ ready \in MaybeBuffer
      /\ queue \in Seq(Buffers) /\ HolderPhases
  BY DEF IInv, TypeInv, TypeOK
<1> DEFINE front == AsSeq(rtspFb) \o queue
<1>2. /\ AsSeq(rtspFb) \in Seq(Buffers) /\ AsSeq(camFb) \in Seq(Buffers)
      /\ front \in Seq(Buffers) /\ Flight = front \o AsSeq(camFb)
  <2>1. AsSeq(rtspFb) \in Seq(Buffers) /\ AsSeq(camFb) \in Seq(Buffers)
    BY <1>1, AsSeqFacts
  <2>. QED  BY <1>1, <2>1, ConcatProperties DEF Flight
<1>3. CASE CamGet
  <2>1. camFb = NoBuf /\ camFb' = ready /\ ready \in Buffers /\ UNCHANGED <<queue, rtspFb>>
    BY <1>1, <1>3 DEF CamGet, rtspVars, HolderPhases, MaybeBuffer
  <2>2. AsSeq(camFb) = <<>> /\ AsSeq(camFb') = <<ready>>
    BY <2>1, BuffersAssumption DEF AsSeq
  <2>3. Flight = front
    BY <1>2, <2>2, ConcatEmptySeq
  <2>4. Flight' = front \o <<ready>>
    BY <2>1, <2>2 DEF Flight
  <2> HIDE DEF front
  <2>. QED  BY <1>2, <1>3, <2>1, <2>3, <2>4, AppendIsConcat
<1>4. CASE CamSend
  <2>1. camFb \in Buffers /\ camFb' = NoBuf /\ queue' = Append(queue, camFb) /\ UNCHANGED rtspFb
    BY <1>1, <1>4 DEF CamSend, rtspVars, HolderPhases, MaybeBuffer
  <2>2. AsSeq(camFb) = <<camFb>> /\ AsSeq(camFb') = <<>> /\ <<camFb>> \in Seq(Buffers)
    BY <2>1, BuffersAssumption DEF AsSeq
  <2>3. queue' = queue \o <<camFb>>
    BY <1>1, <2>1, AppendIsConcat
  <2>4. Flight = AsSeq(rtspFb) \o (queue \o <<camFb>>)
    BY <1>1, <1>2, <2>2, ConcatAssociative
  <2>5. AsSeq(rtspFb) \o (queue \o <<camFb>>) \in Seq(Buffers)
    BY <1>1, <1>2, <2>2, ConcatProperties
  <2>6. Flight' = (AsSeq(rtspFb) \o (queue \o <<camFb>>)) \o <<>>
    BY <2>1, <2>2, <2>3 DEF Flight
  <2>7. ~CamGet /\ ~RtspReturn
    BY <1>4, <2>1, BuffersAssumption DEF CamSend, CamGet, RtspReturn, camVars
  <2>. QED  BY <2>4, <2>5, <2>6, <2>7, ConcatEmptySeq
<1>5. CASE CamSendTimeout
  <2>1. camFb \in Buffers /\ camFb' = NoBuf /\ UNCHANGED <<queue, rtspFb>>
    BY <1>1, <1>5 DEF CamSendTimeout, rtspVars, HolderPhases, MaybeBuffer
  <2>2. AsSeq(camFb) = <<camFb>> /\ AsSeq(camFb') = <<>>
    BY <2>1, BuffersAssumption DEF AsSeq
  <2>3. Flight = Append(front, camFb)
    BY <1>2, <2>1, <2>2, AppendIsConcat
  <2>4. Flight' = front
    <3>1. Flight' = front \o <<>>
      BY <2>1, <2>2 DEF Flight
    <3>. QED  BY <1>2, <3>1, ConcatEmptySeq
  <2> HIDE DEF front
  <2>5. /\ Append(front, camFb) # <<>>
        /\ Len(Append(front, camFb)) - 1 = Len(front)
        /\ SubSeq(Append(front, camFb), 1, Len(front)) = front
    BY <1>2, <2>1
  <2>. QED  BY <1>5, <2>3, <2>4, <2>5
<1>6. CASE RtspReceive
  <2>1. /\ rtspFb = NoBuf /\ queue # <<>>
        /\ rtspFb' = Head(queue) /\ queue' = Tail(queue) /\ UNCHANGED camFb
    BY <1>1, <1>6 DEF RtspReceive, camVars, HolderPhases
  <2>2. Head(queue) \in Buffers /\ <<Head(queue)>> \o Tail(queue) = queue
    BY <1>1, <2>1, TailElems, ConsFacts
  <2>3. AsSeq(rtspFb) = <<>> /\ AsSeq(rtspFb') = <<Head(queue)>>
    BY <2>1, <2>2, BuffersAssumption DEF AsSeq
  <2>4. front = queue
    BY <1>1, <2>3, ConcatEmptySeq
  <2>5. Flight' = queue \o AsSeq(camFb)
    BY <2>1, <2>2, <2>3 DEF Flight
  <2>6. ~CamGet /\ ~RtspReturn
    BY <1>6, <2>1, <2>2, BuffersAssumption DEF RtspReceive, RtspReturn, CamGet, rtspVars
  <2>. QED  BY <1>2, <2>4, <2>5, <2>6
<1>7. CASE RtspReturn
  <2>1. rtspFb \in Buffers /\ rtspFb' = NoBuf /\ UNCHANGED <<queue, camFb>>
    BY <1>1, <1>7 DEF RtspReturn, camVars, HolderPhases, MaybeBuffer
  <2>2. AsSeq(rtspFb) = <<rtspFb>> /\ AsSeq(rtspFb') = <<>> /\ <<rtspFb>> \in Seq(Buffers)
    BY <2>1, BuffersAssumption DEF AsSeq
  <2>3. queue \o AsSeq(camFb) \in Seq(Buffers)
    BY <1>1, <1>2, ConcatProperties
  <2>4. Flight = <<rtspFb>> \o (queue \o AsSeq(camFb))
    BY <1>1, <1>2, <2>2, ConcatAssociative
  <2>5. Flight' = queue \o AsSeq(camFb)
    <3>1. Flight' = (<<>> \o queue) \o AsSeq(camFb)
      BY <2>1, <2>2 DEF Flight
    <3>. QED  BY <1>1, <3>1, ConcatEmptySeq
  <2>6. Flight # <<>> /\ Flight' = Tail(Flight)
    BY <2>1, <2>3, <2>4, <2>5, ConsFacts
  <2>. QED  BY <1>7, <2>6
<1>8. CASE UNCHANGED <<rtspFb, queue, camFb>> /\ ~CamGet /\ ~RtspReturn
  BY <1>8 DEF Flight
<1>9. \/ CamGet \/ CamSend \/ CamSendTimeout \/ RtspReceive \/ RtspReturn
      \/ UNCHANGED <<rtspFb, queue, camFb>>
  BY DEF Next, SensorFrame, NetworkReady, Tick, SetInterval, CamNext, CamStart, CamGetNull,
         CamPublish, CamDelay, RtspNext, RtspStart, RtspDoLoop, RtspReceiveNothing, RtspServe,
         RtspServed, vars, camVars, rtspVars
<1>. QED  BY <1>3, <1>4, <1>5, <1>6, <1>7, <1>8, <1>9
\* The frames on their way are in the order they were captured, the one that is ready
\* is newer than all of them, and no client was shown one of them but, once served, the
\* one being broadcast.
OrderInv ==
    /\ \A b \in Buffers : content[b] <= captured
    /\ \A c \in Clients : seen[c] <= captured
    /\ \A i, j \in 1..Len(Flight) : i < j => content[Flight[i]] < content[Flight[j]]
    /\ \A b \in Held(ready) :
         /\ \A a \in Elems(Flight) : content[a] < content[b]
         /\ \A c \in Clients : seen[c] < content[b]
    /\ \A c \in Clients, b \in Elems(Flight) :
         \/ seen[c] < content[b]
         \/ /\ seen[c] = content[b] /\ b = rtspFb
            /\ ~(rtsp = "broadcast" /\ c \in toServe)

LEMMA OrderStep ==
    ASSUME IInv, IInv', OrderInv, [Next]_vars
    PROVE  OrderInv'
<1>1. /\ Flight \in Seq(Buffers) /\ Flight' \in Seq(Buffers)
      /\ Distinct(Flight)
      /\ Elems(Flight) \cap DriverBuffers = {}
      /\ Elems(Flight) \subseteq Buffers /\ Elems(Flight') \subseteq Buffers
      /\ Len(Flight) \in Nat /\ Len(Flight') \in Nat
      /\ DOMAIN Flight = 1..Len(Flight) /\ DOMAIN Flight' = 1..Len(Flight')
      /\ rtspFb # NoBuf => Flight # <<>> /\ Head(Flight) = rtspFb
  <2>1. Flight \in Seq(Buffers) /\ Flight' \in Seq(Buffers)
    <3>1. Flight \in Seq(Buffers)
      BY FlightFacts
    <3>2. Flight' \in Seq(Buffers)
      <4>1. /\ rtspFb' \in MaybeBuffer /\ camFb' \in MaybeBuffer /\ queue' \in Seq(Buffers)
        BY DEF IInv, TypeInv, TypeOK, MaybeBuffer
      <4>2. AsSeq(rtspFb') \in Seq(Buffers) /\ AsSeq(camFb') \in Seq(Buffers)
        BY <4>1, AsSeqFacts
      <4>3. AsSeq(rtspFb') \o queue' \in Seq(Buffers)
        BY <4>1, <4>2, ConcatProperties
      <4>. QED  BY <4>2, <4>3, ConcatProperties DEF Flight
    <3>. QED  BY <3>1, <3>2
  <2>. QED  BY <2>1, FlightFacts, LenProperties DEF Elems
<1>2. /\ content \in [Buffers -> Nat] /\ content' \in [Buffers -> Nat]
      /\ captured \in Nat /\ captured' \in Nat
      /\ seen \in [Clients -> Nat] /\ seen' \in [Clients -> Nat]
      /\ idle \subseteq Buffers /\ ready \in MaybeBuffer /\ rtspFb \in MaybeBuffer
      /\ HolderPhases
  BY DEF IInv, TypeInv, TypeOK
<1>3. CASE SensorFrame
  <2>1. PICK b \in idle :
          /\ content' = [content EXCEPT ![b] = captured + 1]
          /\ ready' = b
    BY <1>3 DEF SensorFrame
  <2>2. /\ captured' = captured + 1
        /\ Flight' = Flight
        /\ UNCHANGED <<rtspFb, rtsp, toServe, seen>>
    BY <1>3 DEF SensorFrame, camVars, rtspVars, Flight
  <2>3. \A a \in Elems(Flight) : a # b /\ content'[a] = content[a]
    BY <1>1, <1>2, <2>1 DEF DriverBuffers
  <2>4. content'[b] = captured + 1 /\ b \in Buffers /\ Held(ready') = {b} \ {NoBuf}
    BY <1>2, <2>1 DEF Held
  <2>5. \A a \in Buffers : content'[a] <= captured'
    BY <1>2, <2>1, <2>2 DEF OrderInv
  <2>6. \A c \in Clients : seen'[c] <= captured' /\ seen'[c] < content'[b]
    BY <1>2, <2>2, <2>4 DEF OrderInv
  <2>7. \A a \in Elems(Flight') : content'[a] < content'[b]
    BY <1>1, <1>2, <2>2, <2>3, <2>4 DEF OrderInv
  <2>8. \A i, j \in 1..Len(Flight') : i < j => content'[Flight'[i]] < content'[Flight'[j]]
    <3>1. \A i \in 1..Len(Flight) : Flight[i] \in Elems(Flight)
      BY <1>1 DEF Elems
    <3>. QED  BY <2>2, <2>3, <3>1 DEF OrderInv
  <2>9. \A c \in Clients, a \in Elems(Flight') :
          \/ seen'[c] < content'[a]
          \/ /\ seen'[c] = content'[a] /\ a = rtspFb'
             /\ ~(rtsp' = "broadcast" /\ c \in toServe')
    BY <2>2, <2>3 DEF OrderInv
  <2>. QED  BY <2>4, <2>5, <2>6, <2>7, <2>8, <2>9 DEF OrderInv
<1>4. CASE CamGet
  <2>1. /\ ready \in Buffers /\ Held(ready) = {ready} /\ Held(ready') = {}
        /\ UNCHANGED <<content, captured, seen, rtsp, rtspFb, toServe>>
    BY <1>2, <1>4 DEF CamGet, rtspVars, MaybeBuffer, Held
  <2>2. Flight' = Append(Flight, ready)
    <3>1. ~CamSendTimeout /\ ~RtspReturn
      BY <1>2, <1>4, <2>1, BuffersAssumption
      DEF CamGet, CamSendTimeout, RtspReturn, rtspVars, HolderPhases
    <3>. QED  BY <1>4, <3>1, FlightSteps
  <2>3. /\ Elems(Flight') = Elems(Flight) \cup {ready}
        /\ Len(Flight') = Len(Flight) + 1
        /\ \A i \in 1..Len(Flight) : Flight'[i] = Flight[i] /\ Flight[i] \in Elems(Flight)
        /\ Flight'[Len(Flight) + 1] = ready
    BY <1>1, <2>1, <2>2, AppendElems, AppendProperties DEF Elems
  <2>4. \A i, j \in 1..Len(Flight') : i < j => content'[Flight'[i]] < content'[Flight'[j]]
    <3> TAKE i, j \in 1..Len(Flight')
    <3> HAVE i < j
    <3>1. CASE j = Len(Flight) + 1
      BY <1>1, <2>1, <2>3, <3>1 DEF OrderInv
    <3>2. CASE j # Len(Flight) + 1
      <4>1. i \in 1..Len(Flight) /\ j \in 1..Len(Flight)
        BY <1>1, <2>3, <3>2
      <4>. QED  BY <2>1, <2>3, <4>1 DEF OrderInv
    <3>. QED  BY <3>1, <3>2
  <2>. QED  BY <2>1, <2>3, <2>4 DEF OrderInv
<1>5. CASE \/ CamSendTimeout /\ Flight # <<>> /\ Flight' = SubSeq(Flight, 1, Len(Flight) - 1)
           \/ RtspReturn /\ Flight # <<>> /\ Flight' = Tail(Flight)
  <2>1. UNCHANGED <<content, captured, seen, ready, toServe>>
    BY <1>5 DEF CamSendTimeout, RtspReturn, rtspVars
  <2>2. PICK d \in {0, 1} :
          /\ Len(Flight') = Len(Flight) - 1
          /\ \A i \in 1..Len(Flight') : Flight'[i] = Flight[i + d] /\ i + d \in 1..Len(Flight)
    <3>1. Len(Flight) \in Nat \ {0}
      BY <1>1, <1>5, EmptySeq
    <3>2. CASE Flight' = SubSeq(Flight, 1, Len(Flight) - 1)
      <4>1. /\ Len(Flight') = Len(Flight) - 1
            /\ \A i \in 1..Len(Flight') : Flight'[i] = Flight[i + 0] /\ i + 0 \in 1..Len(Flight)
        BY <1>1, <3>1, <3>2
      <4>. QED  BY <4>1
    <3>3. CASE Flight' = Tail(Flight)
      <4>1. /\ Len(Flight') = Len(Flight) - 1
            /\ \A i \in 1..Len(Flight') : Flight'[i] = Flight[i + 1] /\ i + 1 \in 1..Len(Flight)
        BY <1>1, <1>5, <3>1, <3>3, HeadTailProperties
      <4>. QED  BY <4>1
    <3>. QED  BY <1>5, <3>2, <3>3
  <2>3. \A i, j \in 1..Len(Flight') : i < j => content'[Flight'[i]] < content'[Flight'[j]]
    <3> TAKE i, j \in 1..Len(Flight')
    <3> HAVE i < j
    <3>1. i + d < j + d
      BY <1>1
    <3>. QED  BY <2>1, <2>2, <3>1 DEF OrderInv
  <2>4. Elems(Flight') \subseteq Elems(Flight)
    BY <1>1, <2>2 DEF Elems
  <2>5. \A c \in Clients, b \in Elems(Flight') :
          \/ seen'[c] < content'[b]
          \/ /\ seen'[c] = content'[b] /\ b = rtspFb'
             /\ ~(rtsp' = "broadcast" /\ c \in toServe')
    <3>1. CASE CamSendTimeout
      <4>1. UNCHANGED <<rtspFb, rtsp>>
        BY <3>1 DEF CamSendTimeout, rtspVars
      <4>. QED  BY <2>1, <2>4, <4>1 DEF OrderInv
    <3>2. CASE RtspReturn /\ Flight # <<>> /\ Flight' = Tail(Flight)
      <4>1. rtspFb # NoBuf
        BY <1>2, <3>2 DEF RtspReturn, HolderPhases
      <4>2. rtspFb \notin Elems(Flight')
        BY <1>1, <3>2, <4>1, TailElems
      <4>. QED  BY <2>1, <2>4, <4>2 DEF OrderInv
    <3>. QED  BY <1>5, <3>1, <3>2
  <2>. QED  BY <2>1, <2>3, <2>4, <2>5 DEF OrderInv
<1>6. CASE UNCHANGED Flight /\ ~SensorFrame /\ ~CamGet /\ ~RtspReturn
  <2>1. UNCHANGED <<content, captured, ready>>
    BY <1>6
    DEF Next, NetworkReady, Tick, SetInterval, CamNext, CamStart, CamGetNull, CamPublish,
        CamSend, CamSendTimeout, CamDelay, RtspNext, RtspStart, RtspDoLoop, RtspReceive,
        RtspReceiveNothing, RtspServe, RtspServed, driverVars, vars
  <2>2. CASE RtspReceive
    <3>1. rtspFb = NoBuf /\ rtspFb \notin Elems(Flight) /\ UNCHANGED seen
      BY <1>1, <1>2, <2>2, BuffersAssumption DEF RtspReceive, HolderPhases
    <3>. QED  BY <1>6, <2>1, <3>1 DEF OrderInv
  <2>3. ASSUME NEW c \in Clients, RtspServe(c)  PROVE OrderInv'
    <3>1. /\ rtsp = "broadcast" /\ c \in toServe
          /\ seen' = [seen EXCEPT ![c] = content[rtspFb]]
          /\ toServe' = toServe \ {c}
          /\ UNCHANGED <<rtsp, rtspFb>>
      BY <2>3 DEF RtspServe
    <3>2. rtspFb \in Buffers
      BY <1>2, <3>1 DEF HolderPhases, MaybeBuffer
    <3>3. /\ Flight # <<>> /\ Head(Flight) = rtspFb
          /\ rtspFb \in Elems(Flight) /\ Len(Flight) \in Nat \ {0} /\ Flight[1] = rtspFb
      BY <1>1, <3>2, BuffersAssumption, TailElems, EmptySeq
    <3>4. \A b \in Elems(Flight) : b = rtspFb \/ content[rtspFb] < content[b]
      <4> TAKE b \in Elems(Flight)
      <4>1. PICK i \in 1..Len(Flight) : b = Flight[i]
        BY <1>1 DEF Elems
      <4>2. CASE i = 1
        BY <3>3, <4>1, <4>2
      <4>3. CASE i # 1
        <5>1. 1 \in 1..Len(Flight) /\ 1 < i
          BY <3>3, <4>3
        <5>. QED  BY <3>3, <4>1, <5>1 DEF OrderInv
      <4>. QED  BY <4>2, <4>3
    <3>5. seen'[c] = content[rtspFb] /\ \A d \in Clients \ {c} : seen'[d] = seen[d]
      BY <1>2, <3>1
    <3>6. \A d \in Clients : seen'[d] <= captured'
      BY <2>1, <3>2, <3>5 DEF OrderInv
    <3>7. \A b \in Held(ready'), d \in Clients : seen'[d] < content'[b]
      BY <2>1, <3>3, <3>5 DEF OrderInv
    <3>8. \A d \in Clients, b \in Elems(Flight') :
            \/ seen'[d] < content'[b]
            \/ /\ seen'[d] = content'[b] /\ b = rtspFb'
               /\ ~(rtsp' = "broadcast" /\ d \in toServe')
      <4> TAKE d \in Clients, b \in Elems(Flight')
      <4>1. CASE d = c
        BY <1>6, <2>1, <3>1, <3>4, <3>5, <4>1
      <4>2. CASE d # c
        BY <1>6, <2>1, <3>1, <3>5, <4>2 DEF OrderInv
      <4>. QED  BY <4>1, <4>2
    <3>. QED  BY <1>6, <2>1, <3>6, <3>7, <3>8 DEF OrderInv
  <2>4. CASE RtspStart \/ RtspDoLoop \/ RtspReceiveNothing \/ RtspServed
    <3>1. UNCHANGED <<seen, rtspFb, toServe>> /\ (rtsp' = "broadcast" => rtsp = "broadcast")
      BY <2>4 DEF RtspStart, RtspDoLoop, RtspReceiveNothing, RtspServed
    <3>. QED  BY <1>6, <2>1, <3>1 DEF OrderInv
  <2>5. CASE \/ NetworkReady \/ Tick \/ SetInterval \/ UNCHANGED vars
             \/ CamStart \/ CamGetNull \/ CamPublish \/ CamSend \/ CamSendTimeout \/ CamDelay
    <3>1. UNCHANGED <<seen, rtsp, rtspFb, toServe>>
      BY <2>5 DEF NetworkReady, Tick, SetInterval, CamStart, CamGetNull, CamPublish, CamSend,
                  CamSendTimeout, CamDelay, vars, rtspVars
    <3>. QED  BY <1>6, <2>1, <3>1 DEF OrderInv
  <2>. QED  BY <1>6, <2>2, <2>3, <2>4, <2>5 DEF Next, CamNext, RtspNext
<1>. QED  BY <1>3, <1>4, <1>5, <1>6, FlightSteps

LEMMA OrderInvariant == Spec => [](IInv /\ OrderInv)
<1>1. Init => OrderInv
  <2> SUFFICES ASSUME Init  PROVE OrderInv
    OBVIOUS
  <2>1. Flight = <<>>
    <3>1. AsSeq(NoBuf) = <<>> /\ <<>> \o <<>> \o <<>> = <<>>
      BY DEF AsSeq
    <3>. QED  BY <3>1 DEF Init, Flight
  <2>2. Len(Flight) = 0 /\ Elems(Flight) = {}
    <3>1. DOMAIN <<>> = {} /\ Len(<<>>) = 0
      BY SMT
    <3>. QED  BY <2>1, <3>1 DEF Elems
  <2>. QED  BY <2>2 DEF Init, OrderInv, Held
<1>2. IInv /\ [Next]_vars => IInv'
  BY NextTypeInv, NextOwnership DEF IInv
<1>3. (IInv /\ OrderInv) /\ [Next]_vars => (IInv /\ OrderInv)'
  BY <1>2, OrderStep
<1>4. Init => IInv
  BY InitTypeInv, InitOwnership DEF IInv
<1>. QED  BY <1>1, <1>3, <1>4, PTL DEF Spec

\* From the driver to the clients the frames stay in the order they were captured, and
\* no client was shown anything newer than what is on its way: nobody is ever sent an
\* older frame than the last one.
THEOREM FramesStayInOrder == Spec => []CaptureOrder
<1>1. IInv /\ OrderInv => CaptureOrder
  <2> SUFFICES ASSUME IInv, OrderInv  PROVE CaptureOrder
    OBVIOUS
  <2> DEFINE out == Flight \o AsSeq(ready)
             frames == FrameOf(out)
  <2>1. /\ Flight \in Seq(Buffers) /\ ready \in MaybeBuffer
        /\ seen \in [Clients -> Nat] /\ content \in [Buffers -> Nat]
    BY FlightFacts DEF IInv, TypeInv, TypeOK
  <2>2. /\ AsSeq(ready) \in Seq(Buffers)
        /\ ready = NoBuf => Len(AsSeq(ready)) = 0
        /\ ready # NoBuf => Len(AsSeq(ready)) = 1 /\ AsSeq(ready)[1] = ready
    BY <2>1, AsSeqFacts
  <2>3. /\ out \in Seq(Buffers)
        /\ Len(out) = Len(Flight) + Len(AsSeq(ready))
        /\ \A i \in 1..Len(out) :
              out[i] = IF i <= Len(Flight) THEN Flight[i] ELSE AsSeq(ready)[i - Len(Flight)]
    BY <2>1, <2>2, ConcatProperties
  <2>4. /\ DOMAIN out = 1..Len(out) /\ DOMAIN Flight = 1..Len(Flight)
        /\ Len(out) \in Nat /\ Len(Flight) \in Nat
    BY <2>1, <2>3, LenProperties
  <2>5. DOMAIN frames = 1..Len(out) /\ \A i \in 1..Len(out) : frames[i] = content[out[i]]
    BY <2>4 DEF FrameOf
  <2>6. \A i \in 1..Len(out) :
           \/ i \in 1..Len(Flight) /\ out[i] = Flight[i] /\ Flight[i] \in Elems(Flight)
           \/ i = Len(Flight) + 1 /\ out[i] = ready /\ ready \in Held(ready)
    <3> TAKE i \in 1..Len(out)
    <3>1. CASE i <= Len(Flight)
      BY <2>3, <2>4, <3>1 DEF Elems
    <3>2. CASE ~(i <= Len(Flight))
      BY <2>2, <2>3, <2>4, <3>2 DEF Held
    <3>. QED  BY <3>1, <3>2
  <2> HIDE DEF out, frames
  <2>7. \A i, j \in 1..Len(out) : i < j => frames[i] < frames[j]
    <3> TAKE i, j \in 1..Len(out)
    <3> HAVE i < j
    <3>1. i \in 1..Len(Flight) /\ out[i] = Flight[i] /\ Flight[i] \in Elems(Flight)
      BY <2>4, <2>6, <2>3, <2>2, <2>1
    <3>2. CASE j \in 1..Len(Flight) /\ out[j] = Flight[j]
      BY <2>5, <3>1, <3>2 DEF OrderInv
    <3>3. CASE out[j] = ready /\ ready \in Held(ready)
      BY <2>5, <3>1, <3>3 DEF OrderInv
    <3>. QED  BY <2>6, <3>2, <3>3
  <2>8. \A c \in Clients, i \in 1..Len(out) : seen[c] <= frames[i]
    <3> TAKE c \in Clients, i \in 1..Len(out)
    <3>1. out[i] \in Buffers /\ content[out[i]] \in Nat /\ seen[c] \in Nat
      BY <2>1, <2>3, <2>4
    <3>2. CASE out[i] \in Elems(Flight)
      BY <2>5, <3>1, <3>2 DEF OrderInv
    <3>3. CASE out[i] \in Held(ready)
      BY <2>5, <3>1, <3>3 DEF OrderInv
    <3>. QED  BY <2>6, <3>2, <3>3
  <2>9. FrameOf(Outstanding) = frames
    BY DEF frames, out, Outstanding, Flight
  <2>. QED  BY <2>5, <2>7, <2>8, <2>9 DEF CaptureOrder
<1>. QED  BY <1>1, OrderInvariant, PTL

-----------------------------------------------------------------------------
(* The pipeline implements FrameHandoff                                      *)

\* The frames in a sequence of buffers.
LEMMA FrameOfFacts ==
    ASSUME NEW s \in Seq(Buffers), content \in [Buffers -> Nat]
    PROVE  /\ FrameOf(s) \in Seq(Nat) /\ Len(FrameOf(s)) = Len(s)
           /\ DOMAIN FrameOf(s) = 1..Len(s)
           /\ \A i \in 1..Len(s) : FrameOf(s)[i] = content[s[i]]
<1>1. Len(s) \in Nat /\ DOMAIN s = 1..Len(s) /\ \A i \in 1..Len(s) : s[i] \in Buffers
  BY LenProperties, ElementOfSeq
<1>2. FrameOf(s) \in [1..Len(s) -> Nat]
  BY <1>1 DEF FrameOf
<1>. QED  BY <1>1, <1>2 DEF FrameOf

\* A sequence without its last and without its first element.
LEMMA EndsFacts ==
    ASSUME NEW S, NEW s \in Seq(S), s # <<>>
    PROVE  /\ Len(s) \in Nat \ {0}
           /\ SubSeq(s, 1, Len(s) - 1) \in Seq(S) /\ Len(SubSeq(s, 1, Len(s) - 1)) = Len(s) - 1
           /\ \A i \in 1..Len(s) - 1 : SubSeq(s, 1, Len(s) - 1)[i] = s[i]
           /\ Tail(s) \in Seq(S) /\ Len(Tail(s)) = Len(s) - 1
           /\ \A i \in 1..Len(s) - 1 : Tail(s)[i] = s[i + 1]
<1> DEFINE n == Len(s) - 1
<1>1. Len(s) \in Nat \ {0}
  BY EmptySeq
<1>2. /\ Tail(s) \in Seq(S) /\ Len(Tail(s)) = n
      /\ \A i \in 1..Len(Tail(s)) : Tail(s)[i] = s[i + 1]
  BY HeadTailProperties
<1>3. n \in Nat /\ \A i \in 1..n : s[i] \in S
  BY <1>1, ElementOfSeq
<1>4. /\ SubSeq(s, 1, n) \in Seq(S)
      /\ Len(SubSeq(s, 1, n)) = IF 1 <= n THEN n - 1 + 1 ELSE 0
      /\ \A i \in 1..n - 1 + 1 : SubSeq(s, 1, n)[i] = s[1 + i - 1]
  <2> HIDE DEF n
  <2>. QED  BY <1>3, SubSeqProperties
<1>5. n - 1 + 1 = n /\ \A i \in 1..n : 1 + i - 1 = i
  BY <1>1
<1>6. Len(SubSeq(s, 1, n)) = n /\ \A i \in 1..n : SubSeq(s, 1, n)[i] = s[i]
  BY <1>3, <1>4, <1>5
<1>. QED  BY <1>1, <1>2, <1>4, <1>6

\* Each step of the pipeline is one of FrameHandoff's, or none.
LEMMA HandoffStep ==
    ASSUME IInv, IInv', OrderInv, [Next]_vars
    PROVE  [Handoff!HandoffNext]_(Handoff!handoffVars)
<1> SUFFICES Handoff!HandoffNext \/ UNCHANGED Handoff!handoffVars
  OBVIOUS
<1> DEFINE flight == FrameOf(Flight)
<1>1. /\ Flight \in Seq(Buffers) /\ Distinct(Flight) /\ Elems(Flight) \cap DriverBuffers = {}
      /\ content \in [Buffers -> Nat] /\ content' \in [Buffers -> Nat]
      /\ seen \in [Clients -> Nat] /\ ready \in MaybeBuffer
      /\ rtspFb # NoBuf => Flight # <<>> /\ Head(Flight) = rtspFb
      /\ HolderPhases /\ Len(Flight) \in Nat /\ DOMAIN Flight = 1..Len(Flight)
  BY FlightFacts, LenProperties DEF IInv, TypeInv, TypeOK
<1>2. /\ flight \in Seq(Nat) /\ Len(flight) = Len(Flight)
      /\ DOMAIN flight = 1..Len(Flight)
      /\ \A i \in 1..Len(Flight) : flight[i] = content[Flight[i]]
  BY <1>1, FrameOfFacts
<1>3. flight = FrameOf(AsSeq(rtspFb) \o queue \o AsSeq(camFb))
  BY DEF Flight
<1>4. CASE CamGet
  <2>1. ready \in Buffers /\ UNCHANGED <<content, seen>> /\ ready \notin Elems(Flight)
    BY <1>1, <1>4 DEF CamGet, rtspVars, MaybeBuffer, DriverBuffers, Held
  <2>2. Flight' = Append(Flight, ready)
    <3>1. ~CamSendTimeout /\ ~RtspReturn
      BY <1>1, <1>4, <2>1, BuffersAssumption
      DEF CamGet, CamSendTimeout, RtspReturn, rtspVars, HolderPhases
    <3>. QED  BY <1>4, <3>1, FlightSteps
  <2>3. /\ Append(Flight, ready) \in Seq(Buffers) /\ Distinct(Append(Flight, ready))
        /\ Len(Append(Flight, ready)) = Len(Flight) + 1
        /\ \A i \in 1..Len(Flight) : Append(Flight, ready)[i] = Flight[i]
        /\ Append(Flight, ready)[Len(Flight) + 1] = ready
    BY <1>1, <2>1, AppendElems, AppendProperties
  <2>4. Len(flight) < Cardinality(Buffers)
    <3>1. Len(Append(Flight, ready)) <= Cardinality(Buffers)
      BY <2>3, BuffersAssumption, DistinctLength
    <3>2. Cardinality(Buffers) \in Nat
      BY BuffersAssumption, FS_CardinalityType
    <3>. QED  BY <1>1, <1>2, <2>3, <3>1, <3>2
  <2>5. flight' = FrameOf(Append(Flight, ready))
    BY <2>1, <2>2 DEF FrameOf
  <2>6. /\ Len(flight') = Len(flight) + 1
        /\ \A i \in 1..Len(Flight) : flight'[i] = flight[i]
        /\ flight'[Len(Flight) + 1] = content[ready]
    <3> DEFINE a == Append(Flight, ready)
    <3>1. /\ Len(FrameOf(a)) = Len(a)
          /\ \A i \in 1..Len(a) : FrameOf(a)[i] = content[a[i]]
      <4>1. a \in Seq(Buffers) /\ content \in [Buffers -> Nat]
        BY <1>1, <2>3
      <4> HIDE DEF a
      <4>. QED  BY <4>1, FrameOfFacts
    <3>2. /\ Len(a) = Len(Flight) + 1 /\ a[Len(Flight) + 1] = ready
          /\ \A i \in 1..Len(Flight) : a[i] = Flight[i] /\ i \in 1..Len(Flight) + 1
          /\ Len(Flight) + 1 \in 1..Len(Flight) + 1
      BY <1>1, <2>3
    <3>3. flight' = FrameOf(a)
      BY <2>5
    <3> HIDE DEF a
    <3>4. /\ Len(FrameOf(a)) = Len(flight) + 1
          /\ FrameOf(a)[Len(Flight) + 1] = content[ready]
      BY <1>2, <3>1, <3>2
    <3>5. \A i \in 1..Len(Flight) : FrameOf(a)[i] = flight[i]
      BY <1>2, <3>1, <3>2
    <3>. QED  BY <3>3, <3>4, <3>5
  <2>7. \A i \in 1..Len(Flight) : flight[i] < content[ready]
    <3>1. ready \in Held(ready)
      BY <2>1, BuffersAssumption DEF Held
    <3>2. \A i \in 1..Len(Flight) : Flight[i] \in Elems(Flight)
      BY <1>1 DEF Elems
    <3>. QED  BY <1>2, <3>1, <3>2 DEF OrderInv
  <2>8. \A c \in Clients : seen[c] < content[ready]
    BY <2>1, BuffersAssumption DEF OrderInv, Held
  <2> HIDE DEF flight
  <2>9. /\ Len(flight) < Cardinality(Buffers)
        /\ Len(flight') = Len(flight) + 1
        /\ \A i \in DOMAIN flight : flight'[i] = flight[i]
        /\ \A i \in DOMAIN flight : flight[i] < flight'[Len(flight')]
        /\ \A v \in Clients : seen[v] < flight'[Len(flight')]
        /\ UNCHANGED seen
    BY <1>2, <2>1, <2>4, <2>6, <2>7, <2>8
  <2>10. Handoff!Take
    BY <1>3, <2>9 DEF Handoff!Take, flight, Flight
  <2>. QED  BY <2>10 DEF Handoff!HandoffNext
<1>5. CASE CamSendTimeout /\ Flight # <<>> /\ Flight' = SubSeq(Flight, 1, Len(Flight) - 1)
  <2>1. UNCHANGED <<content, seen>>
    BY <1>5 DEF CamSendTimeout, rtspVars
  <2>2. flight' = FrameOf(SubSeq(Flight, 1, Len(Flight) - 1))
    BY <1>5, <2>1 DEF FrameOf
  <2>3. flight # <<>> /\ flight' = SubSeq(flight, 1, Len(flight) - 1)
    <3>1. /\ Len(Flight) \in Nat \ {0}
          /\ SubSeq(Flight, 1, Len(Flight) - 1) \in Seq(Buffers)
          /\ Len(SubSeq(Flight, 1, Len(Flight) - 1)) = Len(Flight) - 1
          /\ \A i \in 1..Len(Flight) - 1 : SubSeq(Flight, 1, Len(Flight) - 1)[i] = Flight[i]
      BY <1>1, <1>5, EndsFacts
    <3>2. /\ flight' \in Seq(Nat) /\ Len(flight') = Len(Flight) - 1
          /\ \A i \in 1..Len(Flight) - 1 : flight'[i] = content[Flight[i]]
      <4> DEFINE s == SubSeq(Flight, 1, Len(Flight) - 1)
      <4>1. s \in Seq(Buffers) /\ content \in [Buffers -> Nat] /\ flight' = FrameOf(s)
        BY <1>1, <2>2, <3>1
      <4>2. Len(s) = Len(Flight) - 1 /\ \A i \in 1..Len(Flight) - 1 : s[i] = Flight[i]
        BY <3>1
      <4> HIDE DEF s, flight
      <4>3. /\ FrameOf(s) \in Seq(Nat) /\ Len(FrameOf(s)) = Len(s)
            /\ \A i \in 1..Len(s) : FrameOf(s)[i] = content[s[i]]
        BY <4>1, FrameOfFacts
      <4>. QED  BY <4>1, <4>2, <4>3
    <3> HIDE DEF flight
    <3>3. flight # <<>>
      BY <1>2, <3>1
    <3>4. /\ SubSeq(flight, 1, Len(flight) - 1) \in Seq(Nat)
          /\ Len(SubSeq(flight, 1, Len(flight) - 1)) = Len(Flight) - 1
          /\ \A i \in 1..Len(Flight) - 1 : SubSeq(flight, 1, Len(flight) - 1)[i] = flight[i]
      BY <1>2, <3>3, EndsFacts
    <3>5. \A i \in 1..Len(Flight) - 1 : flight'[i] = SubSeq(flight, 1, Len(flight) - 1)[i]
      <4>1. \A i \in 1..Len(Flight) - 1 : i \in 1..Len(Flight)
        BY <3>1
      <4>. QED  BY <1>2, <3>2, <3>4, <4>1
    <3>. QED  BY <3>2, <3>3, <3>4, <3>5, SeqEqual
  <2>4. Handoff!GiveUp
    BY <1>3, <2>1, <2>3 DEF Handoff!GiveUp, Flight
  <2>. QED  BY <2>4 DEF Handoff!HandoffNext
<1>6. CASE RtspReturn /\ Flight # <<>> /\ Flight' = Tail(Flight)
  <2>1. UNCHANGED <<content, seen>>
    BY <1>6 DEF RtspReturn
  <2>2. flight' = FrameOf(Tail(Flight))
    BY <1>6, <2>1 DEF FrameOf
  <2>3. flight # <<>> /\ flight' = Tail(flight)
    <3>1. /\ Len(Flight) \in Nat \ {0}
          /\ Tail(Flight) \in Seq(Buffers) /\ Len(Tail(Flight)) = Len(Flight) - 1
          /\ \A i \in 1..Len(Flight) - 1 : Tail(Flight)[i] = Flight[i + 1]
      BY <1>1, <1>6, EndsFacts
    <3>2. /\ flight' \in Seq(Nat) /\ Len(flight') = Len(Flight) - 1
          /\ \A i \in 1..Len(Flight) - 1 : flight'[i] = content[Flight[i + 1]]
      <4> DEFINE s == Tail(Flight)
      <4>1. s \in Seq(Buffers) /\ content \in [Buffers -> Nat] /\ flight' = FrameOf(s)
        BY <1>1, <2>2, <3>1
      <4>2. Len(s) = Len(Flight) - 1 /\ \A i \in 1..Len(Flight) - 1 : s[i] = Flight[i + 1]
        BY <3>1
      <4> HIDE DEF s, flight
      <4>3. /\ FrameOf(s) \in Seq(Nat) /\ Len(FrameOf(s)) = Len(s)
            /\ \A i \in 1..Len(s) : FrameOf(s)[i] = content[s[i]]
        BY <4>1, FrameOfFacts
      <4>. QED  BY <4>1, <4>2, <4>3
    <3> HIDE DEF flight
    <3>3. flight # <<>>
      BY <1>2, <3>1
    <3>4. /\ Tail(flight) \in Seq(Nat) /\ Len(Tail(flight)) = Len(Flight) - 1
          /\ \A i \in 1..Len(Flight) - 1 : Tail(flight)[i] = flight[i + 1]
      BY <1>2, <3>3, EndsFacts
    <3>5. \A i \in 1..Len(Flight) - 1 : flight'[i] = Tail(flight)[i]
      <4>1. \A i \in 1..Len(Flight) - 1 : i + 1 \in 1..Len(Flight)
        BY <3>1
      <4>. QED  BY <1>2, <3>2, <3>4, <4>1
    <3>. QED  BY <3>2, <3>3, <3>4, <3>5, SeqEqual
  <2>4. Handoff!Retire
    BY <1>3, <2>1, <2>3 DEF Handoff!Retire, Flight
  <2>. QED  BY <2>4 DEF Handoff!HandoffNext
<1>7. CASE UNCHANGED Flight /\ ~CamGet /\ ~RtspReturn
  <2>1. \A b \in Elems(Flight) : content'[b] = content[b]
    <3>1. CASE SensorFrame
      <4>1. PICK b \in idle : content' = [content EXCEPT ![b] = captured + 1]
        BY <3>1 DEF SensorFrame
      <4>. QED  BY <1>1, <4>1 DEF DriverBuffers, Elems
    <3>2. CASE ~SensorFrame
      BY <1>7, <3>2
      DEF Next, NetworkReady, Tick, SetInterval, CamNext, CamStart, CamGetNull, CamPublish,
          CamSend, CamSendTimeout, CamDelay, RtspNext, RtspStart, RtspDoLoop, RtspReceive,
          RtspReceiveNothing, RtspServe, RtspServed, driverVars, vars
    <3>. QED  BY <3>1, <3>2
  <2>2. flight' = flight
    BY <1>1, <1>7, <2>1 DEF FrameOf, Elems
  <2>3. ASSUME NEW c \in Clients, RtspServe(c)  PROVE Handoff!Show(c)
    <3>1. /\ rtsp = "broadcast" /\ c \in toServe
          /\ seen' = [seen EXCEPT ![c] = content[rtspFb]]
      BY <2>3 DEF RtspServe
    <3>2. /\ rtspFb # NoBuf /\ Flight # <<>> /\ Head(Flight) = rtspFb
          /\ rtspFb \in Elems(Flight)
      BY <1>1, <3>1, TailElems DEF HolderPhases
    <3>3. flight # <<>> /\ Head(flight) = content[rtspFb]
      <4>1. Len(Flight) \in Nat \ {0} /\ Flight[1] = rtspFb
        BY <1>1, <3>2, EmptySeq
      <4> HIDE DEF flight
      <4>. QED  BY <1>2, <4>1
    <3>4. seen[c] < content[rtspFb]
      BY <3>1, <3>2 DEF OrderInv
    <3>. QED  BY <1>3, <2>2, <3>1, <3>3, <3>4 DEF Handoff!Show, Flight
  <2>4. CASE UNCHANGED seen
    BY <2>2, <2>4 DEF Handoff!handoffVars, Flight
  <2>5. \/ UNCHANGED seen
        \/ \E c \in Clients : RtspServe(c)
    BY <1>7
    DEF Next, SensorFrame, NetworkReady, Tick, SetInterval, CamNext, CamStart, CamGetNull,
        CamPublish, CamSend, CamSendTimeout, CamDelay, RtspNext, RtspStart, RtspDoLoop,
        RtspReceive, RtspReceiveNothing, RtspServed, rtspVars, vars
  <2>. QED  BY <2>3, <2>4, <2>5 DEF Handoff!HandoffNext
<1>. QED  BY <1>4, <1>5, <1>6, <1>7, FlightSteps

\* FramePipeline implements FrameHandoff: buffers, queue and tasks are a lossy channel
\* that keeps the order and shows no viewer a frame twice or after a newer one, for any
\* number of buffers, places in the queue and clients.
THEOREM HandoffImplemented == Spec => ImplementsHandoff
<1>1. Init => Handoff!HandoffInit
  <2> SUFFICES ASSUME Init  PROVE Handoff!HandoffInit
    OBVIOUS
  <2>1. AsSeq(rtspFb) \o queue \o AsSeq(camFb) = <<>>
    BY DEF Init, AsSeq
  <2>2. FrameOf(<<>>) = <<>>
    <3>1. DOMAIN <<>> = {}
      BY SMT
    <3>. QED  BY <3>1, SMT DEF FrameOf
  <2>. QED  BY <2>1, <2>2 DEF Init, Handoff!HandoffInit
<1>2. IInv /\ [Next]_vars => IInv'
  BY NextTypeInv, NextOwnership DEF IInv
<1>3. IInv /\ OrderInv /\ [Next]_vars => [Handoff!HandoffNext]_(Handoff!handoffVars)
  BY <1>2, HandoffStep
<1>. QED  BY <1>1, <1>3, OrderInvariant, PTL DEF Spec, ImplementsHandoff, Handoff!HandoffSpec
=============================================================================
