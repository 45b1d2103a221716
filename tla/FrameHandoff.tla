---------------------------- MODULE FrameHandoff ----------------------------
(***************************************************************************)
(* What the frame pipeline promises, without buffers, queue or tasks.      *)
(*                                                                         *)
(* A lossy first-in first-out channel of bounded size between the camera   *)
(* and the viewers: frames enter in the order they were taken, may be lost *)
(* at either end, and only the oldest one is ever shown.  A viewer never   *)
(* sees a frame twice, or after a newer one.                               *)
(***************************************************************************)
EXTENDS Integers, Sequences

CONSTANTS
    Viewers,   \* those the frames are shown to
    Capacity   \* the most frames that may be on their way

VARIABLES
    flight,    \* the frames on their way, oldest first
    shown      \* the last frame each viewer was shown

handoffVars == <<flight, shown>>

HandoffInit ==
    /\ flight = <<>>
    /\ shown = [v \in Viewers |-> 0]

\* A frame newer than any on its way and any shown enters the channel.
Take ==
    /\ Len(flight) < Capacity
    /\ Len(flight') = Len(flight) + 1
    /\ \A i \in DOMAIN flight : flight'[i] = flight[i]
    /\ \A i \in DOMAIN flight : flight[i] < flight'[Len(flight')]
    /\ \A v \in Viewers : shown[v] < flight'[Len(flight')]
    /\ UNCHANGED shown

\* The viewer v is shown the oldest frame on its way.
Show(v) ==
    /\ flight # <<>>
    /\ shown[v] < Head(flight)
    /\ shown' = [shown EXCEPT ![v] = Head(flight)]
    /\ UNCHANGED flight

\* The oldest frame is done with, shown or not.
Retire ==
    /\ flight # <<>>
    /\ flight' = Tail(flight)
    /\ UNCHANGED shown

\* The newest frame is given up before it gets anywhere.
GiveUp ==
    /\ flight # <<>>
    /\ flight' = SubSeq(flight, 1, Len(flight) - 1)
    /\ UNCHANGED shown

HandoffNext == Take \/ (\E v \in Viewers : Show(v)) \/ Retire \/ GiveUp

HandoffSpec == HandoffInit /\ [][HandoffNext]_handoffVars
=============================================================================
