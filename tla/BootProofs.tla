------------------------------ MODULE BootProofs ------------------------------
(***************************************************************************)
(* Proofs about Boot, for every watchdog timeout longer than a loop, any   *)
(* number of camera attempts and of faults in a life, and about RebootLog. *)
(***************************************************************************)
EXTENDS Boot, RebootLog, TLAPS

Phases == {"absent", "start", "waiting", "loop"} \cup Stuck

\* What setup() may still have to create; the camera task is pending in the first two.
Pending(list) ==
    list \in {<<"network", "camera", "rtsp", "web_ui", "health">>,
              <<"camera", "rtsp", "web_ui", "health">>}
CameraPending == Pending(todo)
Todos == {<<"network", "camera", "rtsp", "web_ui", "health">>,
          <<"camera", "rtsp", "web_ui", "health">>,
          <<"rtsp", "web_ui", "health">>, <<"web_ui", "health">>, <<"health">>, <<>>}

TypeInv ==
    /\ todo \in Todos
    /\ task \in [Tasks -> Phases]
    /\ since \in [Tasks -> Nat]
    /\ watched \subseteq Created
    /\ main # "done" => watched = {}

\* A task that is watched and not stuck has come round within Period.
TurnInv == \A t \in watched : task[t] \notin Stuck => since[t] <= Period

\* task_rtsp exists only after task_camera has had its start, which ends in a queue or
\* in suspension.
QueueInv ==
    /\ task["rtsp"] # "absent" => ~CameraPending /\ task["camera"] # "start"
    /\ task["camera"] \in {"absent", "start", "suspended"} \/ queueMade
    /\ GivesUpOnlyWithoutQueue

IInv == TypeInv /\ TurnInv /\ QueueInv

LEMMA InitIInv == Init => IInv
BY DEF Init, IInv, TypeInv, TurnInv, QueueInv, GivesUpOnlyWithoutQueue, TaskOrder, Todos,
       Phases, Created, Tasks, CameraPending, Pending

\* A restart is a new beginning.
LEMMA RestartIInv == Restart => IInv'
BY DEF Restart, Restarted, IInv, TypeInv, TurnInv, QueueInv, GivesUpOnlyWithoutQueue,
       TaskOrder, Todos, Phases, Created, Tasks, CameraPending, Pending

\* Each creation takes the next task of the list.
LEMMA Creation ==
  ASSUME todo \in Todos, todo # <<>>
  PROVE  /\ Tail(todo) \in Todos
         /\ Head(todo) \in Tasks
         /\ Head(todo) = "rtsp" => todo = <<"rtsp", "web_ui", "health">>
         /\ Head(todo) = "camera" => CameraPending
         /\ Pending(Tail(todo)) => CameraPending
<1>1. CASE todo = <<"network", "camera", "rtsp", "web_ui", "health">>
  <2>1. Head(todo) = "network" /\ Tail(todo) = <<"camera", "rtsp", "web_ui", "health">>
      BY <1>1
  <2>. QED
      BY <1>1, <2>1 DEF Todos, Tasks, CameraPending, Pending
<1>2. CASE todo = <<"camera", "rtsp", "web_ui", "health">>
  <2>1. Head(todo) = "camera" /\ Tail(todo) = <<"rtsp", "web_ui", "health">>
      BY <1>2
  <2>. QED
      BY <1>2, <2>1 DEF Todos, Tasks, CameraPending, Pending
<1>3. CASE todo = <<"rtsp", "web_ui", "health">>
  <2>1. Head(todo) = "rtsp" /\ Tail(todo) = <<"web_ui", "health">>
      BY <1>3
  <2>. QED
      BY <1>3, <2>1 DEF Todos, Tasks, CameraPending, Pending
<1>4. CASE todo = <<"web_ui", "health">>
  <2>1. Head(todo) = "web_ui" /\ Tail(todo) = <<"health">>
      BY <1>4
  <2>. QED
      BY <1>4, <2>1 DEF Todos, Tasks, CameraPending, Pending
<1>5. CASE todo = <<"health">>
  <2>1. Head(todo) = "health" /\ Tail(todo) = <<>>
      BY <1>5
  <2>. QED
      BY <1>5, <2>1 DEF Todos, Tasks, CameraPending, Pending
<1>. QED
    BY <1>1, <1>2, <1>3, <1>4, <1>5 DEF Todos

\* Every step keeps the invariant.
LEMMA NextIInv == IInv /\ [Next]_vars => IInv'
<1> SUFFICES ASSUME IInv, [Next]_vars PROVE IInv'
    OBVIOUS
<1> USE TimingAssumption DEF IInv
<1> USE DEF TypeInv, TurnInv, QueueInv, GivesUpOnlyWithoutQueue, CameraPending
<1>0. "camera" \in Tasks /\ "rtsp" \in Tasks /\ "health" \in Tasks
      /\ "network" \in Tasks /\ "web_ui" \in Tasks
    BY DEF Tasks
<1>1. CASE CameraInit
    BY <1>1 DEF CameraInit, taskVars, wdtVars, Created
<1>2. CASE CreateTask
  <2> DEFINE t == Head(todo)
  <2>1. /\ watched = {} /\ task["camera"] # "start" /\ todo # <<>> /\ todo' = Tail(todo)
        /\ task' = task \/ task' = [task EXCEPT ![t] = "start"]
        /\ UNCHANGED <<queueMade, wdtVars, since>>
      BY <1>2 DEF CreateTask
  <2>2. /\ todo' \in Todos /\ t \in Tasks
        /\ t = "rtsp" => todo = <<"rtsp", "web_ui", "health">>
        /\ t = "camera" => CameraPending
        /\ CameraPending' => CameraPending
      BY <2>1, Creation DEF CameraPending
  <2>. HIDE DEF t
  <2>3. TypeInv' /\ TurnInv'
    <3>1. task' \in [Tasks -> Phases]
        BY <2>1, <2>2 DEF Phases
    <3>2. watched' = {}
        BY <2>1 DEF wdtVars
    <3>. QED
        BY <2>1, <2>2, <3>1, <3>2
  <2>4. CASE t = "rtsp"
      BY <1>0, <2>1, <2>2, <2>3, <2>4 DEF wdtVars, Pending
  <2>5. CASE t = "camera"
      BY <1>0, <2>1, <2>2, <2>3, <2>5 DEF wdtVars
  <2>6. CASE t \notin {"rtsp", "camera"}
      BY <1>0, <2>1, <2>2, <2>3, <2>6 DEF wdtVars
  <2>. QED
      BY <2>4, <2>5, <2>6
<1>3. CASE HealthInit
  <2>1. main' = "done" /\ since' = [t \in Tasks |-> 0] /\ UNCHANGED <<todo, taskVars>>
      BY <1>3 DEF HealthInit
  <2>2. watched' \subseteq Created
      BY <1>3 DEF HealthInit, wdtVars
  <2>. QED
      BY <2>1, <2>2 DEF taskVars, Created
<1>4. CASE NetworkTask
    BY <1>0, <1>4 DEF NetworkTask, Becomes, bootVars, wdtVars, Created, Phases, Stuck
<1>5. CASE CameraTask
    BY <1>0, <1>5 DEF CameraTask, Becomes, bootVars, wdtVars, Created, Phases, Stuck
<1>6. CASE HealthTask
    BY <1>0, <1>6 DEF HealthTask, Becomes, bootVars, wdtVars, Created, Phases, Stuck
<1>7. ASSUME NEW t \in Tasks, Wait(t) PROVE IInv'
    BY <1>0, <1>7 DEF Wait, Becomes, bootVars, wdtVars, Created, Phases, Stuck
<1>8. CASE RtspTask
    BY <1>0, <1>8 DEF RtspTask, Becomes, bootVars, wdtVars, Created, Phases, Stuck
<1>9. CASE WebUiTask
    BY <1>0, <1>9 DEF WebUiTask, Becomes, bootVars, wdtVars, Created, Phases, Stuck
<1>10. ASSUME NEW t \in Tasks, Iterate(t) PROVE IInv'
    BY <1>10 DEF Iterate, bootVars, taskVars, wdtVars, Created
<1>11. ASSUME NEW t \in Tasks, Hang(t) PROVE IInv'
    BY <1>0, <1>11 DEF Hang, Becomes, bootVars, wdtVars, Created, Phases, Stuck
<1>12. CASE Pass
  <2>1. /\ \A t \in Tasks : task[t] # "start"
        /\ \A t \in watched : task[t] \in Feeding => since[t] < Period
        /\ since' = [t \in Tasks |-> IF t \in watched THEN since[t] + 1 ELSE since[t]]
        /\ UNCHANGED <<bootVars, taskVars, wdtVars>>
      BY <1>12 DEF Pass
  <2>2. \A t \in watched : t \in Tasks /\ (task[t] \in Feeding \/ task[t] \in Stuck)
      BY <2>1 DEF Created, Phases, Feeding
  <2>3. TurnInv'
      BY <2>1, <2>2 DEF taskVars, wdtVars
  <2>. QED
      BY <2>1, <2>3 DEF bootVars, taskVars, wdtVars, Created
<1>13. CASE Panic \/ UNCHANGED vars
    BY <1>13 DEF Panic, vars, bootVars, taskVars, wdtVars, Created
<1>14. CASE Restart
    BY <1>14, RestartIInv
<1>. QED
    BY <1>1, <1>2, <1>3, <1>4, <1>5, <1>6, <1>7, <1>8, <1>9, <1>10, <1>11, <1>12, <1>13,
       <1>14 DEF Next

LEMMA IInvInvariant == Spec => []IInv
BY InitIInv, NextIInv, PTL DEF Spec

\* Whatever the timeout, as long as it is longer than a loop: when the watchdog expires
\* for a task, that task is stuck (health_monitor.cpp:70-131).
THEOREM OnlyTheStuckExpire == Spec => []OnlyStuckExpires
<1>1. ASSUME IInv PROVE OnlyStuckExpires
  <2>1. \A t \in watched : since[t] \in Nat
      BY <1>1 DEF IInv, TypeInv, Created
  <2>. QED
      BY <1>1, <2>1, TimingAssumption DEF IInv, TurnInv, OnlyStuckExpires, Expired
<1>. QED
    BY <1>1, IInvInvariant, PTL

\* task_rtsp gives up only where task_camera is not there or could not make the queue,
\* however creation and the first steps of the tasks interleave (main.cpp:144-175).
THEOREM GivesUpWithReason == Spec => []GivesUpOnlyWithoutQueue
<1>1. IInv => GivesUpOnlyWithoutQueue
    BY DEF IInv, QueueInv
<1>. QED
    BY <1>1, IInvInvariant, PTL

-----------------------------------------------------------------------------
(* The reboot log: any set of reset reasons, any number of lives.          *)

\* Where this life has not written the counter yet, and where it has it in hand.
Unwritten == {"init", "no_wdt", "open", "get"}
InHand == {"set_count", "set_reason", "commit"}

\* This life has still its own count to give: what it finds in NVS is about earlier
\* lives, and what it has in hand is at most one more.
CountInv ==
    /\ written.count <= boots /\ stored.count <= boots /\ rebootCount <= boots
    /\ pc \in Unwritten => written.count < boots /\ stored.count < boots

\* A life is logged once at most, when it commits.
LivesInv ==
    /\ logged <= boots
    /\ pc \in Unwritten \cup InHand => logged < boots

\* While the counter can be read, the one in hand is ahead of all that was logged, in
\* either of the two places a reset may take it from.
LoggedInv ==
    readable =>
        /\ logged <= stored.count /\ logged <= written.count
        /\ pc \in InHand => logged < rebootCount

LogInv == LogTypeOK /\ CountInv /\ LivesInv /\ LoggedInv

LEMMA LogInitInv == LogInit => LogInv
BY ReasonsAssumption, BoundAssumption
   DEF LogInit, LogInv, LogTypeOK, CountInv, LivesInv, LoggedInv, Unwritten, InHand, Log

\* The fields of what NVS holds are numbers and reasons.
LEMMA FieldsTyped ==
  ASSUME LogTypeOK
  PROVE  /\ written.count \in Nat /\ written.reason \in Reasons \cup {NoReason}
         /\ stored.count \in Nat /\ stored.reason \in Reasons \cup {NoReason}
BY DEF LogTypeOK, Log

\* Every call of health_init and every reset keeps the invariant.
LEMMA LogNextInv == LogInv /\ [LogNext]_logVars => LogInv'
<1> SUFFICES ASSUME LogInv, [LogNext]_logVars PROVE LogInv'
    OBVIOUS
<1> USE BoundAssumption DEF LogInv
<1>a. /\ written.count \in Nat /\ written.reason \in Reasons \cup {NoReason}
      /\ stored.count \in Nat /\ stored.reason \in Reasons \cup {NoReason}
    BY FieldsTyped
<1>b. /\ boots \in Nat /\ logged \in Nat /\ rebootCount \in Nat
      /\ boots <= MaxBoots
    BY DEF LogTypeOK
<1>1. CASE WdtInit \/ NvsOpen
    BY <1>1 DEF WdtInit, NvsOpen, LogTypeOK, CountInv, LivesInv, LoggedInv, Unwritten, InHand
<1>2. CASE GetCount
  <2>1. /\ pc = "get" /\ pc' = "set_count"
        /\ \/ rebootCount' = written.count + 1 /\ readable' = readable
           \/ rebootCount' = 1 /\ readable' = FALSE
        /\ UNCHANGED <<reason, stored, written, boots, logged>>
      BY <1>2 DEF GetCount
  <2>2. LogTypeOK'
    <3>1. rebootCount' \in Nat
        BY <2>1, <1>a
    <3>2. readable' \in BOOLEAN
        BY <2>1 DEF LogTypeOK
    <3>. QED
        BY <2>1, <3>1, <3>2 DEF LogTypeOK
  <2>3. CountInv' /\ LivesInv' /\ LoggedInv'
      BY <2>1, <1>a, <1>b DEF LogTypeOK, CountInv, LivesInv, LoggedInv, Unwritten, InHand
  <2>. QED
      BY <2>2, <2>3
<1>3. CASE SetCount
  <2>1. /\ pc = "set_count" /\ pc' = "set_reason"
        /\ UNCHANGED <<reason, rebootCount, stored, boots, logged, readable>>
        /\ written' \in Log
        /\ written'.count \in {written.count, rebootCount}
      BY <1>3, <1>a, <1>b DEF SetCount, LogTypeOK, Log
  <2>2. LogTypeOK'
      BY <2>1 DEF LogTypeOK
  <2>3. CountInv' /\ LivesInv' /\ LoggedInv'
      BY <2>1, <1>a, <1>b DEF CountInv, LivesInv, LoggedInv, Unwritten, InHand
  <2>. QED
      BY <2>2, <2>3
<1>4. CASE SetReason
  <2>1. /\ pc = "set_reason" /\ pc' = "commit"
        /\ UNCHANGED <<reason, rebootCount, stored, boots, logged, readable>>
        /\ written' \in Log
        /\ written'.count = written.count
      BY <1>4, <1>a DEF SetReason, LogTypeOK, Log
  <2>2. LogTypeOK'
      BY <2>1 DEF LogTypeOK
  <2>3. CountInv' /\ LivesInv' /\ LoggedInv'
      BY <2>1, <1>a, <1>b DEF CountInv, LivesInv, LoggedInv, Unwritten, InHand
  <2>. QED
      BY <2>2, <2>3
<1>5. CASE Commit
  <2>1. /\ pc = "commit" /\ pc' \in {"ok", "failed"}
        /\ UNCHANGED <<reason, rebootCount, written, boots, readable>>
        /\ stored' \in {stored, written}
        /\ logged' \in {logged, logged + 1}
        /\ logged' = logged + 1 => stored' = written /\ written.count = rebootCount
      BY <1>5, <1>b DEF Commit
  <2>2. logged < boots
      BY <2>1 DEF LivesInv, InHand
  <2>3. LogTypeOK'
      BY <2>1, <2>2, <1>b DEF LogTypeOK
  <2>4. CountInv' /\ LivesInv' /\ LoggedInv'
      BY <2>1, <2>2, <1>a, <1>b DEF CountInv, LivesInv, LoggedInv, Unwritten, InHand
  <2>. QED
      BY <2>3, <2>4
<1>6. CASE Reset
  <2>1. /\ pc' = "init" /\ rebootCount' = 0 /\ reason' \in Reasons
        /\ boots < MaxBoots /\ boots' = boots + 1
        /\ UNCHANGED <<logged, readable>>
        /\ written' = stored' /\ stored' \in Log
        /\ stored'.count \in {stored.count, written.count}
      BY <1>6, <1>a DEF Reset, Log
  <2>2. LogTypeOK'
      BY <2>1, <1>b DEF LogTypeOK
  <2>3. CountInv' /\ LivesInv' /\ LoggedInv'
      BY <2>1, <1>a, <1>b DEF CountInv, LivesInv, LoggedInv, Unwritten, InHand
  <2>. QED
      BY <2>2, <2>3
<1>7. CASE Run \/ UNCHANGED logVars
    BY <1>7 DEF Run, logVars, LogTypeOK, CountInv, LivesInv, LoggedInv
<1>8. QED
    BY <1>1, <1>2, <1>3, <1>4, <1>5, <1>6, <1>7 DEF LogNext

LEMMA LogInvInvariant == LogSpec => []LogInv
BY LogInitInv, LogNextInv, PTL DEF LogSpec

\* In every life, wherever resets and failures fall, the counter the web page is told
\* and the one a reset would leave are at most the number of lives
\* (health_monitor.cpp:305-317).
THEOREM CounterIsNeverAhead == LogSpec => []CountNeverAhead
<1>1. LogInv => CountNeverAhead
    BY DEF LogInv, CountInv, CountNeverAhead, health_get_reboot_count
<1>. QED
    BY <1>1, LogInvInvariant, PTL

\* As long as no read of the counter has failed, no life whose log was committed is
\* missing from it.
THEOREM NoLoggedLifeIsLost == LogSpec => []LoggedLivesAreCounted
<1>1. LogInv => LoggedLivesAreCounted
    BY DEF LogInv, LoggedInv, LoggedLivesAreCounted
<1>. QED
    BY <1>1, LogInvInvariant, PTL
=============================================================================
