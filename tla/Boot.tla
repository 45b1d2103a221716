-------------------------------- MODULE Boot --------------------------------
(***************************************************************************)
(* One life of the device after another: setup() of main.cpp, health_init  *)
(* of health_monitor.cpp, the starting phases of the five tasks, and the   *)
(* task watchdog that ends a life.                                         *)
(*                                                                         *)
(* The tasks run while setup() is still going: each action of setup, of a  *)
(* task or of the watchdog may come between any two others.  What a task   *)
(* does in its loop is in the other modules; here an iteration is its call *)
(* of esp_task_wdt_reset, and a task may hang in it for ever.  What        *)
(* health_init writes to NVS is in RebootLog.                              *)
(*                                                                         *)
(* Time is counted in units of the longest loop interval.  A fault is      *)
(* anything that goes wrong apart from the camera: a task that is not      *)
(* created, not registered, fails to start or hangs.                       *)
(***************************************************************************)
EXTENDS Naturals, Sequences, FiniteSets

CONSTANTS
    Timeout,        \* TWDT_TIMEOUT_SEC, in units
    Period,         \* units between two iterations of a healthy task, at most
    Retries,        \* CAMERA_INIT_RETRY_COUNT
    MaxFaults       \* bound: faults in one life of the device

ASSUME TimingAssumption == Period \in Nat \ {0} /\ Timeout \in Nat /\ Period < Timeout
ASSUME BoundsAssumption == Retries \in Nat \ {0} /\ MaxFaults \in Nat

VARIABLES
    power,      \* the device runs, or its reset is under way
    main,       \* where setup() is
    attempts,   \* calls of camera_init
    cameraOk,   \* the last of them succeeded
    todo,       \* tasks setup() has still to create
    task,       \* where each task is
    ready,      \* g_network_ready
    queueMade,  \* g_frame_queue # NULL
    wdtOn,      \* esp_task_wdt_init succeeded
    watched,    \* tasks subscribed to the watchdog
    since,      \* units since each task last reset the watchdog
    faults      \* what has gone wrong in this life (bounded)

bootVars == <<main, attempts, cameraOk, todo>>
taskVars == <<task, ready, queueMade>>
wdtVars == <<wdtOn, watched>>
vars == <<power, bootVars, taskVars, wdtVars, since, faults>>

\* Mutant: the consumer of the queue is created before its producer.
ConsumerFirst == <<"network", "rtsp", "camera", "web_ui", "health">>

\* The order in which setup() creates the tasks.
TaskOrder == <<"network", "camera", "rtsp", "web_ui", "health">>
Tasks == {"network", "camera", "rtsp", "web_ui", "health"}
\* Mutant: the tasks that wait for the network do not reset the watchdog.
FeedingInLoop == {"loop"}

\* The phases whose loops call esp_task_wdt_reset.
Feeding == {"waiting", "loop"}
Stuck == {"hung", "failed", "suspended"}
Created == {t \in Tasks : task[t] # "absent"}

TypeOK ==
    /\ power \in {"on", "resetting"}
    /\ main \in {"camera", "create", "health", "done"}
    /\ attempts \in 0..Retries /\ cameraOk \in BOOLEAN
    /\ todo \in {SubSeq(TaskOrder, i, 5) : i \in 1..6}
    /\ task \in [Tasks -> {"absent", "start", "waiting", "loop"} \cup Stuck]
    /\ ready \in BOOLEAN /\ queueMade \in BOOLEAN
    /\ wdtOn \in BOOLEAN /\ watched \subseteq Tasks
    /\ since \in [Tasks -> 0..Timeout]
    /\ faults \in 0..MaxFaults

\* The state of the RAM after a reset.
Restarted ==
    /\ main' = "camera" /\ attempts' = 0 /\ cameraOk' = FALSE /\ todo' = TaskOrder
    /\ task' = [t \in Tasks |-> "absent"]
    /\ ready' = FALSE /\ queueMade' = FALSE
    /\ wdtOn' = FALSE /\ watched' = {} /\ since' = [t \in Tasks |-> 0]
    /\ faults' = 0

Init ==
    /\ power = "on"
    /\ main = "camera" /\ attempts = 0 /\ cameraOk = FALSE /\ todo = TaskOrder
    /\ task = [t \in Tasks |-> "absent"]
    /\ ready = FALSE /\ queueMade = FALSE
    /\ wdtOn = FALSE /\ watched = {} /\ since = [t \in Tasks |-> 0]
    /\ faults = 0

\* A step that goes well, and one that is a fault.
Well == faults' = faults
Fault == faults < MaxFaults /\ faults' = faults + 1

-----------------------------------------------------------------------------
(* setup().                                                                *)

\* One turn of the retry loop.
CameraInit ==
    /\ power = "on" /\ main = "camera" /\ attempts < Retries
    /\ attempts' = attempts + 1
    /\ cameraOk' \in BOOLEAN
    /\ main' = IF cameraOk' \/ attempts' = Retries THEN "create" ELSE "camera"
    /\ UNCHANGED <<power, todo, taskVars, wdtVars, since, faults>>

\* xTaskCreatePinnedToCore; without memory there is no task and no handle.  setup()
\* has the lowest priority on core 1: task_camera, of the highest one on that core,
\* has made its queue by the time setup() goes on.
CreateTask ==
    /\ power = "on" /\ main = "create" /\ todo # <<>> /\ task["camera"] # "start"
    /\ \/ Well /\ task' = [task EXCEPT ![Head(todo)] = "start"]
       \/ Fault /\ task' = task
    /\ todo' = Tail(todo)
    /\ main' = IF todo' = <<>> THEN "health" ELSE "create"
    /\ UNCHANGED <<power, attempts, cameraOk, ready, queueMade, wdtVars, since>>

-----------------------------------------------------------------------------
(* health_init.                                                            *)

\* Mutant: the count of registered tasks misses the last one.
HealthInitMissesOne ==
    /\ power = "on" /\ main = "health" /\ main' = "done"
    /\ \/ Well /\ wdtOn' = TRUE /\ watched' = Created \ {"health"}
       \/ Fault /\ wdtOn' = TRUE /\ \E t \in Created : watched' = Created \ {t, "health"}
       \/ Fault /\ UNCHANGED <<wdtOn, watched>>
    /\ since' = [t \in Tasks |-> 0]
    /\ UNCHANGED <<power, attempts, cameraOk, todo, taskVars>>

\* esp_task_wdt_init, then esp_task_wdt_add of every handle that is not null: all
\* goes well, one task is not added, or the watchdog stays off.
HealthInit ==
    /\ power = "on" /\ main = "health" /\ main' = "done"
    /\ \/ Well /\ wdtOn' = TRUE /\ watched' = Created
       \/ Fault /\ wdtOn' = TRUE /\ \E t \in Created : watched' = Created \ {t}
       \/ Fault /\ UNCHANGED <<wdtOn, watched>>
    /\ since' = [t \in Tasks |-> 0]
    /\ UNCHANGED <<power, attempts, cameraOk, todo, taskVars>>

-----------------------------------------------------------------------------
(* The tasks.                                                              *)

Becomes(t, phase) ==
    /\ task' = [task EXCEPT ![t] = phase]
    /\ UNCHANGED <<power, bootVars, wdtVars>>

\* network_init; if it fails the task sleeps and leaves the rest to the watchdog.
NetworkTask ==
    /\ power = "on" /\ task["network"] = "start"
    /\ \/ Well /\ Becomes("network", "loop") /\ ready' = TRUE
       \/ Fault /\ Becomes("network", "failed") /\ ready' = ready
    /\ UNCHANGED <<queueMade, since>>

CameraTask ==
    /\ power = "on" /\ task["camera"] = "start"
    /\ \/ Well /\ Becomes("camera", "loop") /\ queueMade' = TRUE
       \/ Fault /\ Becomes("camera", "suspended") /\ queueMade' = queueMade
    /\ UNCHANGED <<ready, since>>

HealthTask ==
    /\ power = "on" /\ task["health"] = "start"
    /\ Becomes("health", "loop") /\ Well
    /\ UNCHANGED <<ready, queueMade, since>>

\* task_rtsp and task_web_ui wait for the network.
Wait(t) ==
    /\ power = "on" /\ t \in {"rtsp", "web_ui"} /\ task[t] = "start"
    /\ Becomes(t, "waiting") /\ Well
    /\ UNCHANGED <<ready, queueMade, since>>

RtspTask ==
    /\ power = "on" /\ task["rtsp"] = "waiting" /\ ready
    /\ Becomes("rtsp", IF queueMade THEN "loop" ELSE "suspended") /\ Well
    /\ UNCHANGED <<ready, queueMade, since>>

WebUiTask ==
    /\ power = "on" /\ task["web_ui"] = "waiting" /\ ready
    /\ \/ Well /\ Becomes("web_ui", "loop")
       \/ Fault /\ Becomes("web_ui", "failed")
    /\ UNCHANGED <<ready, queueMade, since>>

\* Mutant: task_health resets the watchdog on behalf of every task.
IterateForAll(t) ==
    /\ power = "on" /\ task[t] \in Feeding
    /\ since[t] > 0
    /\ since' = [u \in Tasks |-> IF u = t \/ t = "health" THEN 0 ELSE since[u]]
    /\ UNCHANGED <<power, bootVars, taskVars, wdtVars, faults>>

\* One iteration of a loop, up to its esp_task_wdt_reset.
Iterate(t) ==
    /\ power = "on" /\ task[t] \in Feeding
    /\ since[t] > 0
    /\ since' = [since EXCEPT ![t] = 0]
    /\ UNCHANGED <<power, bootVars, taskVars, wdtVars, faults>>

\* A call of a loop, or of network_init, does not come back.
Hang(t) ==
    /\ power = "on" /\ (task[t] = "loop" \/ (t = "network" /\ task[t] = "start"))
    /\ Becomes(t, "hung") /\ Fault
    /\ UNCHANGED <<ready, queueMade, since>>

-----------------------------------------------------------------------------
(* Time, the watchdog and resets.                                          *)

\* A unit of time passes.  Every healthy task has its turn in time: a task that has
\* been created starts, and a loop comes round within Period.
Pass ==
    /\ power = "on"
    /\ \A t \in Tasks : task[t] # "start"
    /\ \A t \in watched : since[t] < (IF task[t] \in Feeding THEN Period ELSE Timeout)
    /\ since' = [t \in Tasks |-> IF t \in watched THEN since[t] + 1 ELSE since[t]]
    /\ UNCHANGED <<power, bootVars, taskVars, wdtVars, faults>>

Expired == {t \in watched : since[t] >= Timeout}

\* The watchdog panics.
Panic ==
    /\ power = "on" /\ Expired # {}
    /\ power' = "resetting"
    /\ UNCHANGED <<bootVars, taskVars, wdtVars, since, faults>>

Restart ==
    /\ power = "resetting" /\ power' = "on"
    /\ Restarted

Next ==
    \/ CameraInit \/ CreateTask \/ HealthInit
    \/ NetworkTask \/ CameraTask \/ HealthTask \/ RtspTask \/ WebUiTask
    \/ \E t \in Tasks : Wait(t) \/ Iterate(t) \/ Hang(t)
    \/ Pass \/ Panic \/ Restart

Spec == Init /\ [][Next]_vars

\* Time passes, setup() goes on, tasks are scheduled and the watchdog does its work.
Fairness ==
    /\ WF_vars(CameraInit \/ CreateTask \/ HealthInit)
    /\ WF_vars(Pass) /\ WF_vars(Panic)
    /\ WF_vars(NetworkTask) /\ WF_vars(CameraTask) /\ WF_vars(HealthTask)
    /\ \A t \in Tasks : WF_vars(Wait(t)) /\ WF_vars(Iterate(t))

FairSpec == Spec /\ Fairness

-----------------------------------------------------------------------------
(* Correctness.                                                            *)

\* The watchdog only ever expires for a task that is stuck: neither the wait for a
\* network that takes its time (task_rtsp.cpp:80-82) nor a task created early or
\* registered late makes it fire.
OnlyStuckExpires == \A t \in Expired : task[t] \in Stuck

\* task_rtsp gives up for want of a queue only if there is no task_camera or it could
\* not make one, however the tasks of the two cores are scheduled (main.cpp:143).
GivesUpOnlyWithoutQueue ==
    task["rtsp"] = "suspended" => task["camera"] \in {"absent", "suspended"}

\* A task that got stuck while the watchdog had it is answered with a reset, in
\* spite of all the other tasks that go on resetting it
\* (EMBEDDED_SYSTEM_DESIGN.md, "Task hangs").
StuckIsReset ==
    \A t \in Tasks : (t \in watched /\ task[t] \in Stuck) ~> power = "resetting"

\* A single fault that stops a task never leaves the device running without it for
\* good: setup() gets as far as the watchdog, the watchdog has the task, whenever
\* the task stopped, and the device is reset (health_monitor.cpp:70-75).
SingleFaultRecovers ==
    \A t \in Tasks : (faults = 1 /\ task[t] \in Stuck) ~> (power = "resetting" \/ faults > 1)

-----------------------------------------------------------------------------
(* What the documents say and the code does not do.                        *)

\* task_camera.cpp:34-36: without a queue the two tasks are suspended for good, and
\* the device goes on without RTSP.
SuspensionIsSafe ==
    [][power = "on" /\ power' = "resetting" => \E t \in Expired : task[t] # "suspended"]_vars

\* EMBEDDED_SYSTEM_DESIGN.md:58: task_health resets the watchdog for all tasks.
HealthFeedsForAll ==
    [][since["health"] > 0 /\ since'["health"] = 0 /\ wdtOn /\ wdtOn' =>
         \A t \in watched : since'[t] = 0]_vars

\* health_monitor.h:27-28: health_init comes before any task's steady-state loop.
WatchedBeforeLoop == (\E t \in Tasks : task[t] = "loop") => main \notin {"create", "health"}

\* EMBEDDED_SYSTEM_DESIGN.md:154: without a camera task_camera does not capture.
NoCaptureWithoutCamera == task["camera"] = "loop" => cameraOk
=============================================================================
