--------------------------- MODULE NetworkManager ---------------------------
(***************************************************************************)
(* The WiFi state machine of network_manager.cpp, driven by task_network.  *)
(*                                                                         *)
(* Three parties change its state: task_network (network_tick, once a      *)
(* second), the WiFi driver's task (wifi_event_handler, which only sets    *)
(* event bits) and IotWebConf, which runs inside doLoop() on task_network  *)
(* and calls the connection-failure and configuration-saved callbacks.     *)
(* IotWebConf and the radio are external: they do what the comments and    *)
(* calls of network_manager.cpp rely on, at times of their own choosing.   *)
(*                                                                         *)
(* A clock that is only compared with a start time is kept as an age,      *)
(* saturated at the largest value it is compared with.                     *)
(***************************************************************************)
EXTENDS Integers, FiniteSets

CONSTANTS
    RetryCount,     \* WIFI_RETRY_COUNT
    Backoff,        \* the array backoff_delays, in seconds (1 s, 2 s, 4 s)
    Debounce,       \* WIFI_DISCONNECT_DEBOUNCE_MS, in seconds
    MaxSaves        \* bound on the configurations the user saves

ASSUME RetryAssumption ==
    /\ RetryCount \in Nat \ {0}
    /\ Backoff \in [1..RetryCount -> Nat \ {0}]
ASSUME DebounceAssumption == Debounce \in Nat \ {0}
ASSUME SavesAssumption == MaxSaves \in Nat

VARIABLES
    pc,             \* where task_network is
    state,          \* g_state
    retryCount,     \* g_retry_count
    retryPending,   \* g_retry_pending
    retryAge,       \* millis() - g_retry_start_ms
    lastError,      \* g_last_error: which of its texts, "none" if empty
    connectedOnce,  \* g_connected_since_ms # 0
    bits,           \* g_wifi_event_group
    discAge,        \* millis() - g_last_disconnect_ms
    iot,            \* IotWebConf's NetworkState
    configured,     \* NVS holds station credentials
    link,           \* the station is associated and has an address
    downAge,        \* how long the link has been down (history)
    dropped,        \* the link was lost since STA_CONNECTED was entered (history)
    saves           \* configurations saved so far

taskVars  == <<pc, state>>
timerVars == <<retryPending, retryAge>>
shownVars == <<retryCount, lastError, connectedOnce>>
retryVars == <<timerVars, shownVars>>
iotVars   == <<iot, configured, saves>>
radioVars == <<link, downAge, dropped>>
vars == <<taskVars, retryVars, bits, discAge, iotVars, radioVars>>

Events    == {"GOT_IP", "DISCONNECTED", "CONFIG_SAVED"}
Errors    == {"none", "retrying", "exhausted", "disconnected"}
States    == {"DISCONNECTED", "STA_CONNECTING", "STA_CONNECTED", "AP_MODE",
              "PROVISIONING"}
IotStates == {"Boot", "NotConfigured", "ApMode", "Connecting", "OnLine"}
Portal    == {"NotConfigured", "ApMode"}    \* IotWebConf serves its own access point

MaxBackoff == CHOOSE d \in {Backoff[i] : i \in 1..RetryCount} :
                \A i \in 1..RetryCount : Backoff[i] <= d
Older(age, limit) == IF age < limit THEN age + 1 ELSE age

\* A reading of backoff_delays: an index outside the array yields any word of
\* memory, so the comparison with it may come out either way.
BackoffElapsed(count) ==
    IF count \in 1..RetryCount THEN {retryAge >= Backoff[count]} ELSE BOOLEAN

TypeOK ==
    /\ pc \in {"boot", "failed", "retry", "loop", "dispatch", "delay"}
    /\ state \in States
    /\ retryCount \in 0..RetryCount - 1
    /\ retryPending \in BOOLEAN
    /\ retryAge \in Nat
    /\ lastError \in Errors /\ connectedOnce \in BOOLEAN
    /\ bits \subseteq Events
    /\ discAge \in 0..Debounce
    /\ iot \in IotStates
    /\ configured \in BOOLEAN
    /\ link \in BOOLEAN
    /\ downAge \in 0..Debounce
    /\ dropped \in BOOLEAN
    /\ saves \in 0..MaxSaves

Init ==
    /\ pc = "boot"
    /\ state = "DISCONNECTED"
    /\ retryCount = 0 /\ retryPending = FALSE /\ retryAge = 0
    /\ lastError = "none" /\ connectedOnce = FALSE
    /\ bits = {}
    /\ discAge = 0
    /\ iot = "Boot"
    /\ configured \in BOOLEAN
    /\ link = FALSE
    /\ downAge = 0
    /\ dropped = FALSE
    /\ saves = 0

network_has_credentials == iot # "NotConfigured"

-----------------------------------------------------------------------------
(* The radio: wifi_event_handler runs in the WiFi task at any moment after *)
(* it is registered.                                                       *)

\* DHCP completes, on a connection IotWebConf asked for or that the driver's
\* auto-reconnect restored.
WifiGotIp ==
    /\ pc \notin {"boot", "failed"}
    /\ iot \in {"Connecting", "OnLine"}
    /\ ~link
    /\ link' = TRUE
    /\ downAge' = 0
    /\ bits' = bits \cup {"GOT_IP"}
    /\ UNCHANGED <<taskVars, retryVars, discAge, iotVars, dropped>>

\* The association is lost, an attempt to associate is refused, or IotWebConf
\* stops the station to open its access point.
WifiDisconnect ==
    /\ pc \notin {"boot", "failed"}
    /\ iot \in {"Connecting", "OnLine", "ApMode"}
    /\ link' = FALSE
    /\ downAge' = IF link THEN 0 ELSE downAge
    /\ dropped' = TRUE
    /\ IF discAge >= Debounce
         THEN discAge' = 0 /\ bits' = bits \cup {"DISCONNECTED"}
         ELSE UNCHANGED <<discAge, bits>>
    /\ UNCHANGED <<taskVars, retryVars, iotVars>>

-----------------------------------------------------------------------------
(* task_network                                                            *)

\* network_init().  The credential check runs before init() has read NVS, so
\* IotWebConf is still in Boot; without an event group the task never ticks.
NetworkInit ==
    /\ pc = "boot"
    /\ \/ /\ pc' = "retry"
          /\ state' = IF network_has_credentials THEN "DISCONNECTED" ELSE "AP_MODE"
       \/ pc' = "failed" /\ UNCHANGED state
    /\ UNCHANGED <<retryVars, bits, discAge, iotVars, radioVars>>

\* Step 1 of network_tick: leave the temporary AP mode when the backoff is over.
RetryCheck ==
    /\ pc = "retry"
    /\ \/ /\ retryPending
          /\ TRUE \in BackoffElapsed(retryCount)
          /\ retryPending' = FALSE
          /\ iot' = IF iot = "ApMode" THEN "Connecting" ELSE iot
       \/ /\ ~retryPending \/ FALSE \in BackoffElapsed(retryCount)
          /\ UNCHANGED <<retryPending, iot>>
    /\ pc' = "loop"
    /\ UNCHANGED <<state, shownVars, retryAge, bits, discAge, configured,
                   saves, radioVars>>

\* Mutant: one more retry than the array of delays has entries.
FailedOffByOne ==
    IF retryCount + 1 <= RetryCount
      THEN /\ retryCount' = retryCount + 1
           /\ retryPending' = TRUE
           /\ retryAge' = 0
           /\ lastError' = "retrying"
      ELSE /\ retryCount' = 0
           /\ retryPending' = FALSE
           /\ lastError' = "exhausted"
           /\ UNCHANGED retryAge

\* Mutant: giving up forgets the pending retry of a failure before it.
FailedKeepsCounting ==
    /\ retryCount' = IF retryCount + 1 < RetryCount THEN retryCount + 1 ELSE retryCount
    /\ retryPending' = TRUE
    /\ retryAge' = 0
    /\ lastError' = "retrying"

\* on_wifi_connection_failed(): arm the next backoff, or give up.  The answer is
\* always nullptr, so IotWebConf enters AP mode.
on_wifi_connection_failed ==
    IF retryCount + 1 < RetryCount
      THEN /\ retryCount' = retryCount + 1
           /\ retryPending' = TRUE
           /\ retryAge' = 0
           /\ lastError' = "retrying"
      ELSE /\ retryCount' = 0
           /\ retryPending' = FALSE
           /\ lastError' = "exhausted"
           /\ UNCHANGED retryAge

\* doLoop() and IotWebConf's connection timeout: the failure handler runs.
ConnectTimeout ==
    /\ pc = "loop" /\ pc' = "dispatch"
    /\ iot = "Connecting" /\ ~link
    /\ iot' = "ApMode"
    /\ on_wifi_connection_failed
    /\ UNCHANGED <<state, connectedOnce, bits, discAge, configured, saves,
                   radioVars>>

\* doLoop() when the user presses Save on the portal page: on_config_saved().
ConfigSaved ==
    /\ pc = "loop" /\ pc' = "dispatch"
    /\ iot \in Portal \cup {"OnLine"}
    /\ saves < MaxSaves /\ saves' = saves + 1
    /\ configured' = TRUE
    /\ bits' = bits \cup {"CONFIG_SAVED"}
    /\ UNCHANGED <<state, retryVars, discAge, iot, radioVars>>

\* doLoop() and nothing for the callbacks: IotWebConf follows its own states.
IotStep ==
    \/ iot = "Boot" /\ iot' = IF configured THEN "Connecting" ELSE "NotConfigured"
    \/ iot \in Portal /\ configured /\ iot' = "Connecting"
    \/ iot = "Connecting" /\ link /\ iot' = "OnLine"
    \/ iot = "OnLine" /\ ~link /\ iot' = "Connecting"
    \/ iot \in Portal /\ UNCHANGED iot
    \/ iot = "Connecting" /\ ~link /\ UNCHANGED iot
    \/ iot = "OnLine" /\ link /\ UNCHANGED iot

DoLoop ==
    /\ pc = "loop" /\ pc' = "dispatch"
    /\ IotStep
    /\ UNCHANGED <<state, retryVars, bits, discAge, configured, saves, radioVars>>

-----------------------------------------------------------------------------
\* The switch of network_tick: the next state, given the event bits taken.
Transition(s, taken) ==
    CASE s = "DISCONNECTED" ->
           IF network_has_credentials THEN "STA_CONNECTING" ELSE s
      [] s = "STA_CONNECTING" ->
           IF "GOT_IP" \in taken THEN "STA_CONNECTED" ELSE s
      [] s = "STA_CONNECTED" ->
           IF "DISCONNECTED" \in taken THEN "DISCONNECTED" ELSE s
      [] s \in {"AP_MODE", "PROVISIONING"} ->
           IF "CONFIG_SAVED" \in taken THEN "DISCONNECTED" ELSE s

\* Mutant: only a device without credentials is shown as an access point.
SynchronisedBootOnly(s) == IF iot = "NotConfigured" THEN "AP_MODE" ELSE s

\* Step 5 of network_tick: IotWebConf's access point shows as AP_MODE.
Synchronised(s) ==
    IF \/ iot = "ApMode" /\ s \notin {"AP_MODE", "PROVISIONING"}
       \/ iot = "NotConfigured" /\ s # "AP_MODE"
      THEN "AP_MODE" ELSE s

\* Mutant: the end of a connection does not start the retries afresh.
FreshStartWhenConnected(s, t) == t # s /\ t = "STA_CONNECTED"

\* The transitions that a new start of the retry sequence goes with.
FreshStart(s, t) == t # s /\ t \in {"STA_CONNECTED", "DISCONNECTED"}

\* What the branches of the switch leave behind beside the state: the retry count,
\* the text of the last error, and the time stamp of the connection.
Recorded(s, t) ==
    /\ retryCount' = IF FreshStart(s, t) THEN 0 ELSE retryCount
    /\ lastError' = IF ~FreshStart(s, t) THEN lastError
                    ELSE IF s = "STA_CONNECTED" THEN "disconnected" ELSE "none"
    /\ connectedOnce' = (connectedOnce \/ (s # t /\ t = "STA_CONNECTED"))

\* Mutant: the bits a state does not look at stay set for the next state.
DispatchKeepsBits ==
    /\ pc = "dispatch"
    /\ LET next == Transition(state, bits) IN
         /\ bits' = IF next # state THEN bits \ {"GOT_IP", "CONFIG_SAVED"} ELSE bits
         /\ state' = Synchronised(next)
         /\ Recorded(state, next)
         /\ dropped' = IF state # "STA_CONNECTED" THEN ~link ELSE dropped
    /\ pc' = "delay"
    /\ UNCHANGED <<timerVars, discAge, iotVars, link, downAge>>

\* Steps 3 to 5 of network_tick: take the bits, switch, synchronise.
Dispatch ==
    /\ pc = "dispatch"
    /\ bits' = {}
    /\ LET next == Transition(state, bits) IN
         /\ state' = Synchronised(next)
         /\ Recorded(state, next)
         /\ dropped' = IF state # "STA_CONNECTED" THEN ~link ELSE dropped
    /\ pc' = "delay"
    /\ UNCHANGED <<timerVars, discAge, iotVars, link, downAge>>

\* vTaskDelay(TASK_NETWORK_LOOP_MS): a second passes.
Delay ==
    /\ pc = "delay" /\ pc' = "retry"
    /\ retryAge' = IF retryPending THEN Older(retryAge, MaxBackoff) ELSE retryAge
    /\ discAge' = Older(discAge, Debounce)
    /\ downAge' = IF link THEN 0 ELSE Older(downAge, Debounce)
    /\ UNCHANGED <<state, shownVars, retryPending, bits, iotVars, link, dropped>>

\* "We can't recover": the task without an event group sleeps for ever.
FailedLoop == pc = "failed" /\ UNCHANGED vars

Next ==
    \/ WifiGotIp \/ WifiDisconnect
    \/ NetworkInit \/ RetryCheck \/ ConnectTimeout \/ ConfigSaved \/ DoLoop
    \/ Dispatch \/ Delay \/ FailedLoop

Spec == Init /\ [][Next]_vars

\* task_network is scheduled; IotWebConf's connection timeout is finite.
Fairness ==
    /\ WF_vars(NetworkInit) /\ WF_vars(RetryCheck)
    /\ WF_vars(DoLoop \/ ConfigSaved \/ ConnectTimeout)
    /\ WF_vars(Dispatch) /\ WF_vars(Delay)
    /\ SF_vars(ConnectTimeout)

FairSpec == Spec /\ Fairness
-----------------------------------------------------------------------------
(* Correctness.                                                            *)

\* After every network_tick the state shown to the web UI and the health
\* monitor is AP_MODE whenever IotWebConf serves its own access point
\* (network_manager.cpp:653-657).
PortalShown == pc \in {"delay", "retry"} /\ iot \in Portal => state = "AP_MODE"

\* Between two ticks a device shown as STA_CONNECTED shows no retries and no error:
\* what the attempts before left behind went with the connection, and an attempt that
\* fails while the state lags behind closes the state in the same tick.
ConnectedIsClean ==
    pc \notin {"loop", "dispatch"} /\ state = "STA_CONNECTED" =>
        retryCount = 0 /\ lastError = "none"

\* A connected device leaves STA_CONNECTED only if the link was lost after it
\* entered that state: an event of an earlier attempt that is still in the
\* event group never tears down the new connection.
NoFalseAlarm == [][state = "STA_CONNECTED" /\ state' # state => dropped]_vars

\* A connection that stays down does not go on being shown as STA_CONNECTED,
\* even if the debounce swallowed its disconnect event.
LostLinkNoticed ==
    (state = "STA_CONNECTED" /\ ~link) ~> (link \/ state # "STA_CONNECTED")

\* network_manager.cpp:471-472: the array is indexed by g_retry_count - 1, for
\* retries 1, 2 and 3.  A configuration saved during a backoff breaks this.
RetryIndexInRange == retryPending => retryCount \in 1..RetryCount

\* While no connection can be made, the device keeps coming back to an access
\* point with no retry pending, where the user can mend the settings
\* (on_wifi_connection_failed, "AP mode, for real this time"), as long as no
\* delay is read from outside the array.
FallsBackToPortal ==
    <>[]~link /\ []RetryIndexInRange =>
        []<>(pc # "failed" => iot \in Portal /\ ~retryPending)

\* What network_get_status can see of all this keeps to the rules of WifiView.
View == INSTANCE WifiView
    WITH MaxRetries <- RetryCount, retries <- retryCount, error <- lastError

ImplementsWifiView == View!ViewSpec

-----------------------------------------------------------------------------
(* What the comments say and the code does not do.                         *)

\* network_manager.cpp:539-540 and 653-657: a device that is on line for good is
\* in the end shown as connected.
ConnectedShown == <>[](iot = "OnLine" /\ link) => <>[](state = "STA_CONNECTED")

\* network_manager.cpp:153-155: only a disconnect that has lasted for the full
\* debounce period triggers the reconnect state machine.
OnlyLongDisconnects ==
    [][(state = "STA_CONNECTED" /\ state' = "DISCONNECTED") =>
        (~link /\ downAge >= Debounce)]_vars

\* network_manager.cpp:195-198: the access point is the fallback after retries
\* with each of the three delays.
AllBackoffsUsed ==
    [][(pc = "loop" /\ iot = "Connecting" /\ iot' = "ApMode" /\ ~retryPending') =>
        retryCount = RetryCount]_vars

\* network_manager.cpp:428-433: a device without credentials starts in AP_MODE.
UnprovisionedStartsInApMode ==
    [][(pc = "boot" /\ pc' = "retry" /\ ~configured) => state' = "AP_MODE"]_vars
=============================================================================
