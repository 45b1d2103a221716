------------------------ MODULE NetworkManagerProofs ------------------------
(***************************************************************************)
(* What holds of the WiFi state machine for every retry table, every       *)
(* debounce period and any number of saved configurations.                 *)
(***************************************************************************)
EXTENDS NetworkManager, TLAPS

\* PROVISIONING is declared and tested by the code but never assigned.
NeverProvisioning == state # "PROVISIONING"

\* IotWebConf does nothing before network_init() has run.
BootFirst == pc = "boot" => iot = "Boot"

\* ... and network_init() finds the state the firmware starts with.
BootsDisconnected == pc = "boot" => state = "DISCONNECTED"

\* The station has an address only while IotWebConf connects or is on line.
LinkNeedsStation == link => iot \in {"Connecting", "OnLine"}

\* Whatever may end STA_CONNECTED comes from a link lost since it was entered.
AlarmsAreReal ==
    state = "STA_CONNECTED" /\ (~link \/ "DISCONNECTED" \in bits) => dropped

IInv ==
    /\ TypeOK
    /\ NeverProvisioning
    /\ BootFirst
    /\ BootsDisconnected
    /\ LinkNeedsStation
    /\ AlarmsAreReal
    /\ PortalShown

LEMMA InitIInv == Init => IInv
<1> SUFFICES ASSUME Init PROVE IInv
  OBVIOUS
<1>0. retryCount = 0 /\ retryAge = 0 /\ discAge = 0 /\ downAge = 0 /\ saves = 0
  BY DEF Init
<1>1. /\ retryCount \in 0..RetryCount - 1 /\ retryAge \in Nat
      /\ discAge \in 0..Debounce /\ downAge \in 0..Debounce
      /\ saves \in 0..MaxSaves
  BY <1>0, RetryAssumption, DebounceAssumption, SavesAssumption
<1>2. TypeOK
  BY <1>1 DEF Init, TypeOK, Events, Errors, States, IotStates
<1>. QED
  BY <1>2 DEF Init, IInv, NeverProvisioning, BootFirst, BootsDisconnected,
              LinkNeedsStation, AlarmsAreReal, PortalShown, Portal

\* An age stays within the bound it is saturated at.
LEMMA OlderBounded ==
  ASSUME NEW limit \in Nat, NEW age \in 0..limit
  PROVE  Older(age, limit) \in 0..limit
  BY DEF Older

\* The state after a tick is one of the five, is never PROVISIONING, and is
\* AP_MODE if IotWebConf serves its access point.
LEMMA DispatchedState ==
  ASSUME NEW s \in States \ {"PROVISIONING"}, NEW taken \in SUBSET Events
  PROVE  /\ Synchronised(Transition(s, taken)) \in States \ {"PROVISIONING"}
         /\ iot \in Portal => Synchronised(Transition(s, taken)) = "AP_MODE"
<1>1. Transition(s, taken) \in States \ {"PROVISIONING"}
  BY DEF Transition, States
<1>. QED
  BY <1>1 DEF Synchronised, States, Portal

LEMMA NextIInv == IInv /\ [Next]_vars => IInv'
<1> SUFFICES ASSUME IInv, [Next]_vars PROVE IInv'
  OBVIOUS
<1> USE RetryAssumption, DebounceAssumption, SavesAssumption
<1> USE DEF IInv, NeverProvisioning, BootFirst, BootsDisconnected,
            LinkNeedsStation, AlarmsAreReal, PortalShown, Portal
<1>1. CASE WifiGotIp
  <2>1. /\ link' = TRUE /\ downAge' = 0 /\ bits' = bits \cup {"GOT_IP"}
        /\ UNCHANGED <<taskVars, retryVars, discAge, iotVars, dropped>>
        /\ pc # "boot" /\ iot \in {"Connecting", "OnLine"}
    BY <1>1 DEF WifiGotIp
  <2>2. TypeOK'
    BY <2>1 DEF TypeOK, taskVars, retryVars, timerVars, shownVars, iotVars, Events
  <2>. QED
    BY <2>1, <2>2 DEF taskVars, retryVars, shownVars, iotVars
<1>2. CASE WifiDisconnect
  <2>1. /\ discAge' \in 0..Debounce /\ downAge' \in 0..Debounce
        /\ bits' \subseteq Events
    <3>1. \/ discAge' = 0 /\ bits' = bits \cup {"DISCONNECTED"}
          \/ UNCHANGED <<discAge, bits>>
      BY <1>2 DEF WifiDisconnect
    <3>2. downAge' = 0 \/ downAge' = downAge
      BY <1>2 DEF WifiDisconnect
    <3>3. discAge \in 0..Debounce /\ downAge \in 0..Debounce /\ bits \subseteq Events
      BY DEF TypeOK
    <3>4. bits' \subseteq Events
      BY <3>1, <3>3 DEF Events
    <3>5. discAge' \in 0..Debounce /\ downAge' \in 0..Debounce
      BY <3>1, <3>2, <3>3
    <3>. QED
      BY <3>4, <3>5
  <2>2. /\ link' = FALSE /\ dropped' = TRUE
        /\ UNCHANGED <<taskVars, retryVars, iotVars>>
        /\ pc # "boot"
    BY <1>2 DEF WifiDisconnect
  <2>3. TypeOK'
    BY <2>1, <2>2 DEF TypeOK, taskVars, retryVars, timerVars, shownVars, iotVars
  <2>. QED
    BY <2>2, <2>3 DEF taskVars, retryVars, shownVars, iotVars
<1>3. CASE NetworkInit
  BY <1>3 DEF NetworkInit, TypeOK, retryVars, timerVars, shownVars, iotVars, radioVars, States,
              network_has_credentials
<1>4. CASE RetryCheck
  BY <1>4 DEF RetryCheck, TypeOK, shownVars, radioVars, IotStates
<1>5. CASE ConnectTimeout
  <2>1. /\ retryCount' \in 0..RetryCount - 1
        /\ retryAge' \in Nat
    BY <1>5 DEF ConnectTimeout, on_wifi_connection_failed, TypeOK
  <2>3. lastError' \in Errors
    BY <1>5 DEF ConnectTimeout, on_wifi_connection_failed, Errors
  <2>2. retryPending' \in BOOLEAN
    BY <1>5 DEF ConnectTimeout, on_wifi_connection_failed
  <2>. QED
    BY <1>5, <2>1, <2>2, <2>3 DEF ConnectTimeout, TypeOK, radioVars, IotStates
<1>6. CASE ConfigSaved
  BY <1>6 DEF ConfigSaved, TypeOK, retryVars, timerVars, shownVars, radioVars, Events
<1>7. CASE DoLoop
  BY <1>7 DEF DoLoop, IotStep, TypeOK, retryVars, timerVars, shownVars, radioVars, IotStates
<1>8. CASE Dispatch
  <2> DEFINE next == Transition(state, bits)
  <2>1. /\ state' = Synchronised(next)
        /\ retryCount' = 0 \/ retryCount' = retryCount
        /\ dropped' = IF state # "STA_CONNECTED" THEN ~link ELSE dropped
        /\ pc' = "delay" /\ bits' = {}
        /\ lastError' \in {lastError, "disconnected", "none"}
        /\ connectedOnce' \in BOOLEAN
        /\ UNCHANGED <<timerVars, discAge, iotVars, link, downAge>>
    BY <1>8 DEF Dispatch, Recorded
  <2>2. state \in States \ {"PROVISIONING"} /\ bits \in SUBSET Events
    BY DEF TypeOK
  <2>3. /\ state' \in States \ {"PROVISIONING"}
        /\ iot \in Portal => state' = "AP_MODE"
    BY <2>1, <2>2, DispatchedState
  <2>4. retryCount' \in 0..RetryCount - 1
    <3>1. retryCount' = 0 \/ retryCount' = retryCount
      BY <2>1
    <3>. QED
      BY <3>1 DEF TypeOK
  <2>5. dropped' \in BOOLEAN
    BY <2>1 DEF TypeOK
  <2>6. TypeOK'
    BY <2>1, <2>3, <2>4, <2>5 DEF TypeOK, iotVars, timerVars, Errors
  <2>7. AlarmsAreReal'
    BY <2>1
  <2>. QED
    BY <2>1, <2>3, <2>6, <2>7 DEF iotVars
<1>9. CASE Delay
  <2>1. retryAge' \in Nat
    BY <1>9 DEF Delay, Older, TypeOK
  <2>2. discAge' \in 0..Debounce /\ downAge' \in 0..Debounce
    BY <1>9, OlderBounded DEF Delay, TypeOK
  <2>. QED
    BY <1>9, <2>1, <2>2 DEF Delay, TypeOK, iotVars, shownVars
<1>10. CASE FailedLoop \/ UNCHANGED vars
  BY <1>10 DEF FailedLoop, vars, taskVars, retryVars, timerVars, shownVars, iotVars, radioVars, TypeOK
<1>. QED
  BY <1>1, <1>2, <1>3, <1>4, <1>5, <1>6, <1>7, <1>8, <1>9, <1>10 DEF Next

\* A device shown as connected shows no retries and no error; what a failure in this
\* very tick has put there is gone with the state, since the portal is open then.
CleanConnection ==
    state = "STA_CONNECTED" =>
        \/ retryCount = 0 /\ lastError = "none"
        \/ pc = "dispatch" /\ iot = "ApMode"

LEMMA NextClean == IInv /\ CleanConnection /\ [Next]_vars => CleanConnection'
<1> SUFFICES ASSUME IInv, CleanConnection, [Next]_vars, state' = "STA_CONNECTED"
             PROVE  \/ retryCount' = 0 /\ lastError' = "none"
                    \/ pc' = "dispatch" /\ iot' = "ApMode"
  BY DEF CleanConnection
<1>1. CASE ConnectTimeout
  BY <1>1 DEF ConnectTimeout
<1>2. CASE Dispatch
  <2> DEFINE next == Transition(state, bits)
  <2>1. /\ state' = Synchronised(next)
        /\ retryCount' = IF FreshStart(state, next) THEN 0 ELSE retryCount
        /\ lastError' = IF ~FreshStart(state, next) THEN lastError
                        ELSE IF state = "STA_CONNECTED" THEN "disconnected" ELSE "none"
    BY <1>2 DEF Dispatch, Recorded
  <2>2. next = "STA_CONNECTED" /\ iot # "ApMode"
    BY <2>1 DEF Synchronised
  <2>3. CASE state = "STA_CONNECTED"
    BY <2>1, <2>2, <2>3 DEF CleanConnection, FreshStart
  <2>4. CASE state # "STA_CONNECTED"
    BY <2>1, <2>2, <2>4 DEF FreshStart
  <2>. QED
    BY <2>3, <2>4
<1>3. CASE NetworkInit
  BY <1>3 DEF NetworkInit, IInv, BootsDisconnected
<1>4. CASE WifiGotIp \/ WifiDisconnect \/ DoLoop \/ ConfigSaved
  <2>1. UNCHANGED <<state, retryCount, lastError>>
    BY <1>4 DEF WifiGotIp, WifiDisconnect, DoLoop, ConfigSaved, taskVars, retryVars,
                shownVars
  <2>2. pc = "dispatch" => UNCHANGED <<pc, iot>>
    BY <1>4 DEF WifiGotIp, WifiDisconnect, DoLoop, ConfigSaved, taskVars, iotVars
  <2>. QED
    BY <2>1, <2>2 DEF CleanConnection
<1>5. CASE RetryCheck \/ Delay
  BY <1>5 DEF RetryCheck, Delay, CleanConnection, shownVars
<1>6. CASE FailedLoop \/ UNCHANGED vars
  BY <1>6 DEF FailedLoop, vars, taskVars, retryVars, shownVars, iotVars, CleanConnection
<1>. QED
  BY <1>1, <1>2, <1>3, <1>4, <1>5, <1>6 DEF Next

LEMMA IInvInvariant == Spec => [](IInv /\ CleanConnection)
<1>1. Init => CleanConnection
  BY DEF Init, CleanConnection
<1>. QED
  BY <1>1, InitIInv, NextIInv, NextClean, PTL DEF Spec

-----------------------------------------------------------------------------
\* Every variable keeps its type; in particular g_retry_count stays below
\* WIFI_RETRY_COUNT, so the delay array is never read beyond its end.
THEOREM TypeCorrect == Spec => []TypeOK
<1>1. IInv => TypeOK
  BY DEF IInv
<1>. QED
  BY <1>1, IInvInvariant, PTL

\* Between two ticks an open access point is always shown as AP_MODE.
THEOREM PortalIsShown == Spec => []PortalShown
<1>1. IInv => PortalShown
  BY DEF IInv
<1>. QED
  BY <1>1, IInvInvariant, PTL

\* Between two ticks a device shown as connected shows no retries and no error.
THEOREM ConnectionIsClean == Spec => []ConnectedIsClean
<1>1. CleanConnection => ConnectedIsClean
  BY DEF CleanConnection, ConnectedIsClean
<1>. QED
  BY <1>1, IInvInvariant, PTL

\* STA_CONNECTED is only left after the link was really lost in that state.
THEOREM AlarmsAreNeverFalse == Spec => NoFalseAlarm
<1>1. IInv /\ [Next]_vars => [state = "STA_CONNECTED" /\ state' # state => dropped]_vars
  <2> SUFFICES ASSUME IInv, Next, state = "STA_CONNECTED", state' # state
               PROVE  dropped
    OBVIOUS
  <2> USE DEF IInv, BootFirst, LinkNeedsStation, AlarmsAreReal
  <2>1. CASE Dispatch
    <3>1. CASE "DISCONNECTED" \in bits
      BY <3>1
    <3>2. CASE "DISCONNECTED" \notin bits
      <4>1. Transition(state, bits) = "STA_CONNECTED"
        BY <3>2 DEF Transition
      <4>2. iot \in Portal
        BY <2>1, <4>1 DEF Dispatch, Synchronised, Portal
      <4>. QED
        BY <4>2 DEF Portal
    <3>. QED
      BY <3>1, <3>2
  <2>2. CASE NetworkInit
    BY <2>2 DEF NetworkInit, radioVars, network_has_credentials
  <2>. QED
    BY <2>1, <2>2 DEF Next, WifiGotIp, WifiDisconnect, RetryCheck, ConnectTimeout,
      ConfigSaved, DoLoop, Delay, FailedLoop, taskVars, vars
<1>. QED
  BY <1>1, IInvInvariant, PTL DEF Spec, NoFalseAlarm

\* A tick moves the state by one of the moves WifiView names, and records with it
\* what that move records: it clears the count and the error of the attempt on a new
\* start, and only then.
LEMMA DispatchIsAMove ==
  ASSUME IInv, Dispatch
  PROVE  View!ViewNext \/ UNCHANGED View!view
<1> DEFINE next == Transition(state, bits)
<1>1. /\ state' = Synchronised(next)
      /\ retryCount' = IF FreshStart(state, next) THEN 0 ELSE retryCount
      /\ lastError' = IF ~FreshStart(state, next) THEN lastError
                      ELSE IF state = "STA_CONNECTED" THEN "disconnected" ELSE "none"
      /\ connectedOnce' = (connectedOnce \/ (state # next /\ next = "STA_CONNECTED"))
  BY DEF Dispatch, Recorded
<1>2. /\ state \in States \ {"PROVISIONING"}
      /\ connectedOnce \in BOOLEAN
  BY DEF IInv, TypeOK, NeverProvisioning
<1>3. state' \in {next, "AP_MODE"}
  BY <1>1 DEF Synchronised
<1>4. CASE next = state
  <2>1. retryCount' = retryCount /\ lastError' = lastError
    BY <1>1, <1>4 DEF FreshStart
  <2>2. connectedOnce' = connectedOnce
    BY <1>1, <1>2, <1>4
  <2>3. state' = state \/ state' = "AP_MODE"
    BY <1>3, <1>4
  <2>. QED
    BY <1>2, <2>1, <2>2, <2>3 DEF View!ViewNext, View!OpenPortal, View!view
<1>5. CASE next # state /\ state = "DISCONNECTED"
  <2>1. next = "STA_CONNECTING"
    BY <1>5 DEF Transition
  <2>2. retryCount' = retryCount /\ lastError' = lastError
    BY <1>1, <2>1 DEF FreshStart
  <2>3. connectedOnce' = connectedOnce
    BY <1>1, <1>2, <2>1
  <2>. QED
    BY <1>3, <1>5, <2>1, <2>2, <2>3
    DEF View!ViewNext, View!StartConnecting, View!Becomes
<1>6. CASE next # state /\ state = "STA_CONNECTING"
  <2>1. next = "STA_CONNECTED"
    BY <1>6 DEF Transition
  <2>2. retryCount' = 0 /\ lastError' = "none"
    BY <1>1, <1>6, <2>1 DEF FreshStart
  <2>3. connectedOnce' = TRUE
    BY <1>1, <1>6, <2>1
  <2>. QED
    BY <1>3, <1>6, <2>1, <2>2, <2>3 DEF View!ViewNext, View!Connect, View!Becomes
<1>7. CASE next # state /\ state = "STA_CONNECTED"
  <2>1. next = "DISCONNECTED"
    BY <1>7 DEF Transition
  <2>2. retryCount' = 0 /\ lastError' = "disconnected"
    BY <1>1, <1>7, <2>1 DEF FreshStart
  <2>3. connectedOnce' = connectedOnce
    BY <1>1, <1>2, <2>1
  <2>. QED
    BY <1>3, <1>7, <2>1, <2>2, <2>3 DEF View!ViewNext, View!Lose, View!Becomes
<1>8. CASE next # state /\ state = "AP_MODE"
  <2>1. next = "DISCONNECTED"
    BY <1>8 DEF Transition
  <2>2. retryCount' = 0 /\ lastError' = "none"
    BY <1>1, <1>8, <2>1 DEF FreshStart
  <2>3. connectedOnce' = connectedOnce
    BY <1>1, <1>2, <2>1
  <2>. QED
    BY <1>3, <1>8, <2>1, <2>2, <2>3 DEF View!ViewNext, View!Saved, View!Becomes
<1>. QED
  BY <1>2, <1>4, <1>5, <1>6, <1>7, <1>8 DEF States

\* NetworkManager implements WifiView: whatever the events, the portal and the timers
\* do, those who ask for the status see one of the moves of WifiView, or nothing.
THEOREM ViewImplemented == Spec => ImplementsWifiView
<1>1. Init => View!ViewInit
  BY DEF Init, View!ViewInit
<1>2. IInv /\ CleanConnection /\ [Next]_vars => [View!ViewNext]_(View!view)
  <2> SUFFICES ASSUME IInv, CleanConnection, [Next]_vars
               PROVE  View!ViewNext \/ UNCHANGED View!view
    OBVIOUS
  <2> USE DEF View!view
  <2>1. CASE ConnectTimeout
    <3>0. state = "STA_CONNECTED" => lastError = "none"
      BY <2>1 DEF ConnectTimeout, CleanConnection
    <3>1. View!Fail
      BY <2>1, <3>0 DEF ConnectTimeout, on_wifi_connection_failed, View!Fail
    <3>. QED
      BY <3>1 DEF View!ViewNext
  <2>2. CASE NetworkInit
    <3>1. state' \in {state, "DISCONNECTED", "AP_MODE"} /\ UNCHANGED retryVars
      BY <2>2 DEF NetworkInit
    <3>2. iot = "Boot"
      BY <2>2 DEF NetworkInit, IInv, BootFirst
    <3>3. state' = state \/ state' = "DISCONNECTED"
      BY <2>2, <3>2 DEF NetworkInit, network_has_credentials
    <3>4. pc = "boot" => state = "DISCONNECTED"
      BY DEF IInv, BootsDisconnected
    <3>. QED
      BY <2>2, <3>1, <3>3, <3>4 DEF NetworkInit, retryVars, shownVars
  <2>3. CASE Dispatch
    BY <2>3, DispatchIsAMove
  <2>4. CASE WifiGotIp \/ WifiDisconnect \/ ConfigSaved \/ DoLoop
    BY <2>4 DEF WifiGotIp, WifiDisconnect, ConfigSaved, DoLoop, taskVars, retryVars,
                shownVars
  <2>5. CASE RetryCheck \/ Delay
    BY <2>5 DEF RetryCheck, Delay, shownVars
  <2>6. CASE FailedLoop \/ UNCHANGED vars
    BY <2>6 DEF FailedLoop, vars, taskVars, retryVars, shownVars
  <2>. QED
    BY <2>1, <2>2, <2>3, <2>4, <2>5, <2>6 DEF Next
<1>. QED
  BY <1>1, <1>2, IInvInvariant, PTL DEF Spec, ImplementsWifiView, View!ViewSpec
=============================================================================
