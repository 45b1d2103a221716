---------------------------- MODULE WebPageProofs ----------------------------
(***************************************************************************)
(* Proofs about CameraSettings and WebPage, for any number of registers,   *)
(* of saves and of connection states, about the scales of quality of       *)
(* CameraQuality, and about HttpClients with a library that closes every   *)
(* connection after its response.                                          *)
(***************************************************************************)
EXTENDS WebPage, CameraQuality, HttpClients, FiniteSetTheorems, TLAPS

-----------------------------------------------------------------------------
(* The settings alone.                                                     *)

Untouched == \A k \in 1..Parts : inForce[k] = Unset

\* Of the parts before n: the last save's setting, or what a failed write left.
SavedUpTo(n) ==
    \A k \in 1..Parts : k < n =>
        /\ inForce[k] \in {param, Unknown} /\ (k = 1 => inForce[k] = param)
        /\ k \in Registers /\ inForce[k] # Unknown => noted[k] = param

\* Before the device is up, and without a camera, nothing is applied.
UntouchedInv == phase # "up" \/ ~camera \/ (applying \in {0, 1} /\ ~applied) => Untouched

\* Saves are applied on a device that is up, and up to where they have come the
\* settings in force are the saved ones.
ApplyingInv ==
    /\ applying # 0 \/ applied => phase = "up"
    /\ applying \in Registers => camera
    /\ camera /\ applying # 0 => SavedUpTo(applying)
    /\ camera /\ applied /\ applying = 0 => SavedUpTo(Parts + 1)

SettingsInv == SettingsTypeOK /\ UntouchedInv /\ ApplyingInv

LEMMA SettingsInitInv == SettingsInit => SettingsInv
<1> SUFFICES ASSUME SettingsInit PROVE SettingsInv
    OBVIOUS
<1>0. /\ 1 \in Settings /\ Unset \in Versions /\ 0 \in 0..(Parts + 1)
      /\ [k \in 1..Parts |-> Unset] \in [1..Parts -> Versions \cup {Unknown}]
      /\ [k \in Registers |-> Unset] \in [Registers -> Versions]
    BY SettingsAssumption DEF Versions, Settings, Unset
<1>1. SettingsTypeOK
    BY <1>0 DEF SettingsInit, SettingsTypeOK
<1>2. Untouched /\ 0 \notin Registers
    BY DEF SettingsInit, Untouched, Registers
<1>. QED
    BY <1>1, <1>2 DEF SettingsInit, SettingsInv, UntouchedInv, ApplyingInv

\* One register: what is before it stays, and it is the save's or unknown.
LEMMA SetRegisterInv ==
  ASSUME SettingsTypeOK, ApplyingInv, SetRegister
  PROVE  SettingsTypeOK' /\ SavedUpTo(applying)'
<1>. USE SettingsAssumption
<1>0. /\ applying \in 2..Parts /\ Registers = 2..Parts /\ camera
      /\ UNCHANGED <<bootVars, saveVars, applied>> /\ applying' = applying + 1
    BY DEF SetRegister, ApplyingInv, Registers
<1>1. PICK v \in {param, Unknown} :
         /\ inForce' = [inForce EXCEPT ![applying] = v]
         /\ noted' \in {noted, [noted EXCEPT ![applying] = param]}
         /\ v # Unknown => noted' = [noted EXCEPT ![applying] = param]
    BY DEF SetRegister
<1>2. /\ inForce'[applying] = v
      /\ \A k \in 1..Parts : k # applying => inForce'[k] = inForce[k]
      /\ v # Unknown => noted'[applying] = param
      /\ \A k \in Registers : k # applying => noted'[k] = noted[k]
    BY <1>0, <1>1 DEF SettingsTypeOK
<1>3. SettingsTypeOK'
  <2>1. inForce' \in [1..Parts -> Versions \cup {Unknown}]
      BY <1>0, <1>1 DEF SettingsTypeOK
  <2>2. noted' \in [Registers -> Versions]
      BY <1>0, <1>1 DEF SettingsTypeOK
  <2>3. applying' \in 0..(Parts + 1)
      BY <1>0
  <2>. QED
      BY <1>0, <2>1, <2>2, <2>3 DEF SettingsTypeOK, bootVars, saveVars
<1>4. SavedUpTo(applying)
    BY <1>0 DEF ApplyingInv
<1>5. ASSUME NEW k \in 1..Parts, k < applying + 1
      PROVE  /\ inForce'[k] \in {param, Unknown} /\ (k = 1 => inForce'[k] = param)
             /\ k \in Registers /\ inForce'[k] # Unknown => noted'[k] = param
  <2>1. CASE k = applying
      BY <1>0, <1>2, <2>1
  <2>2. CASE k < applying
      BY <1>0, <1>2, <1>4, <2>2 DEF SavedUpTo
  <2>. QED
      BY <1>0, <1>5, <2>1, <2>2
<1>6. SavedUpTo(applying)'
  <2>1. param' = param
      BY <1>0 DEF saveVars
  <2>. QED
      BY <1>0, <1>5, <2>1 DEF SavedUpTo, Registers, Unknown
<1>. QED
    BY <1>3, <1>6

LEMMA SettingsNextInv == SettingsInv /\ [SettingsNext]_settingVars => SettingsInv'
<1> SUFFICES ASSUME SettingsInv, [SettingsNext]_settingVars PROVE SettingsInv'
    OBVIOUS
<1> USE SettingsAssumption DEF SettingsInv
<1> USE DEF UntouchedInv, ApplyingInv, Untouched, SavedUpTo, Unset
<1>1. CASE CameraInit
  <2>1. SettingsTypeOK'
      BY <1>1 DEF CameraInit, SettingsTypeOK, saveVars, partVars
  <2>2. ~applied /\ applying = 0 /\ Untouched
      BY <1>1 DEF CameraInit, SettingsTypeOK
  <2>. QED
      BY <1>1, <2>1, <2>2 DEF CameraInit, saveVars, partVars, Registers
<1>2. CASE NetworkInit
  <2>1. SettingsTypeOK'
      BY <1>2 DEF NetworkInit, SettingsTypeOK, Versions, partVars
  <2>2. ~applied /\ applying = 0 /\ Untouched
      BY <1>2 DEF NetworkInit, SettingsTypeOK
  <2>. QED
      BY <1>2, <2>1, <2>2 DEF NetworkInit, partVars, Registers
<1>3. CASE Save
  <2>1. param + 1 \in Settings
      BY <1>3 DEF Save, SettingsTypeOK, Versions, Settings
  <2>2. SettingsTypeOK'
      BY <1>3, <2>1 DEF Save, SettingsTypeOK, Versions, bootVars, partVars
  <2>. QED
      BY <1>3, <2>2 DEF Save, bootVars, partVars, Registers
<1>4. CASE ApplyNothing
  <2>1. SettingsTypeOK'
      BY <1>4 DEF ApplyNothing, SettingsTypeOK, bootVars, saveVars, partVars
  <2>. QED
      BY <1>4, <2>1 DEF ApplyNothing, bootVars, saveVars, partVars, Registers
<1>5. CASE SetDuration
  <2>1. /\ inForce'[1] = param /\ param \in Versions
        /\ inForce' \in [1..Parts -> Versions \cup {Unknown}]
      BY <1>5 DEF SetDuration, SettingsTypeOK
  <2>2. SettingsTypeOK'
      BY <1>5, <2>1 DEF SetDuration, SettingsTypeOK, bootVars, saveVars
  <2>. QED
      BY <1>5, <2>1, <2>2 DEF SetDuration, bootVars, saveVars, Registers
<1>6. CASE SetRegister
  <2>1. SettingsTypeOK' /\ SavedUpTo(applying)'
      BY <1>6, SetRegisterInv DEF SetRegister
  <2>. QED
      BY <1>6, <2>1 DEF SetRegister, bootVars, saveVars, Registers, SettingsTypeOK
<1>7. CASE EndOfSave
  <2>1. SettingsTypeOK'
      BY <1>7 DEF EndOfSave, SettingsTypeOK, bootVars, saveVars, partVars
  <2>. QED
      BY <1>7, <2>1 DEF EndOfSave, bootVars, saveVars, partVars, SettingsTypeOK, Registers
<1>8. CASE Reboot
  <2>0. /\ Unset \in Versions /\ 0 \in 0..(Parts + 1)
        /\ [k \in 1..Parts |-> Unset] \in [1..Parts -> Versions \cup {Unknown}]
        /\ [k \in Registers |-> Unset] \in [Registers -> Versions]
      BY DEF Versions
  <2>1. SettingsTypeOK'
      BY <1>8, <2>0 DEF Reboot, SettingsTypeOK
  <2>. QED
      BY <1>8, <2>1 DEF Reboot, Registers
<1>9. CASE UNCHANGED settingVars
    BY <1>9 DEF settingVars, bootVars, saveVars, partVars, SettingsTypeOK
<1>. QED
    BY <1>1, <1>2, <1>3, <1>4, <1>5, <1>6, <1>7, <1>8, <1>9 DEF SettingsNext, Apply

-----------------------------------------------------------------------------
(* The page.                                                               *)

\* A step of WebPage is a step of CameraSettings, or leaves the settings alone.
LEMMA StepsOfSettings == [Next]_vars => [SettingsNext]_settingVars
BY DEF Next, vars, SettingsNext, SettingsStep, ApplySetting, Invalidate, Reconnect, Poll,
       Get, Render, ReadWiFi, ReadSetting, ReadApMode, Store, Validate, Serve, Restart

\* Once a save is through, what a rendering that no invalidation fell into has read so
\* far, what it stored, and a valid page show the settings as the driver has noted them.
DraftShows(n) == \A k \in 1..Parts : k < n => draft.settings[k] = Shown(k)
PageShows == \A k \in 1..Parts : g_cached_template.settings[k] = Shown(k)

PageInv ==
    camera /\ applied /\ applying = 0 /\ ~lost =>
        /\ at = "sensor" => DraftShows(part)
        /\ at \in {"ap", "store", "valid"} => DraftShows(Parts + 1)
        /\ at = "valid" \/ g_cache_valid => PageShows

\* A rendering reads the parts there are.
PartInv == at = "sensor" => part \in 1..Parts

\* Pages are rendered when the device is up, and with the frame size it has then.
SizeInv ==
    /\ at # "idle" \/ g_cache_valid => phase = "up"
    /\ at \in {"ap", "store", "valid"} => draft.frameSize = frameSize
    /\ at = "valid" \/ g_cache_valid => g_cached_template.frameSize = frameSize

IInv == TypeOK /\ SettingsInv /\ PartInv /\ SizeInv /\ PageInv

LEMMA InitIInv == Init => IInv
<1> SUFFICES ASSUME Init PROVE IInv
    OBVIOUS
<1>1. SettingsInv
    BY SettingsInitInv DEF Init
<1>2. Blank \in Page
    BY WebPageAssumption DEF Blank, Page, Versions
<1>3. 1 \in 1..(Parts + 1)
    BY SettingsAssumption
<1>. QED
    BY <1>1, <1>2, <1>3, WebPageAssumption
       DEF Init, IInv, SettingsInv, TypeOK, PartInv, SizeInv, PageInv, SettingsInit

\* Every step of the three tasks keeps the invariant.
LEMMA NextIInv == IInv /\ [Next]_vars => IInv'
<1> SUFFICES ASSUME IInv, [Next]_vars PROVE IInv'
    OBVIOUS
<1> USE SettingsAssumption DEF IInv, PartInv, SizeInv, PageInv, DraftShows, PageShows, Shown
<1>0. SettingsInv'
    BY SettingsNextInv, StepsOfSettings
<1>1. CASE SettingsStep
  <2>1. TypeOK'
      BY <1>0, <1>1 DEF SettingsStep, SettingsInv, TypeOK, wifiVars, cacheVars, renderVars
  <2>2. ~(camera' /\ applied' /\ applying' = 0)
    <3>1. CASE CameraInit \/ NetworkInit
        BY <3>1 DEF CameraInit, NetworkInit, SettingsInv, ApplyingInv
    <3>2. CASE Save
        BY <3>2 DEF Save
    <3>. QED
        BY <1>1, <3>1, <3>2 DEF SettingsStep
  <2>3. SizeInv'
      BY <1>1 DEF SettingsStep, CameraInit, NetworkInit, Save, bootVars, cacheVars, renderVars
  <2>. QED
      BY <1>0, <1>1, <2>1, <2>2, <2>3 DEF SettingsStep, renderVars
<1>2. CASE ApplySetting
  <2>1. TypeOK'
      BY <1>0, <1>2 DEF ApplySetting, SettingsInv, TypeOK, wifiVars, cacheVars, renderVars
  <2>2. applying' # 0 /\ UNCHANGED bootVars
      BY <1>2 DEF ApplySetting, Apply, ApplyNothing, SetDuration, SetRegister, Registers
  <2>. QED
      BY <1>0, <1>2, <2>1, <2>2 DEF ApplySetting, renderVars, cacheVars, bootVars
<1>3. CASE Invalidate
  <2>1. /\ g_cache_valid' = FALSE /\ lost' = (lost \/ Rendering)
        /\ UNCHANGED <<wifiVars, renderVars, g_cached_template, bootVars, partVars>>
      BY <1>3 DEF Invalidate, web_ui_invalidate_cache, EndOfSave
  <2>2. TypeOK'
      BY <1>0, <2>1 DEF SettingsInv, TypeOK, Rendering, wifiVars, renderVars
  <2>. QED
      BY <1>0, <2>1, <2>2 DEF renderVars, Rendering, bootVars, partVars
<1>4. CASE Restart
  <2>1. Blank \in Page
      BY WebPageAssumption DEF Blank, Page, Versions
  <2>2. 1 \in 1..(Parts + 1)
      OBVIOUS
  <2>3. TypeOK'
      BY <1>0, <1>4, <2>1, <2>2, WebPageAssumption DEF Restart, SettingsInv, TypeOK
  <2>. QED
      BY <1>0, <1>4, <2>3 DEF Restart
<1>5. CASE Reconnect
    BY <1>0, <1>5 DEF Reconnect, TypeOK, SettingsInv, settingVars, bootVars, saveVars, partVars,
                      cacheVars, renderVars
<1>6. CASE Poll
  <2>1. /\ g_cache_valid' = FALSE /\ lost' = (lost \/ Rendering)
        /\ g_last_wifi_state' = g_state
        /\ UNCHANGED <<settingVars, g_state, renderVars, g_cached_template>>
      BY <1>6 DEF Poll, web_ui_invalidate_cache
  <2>2. TypeOK'
      BY <1>0, <2>1 DEF SettingsInv, TypeOK, Rendering, renderVars
  <2>. QED
      BY <1>0, <2>1, <2>2 DEF renderVars, settingVars, bootVars, saveVars, partVars
<1>7. CASE Get
  <2>1. TypeOK'
      BY <1>0, <1>7 DEF Get, SettingsInv, TypeOK, wifiVars, cacheVars
  <2>. QED
      BY <1>0, <1>7, <2>1 DEF Get, settingVars, bootVars, saveVars, partVars, cacheVars
<1>8. CASE Render
  <2>1. UNCHANGED <<settingVars, wifiVars, lost>>
      BY <1>8 DEF Render, ReadWiFi, ReadSetting, ReadApMode, Store, Validate, Serve
  <2>2. CASE ReadWiFi
    <3>1. draft' \in Page /\ 1 \in 1..(Parts + 1)
      <4>1. /\ draft' = [draft EXCEPT !.wifi = g_state]
            /\ draft \in Page /\ g_state \in WiFiStates
          BY <2>2 DEF ReadWiFi, TypeOK
      <4>2. ASSUME NEW d \in Page, NEW w \in WiFiStates
            PROVE  [d EXCEPT !.wifi = w] \in Page
          BY DEF Page
      <4>. QED
          BY <4>1, <4>2
    <3>2. TypeOK'
        BY <1>0, <2>2, <3>1 DEF ReadWiFi, SettingsInv, TypeOK, wifiVars, cacheVars
    <3>. QED
        BY <1>0, <2>2, <3>2 DEF ReadWiFi, settingVars, bootVars, saveVars, partVars, cacheVars
  <2>3. CASE ReadSetting
    <3>1. /\ at = "sensor" /\ part' = part + 1
          /\ at' = IF part = Parts THEN "ap" ELSE "sensor"
          /\ draft' = [draft EXCEPT !.settings[part] = Shown(part), !.frameSize = frameSize]
          /\ UNCHANGED cacheVars
        BY <2>3 DEF ReadSetting
    <3>2. /\ part \in 1..(Parts + 1) /\ draft \in Page
          /\ draft.settings \in [1..Parts -> Versions \cup {Unknown}]
          /\ frameSize \in Versions
        BY DEF TypeOK, SettingsTypeOK, Page
    <3>3. /\ draft'.settings = [draft.settings EXCEPT ![part] = Shown(part)]
          /\ draft'.wifi = draft.wifi /\ draft'.ap = draft.ap
          /\ draft'.frameSize = frameSize
        BY <3>1, <3>2 DEF Page
    <3>4. part \in 1..Parts /\ Shown(part) \in Versions \cup {Unknown}
      <4>1. part = 1 \/ part \in Registers
          BY <3>1 DEF Registers
      <4>. QED
          BY <3>1, <4>1 DEF TypeOK, SettingsTypeOK
    <3>5. draft' \in Page
        BY <3>1, <3>2, <3>3, <3>4 DEF Page
    <3>6. part' \in 1..(Parts + 1) /\ (part # Parts => part' \in 1..Parts)
        BY <3>1, <3>4
    <3>7. TypeOK'
        BY <1>0, <2>1, <3>1, <3>5, <3>6 DEF SettingsInv, TypeOK, wifiVars, cacheVars
    <3>8. \A k \in 1..Parts :
            draft'.settings[k] = IF k = part THEN Shown(k) ELSE draft.settings[k]
        BY <3>2, <3>3
    <3>9. PageInv'
      <4>1. SUFFICES ASSUME camera, applied, applying = 0, ~lost PROVE PageInv'
          BY <2>1 DEF settingVars, bootVars, saveVars, partVars
      <4>2. \A k \in 1..Parts : Shown(k)' = Shown(k)
          BY <2>1 DEF settingVars, partVars
      <4>3. \A k \in 1..Parts : k < part => draft.settings[k] = Shown(k)
          BY <3>1, <4>1
      <4>4. \A k \in 1..Parts : k < part + 1 => draft'.settings[k] = Shown(k)'
          BY <3>4, <3>8, <4>2, <4>3
      <4>5. part = Parts => \A k \in 1..Parts : draft'.settings[k] = Shown(k)'
          BY <4>4
      <4>. QED
          BY <2>1, <3>1, <4>2, <4>4, <4>5 DEF settingVars, bootVars, saveVars, partVars, cacheVars
    <3>10. SizeInv'
        BY <2>1, <3>1, <3>3 DEF settingVars, bootVars, cacheVars
    <3>. QED
        BY <1>0, <3>1, <3>6, <3>7, <3>9, <3>10
  <2>4. CASE ReadApMode
    <3>1. TypeOK'
        BY <1>0, <2>4 DEF ReadApMode, SettingsInv, TypeOK, Page, wifiVars, cacheVars
    <3>2. draft'.settings = draft.settings
        BY <2>4 DEF ReadApMode, TypeOK, Page
    <3>. QED
        BY <1>0, <2>4, <3>1, <3>2
           DEF ReadApMode, settingVars, bootVars, saveVars, partVars, cacheVars
  <2>5. CASE Store
    <3>1. TypeOK'
        BY <1>0, <2>5 DEF Store, SettingsInv, TypeOK, wifiVars
    <3>. QED
        BY <1>0, <2>5, <3>1 DEF Store, settingVars, bootVars, saveVars, partVars
  <2>6. CASE Validate
    <3>1. TypeOK'
        BY <1>0, <2>6 DEF Validate, SettingsInv, TypeOK, wifiVars
    <3>. QED
        BY <1>0, <2>6, <3>1 DEF Validate, settingVars, bootVars, saveVars, partVars
  <2>7. CASE Serve
    <3>1. Blank \in Page /\ 1 \in 1..(Parts + 1)
        BY WebPageAssumption DEF Blank, Page, Versions
    <3>2. TypeOK'
        BY <1>0, <2>7, <3>1 DEF Serve, SettingsInv, TypeOK, wifiVars, cacheVars
    <3>. QED
        BY <1>0, <2>7, <3>2 DEF Serve, settingVars, bootVars, saveVars, partVars, cacheVars
  <2>. QED
      BY <1>8, <2>2, <2>3, <2>4, <2>5, <2>6, <2>7 DEF Render
<1>9. CASE UNCHANGED vars
    BY <1>0, <1>9 DEF vars, settingVars, bootVars, saveVars, partVars, wifiVars, cacheVars, renderVars,
                      SettingsInv, TypeOK
<1>. QED
    BY <1>1, <1>2, <1>3, <1>4, <1>5, <1>6, <1>7, <1>8, <1>9 DEF Next

LEMMA IInvInvariant == Spec => []IInv
BY InitIInv, NextIInv, PTL DEF Spec

\* But while a save is being applied, nothing is in force beside the settings the boot
\* left or those saved last, but for registers whose writing failed, for any number of
\* them, with a camera and without, across restarts (network_manager.cpp:261-302).
THEOREM SavesGoTogether == Spec => []WrittenSettingsAgree
<1>1. IInv => WrittenSettingsAgree
  <2>. SUFFICES ASSUME IInv, applying = 0 PROVE WrittenSettingsAgree
      BY DEF WrittenSettingsAgree
  <2>1. CASE camera /\ applied
    <3>1. SavedUpTo(Parts + 1) /\ 1 \in 1..Parts /\ Registers \subseteq 1..Parts
        BY <2>1, SettingsAssumption DEF IInv, SettingsInv, ApplyingInv, Registers
    <3>2. \A k \in 1..Parts : k < Parts + 1
        BY SettingsAssumption
    <3>. QED
        BY <2>1, <3>1, <3>2 DEF SavedUpTo, WrittenSettingsAgree
  <2>2. CASE ~(camera /\ applied)
      BY <2>2 DEF IInv, SettingsInv, UntouchedInv, Untouched, WrittenSettingsAgree
  <2>. QED
      BY <2>1, <2>2
<1>. QED
    BY <1>1, IInvInvariant, PTL

\* A valid page that no invalidation was lost for shows what the driver has noted, and
\* of every setting that took effect the value saved last, for every number of registers
\* and every interleaving of saving and rendering (web_ui_service.cpp:184-199).
THEOREM PageShowsSettings == Spec => []SettingsShown
<1>1. IInv => SettingsShown
  <2>. SUFFICES ASSUME IInv, g_cache_valid, camera, applied, applying = 0, ~lost
                PROVE  SettingsShown
      BY DEF SettingsShown
  <2>1. SavedUpTo(Parts + 1) /\ PageShows /\ g_cached_template.frameSize = frameSize
      BY DEF IInv, SettingsInv, ApplyingInv, PageInv, SizeInv
  <2>2. \A k \in 1..Parts : k < Parts + 1 /\ (k = 1 \/ k \in Registers)
      BY SettingsAssumption DEF Registers
  <2>3. \A k \in 1..Parts : inForce[k] # Unknown => Shown(k) = param
      BY <2>1, <2>2 DEF SavedUpTo, Shown
  <2>. QED
      BY <2>1, <2>3 DEF PageShows, SettingsShown
<1>. QED
    BY <1>1, IInvInvariant, PTL

-----------------------------------------------------------------------------
(* The quality chosen, set and shown.                                      *)

LEMMA ClampedInRange == \A ui \in Byte : Clamped(ui) \in UiMin .. UiMax
BY DEF Clamped, Byte, UiMin, UiMax

\* Clamping keeps the order.
LEMMA ClampedMonotone ==
    \A a, b \in Byte : a <= b => Clamped(a) <= Clamped(b)
BY DEF Clamped, Byte, UiMin, UiMax

\* Whatever the parameter holds, the driver is given a value of its register: the
\* division of camera_map_quality (camera_manager.cpp:157-159) stays within 0..63.
THEOREM MapInRange == \A ui \in Byte : camera_map_quality(ui) \in 0 .. DriverMax
<1> SUFFICES ASSUME NEW ui \in Byte PROVE camera_map_quality(ui) \in 0 .. DriverMax
    OBVIOUS
<1> DEFINE c == Clamped(ui)
<1>1. c \in 1 .. 100
    BY ClampedInRange DEF UiMin, UiMax
<1> HIDE DEF c
<1>2. (63 * (100 - c)) \div 99 \in 0 .. 63
    BY <1>1
<1> QED
    BY <1>2 DEF camera_map_quality, c, UiMin, UiMax, DriverMax

\* A higher choice of the user never gives a worse picture: the map reverses the
\* order, as the comment at camera_manager.cpp:155 says.
THEOREM MapIsAntitone ==
    \A a, b \in Byte : a <= b => camera_map_quality(b) <= camera_map_quality(a)
<1> SUFFICES ASSUME NEW a \in Byte, NEW b \in Byte, a <= b
             PROVE  camera_map_quality(b) <= camera_map_quality(a)
    OBVIOUS
<1> DEFINE c == Clamped(a)  d == Clamped(b)
<1>1. c \in 1 .. 100 /\ d \in 1 .. 100 /\ c <= d
    BY ClampedInRange, ClampedMonotone DEF UiMin, UiMax
<1> HIDE DEF c, d
<1>2. (63 * (100 - d)) \div 99 <= (63 * (100 - c)) \div 99
    BY <1>1
<1> QED
    BY <1>2 DEF camera_map_quality, c, d, UiMin, UiMax, DriverMax

\* The ends of the scales meet (camera_manager.cpp:133-134); a denominator of 100
\* would give 62 for the lowest quality.
THEOREM EndsMeet ==
    camera_map_quality(UiMin) = DriverMax /\ camera_map_quality(UiMax) = 0
BY DEF camera_map_quality, Clamped, UiMin, UiMax, DriverMax

\* The page shows nearly the choice it was given, at most 1 below or 2 above: what
\* render_template (web_ui_service.cpp:672-675) makes of the register that
\* camera_set_quality wrote.
THEOREM ShownIsClose ==
    \A ui \in UiMin .. UiMax :
        LET shown == JpegQuality(camera_map_quality(ui))
        IN  ui - 1 <= shown /\ shown <= ui + 2
<1> SUFFICES ASSUME NEW ui \in 1 .. 100
             PROVE  /\ ui - 1 <= JpegQuality(camera_map_quality(ui))
                    /\ JpegQuality(camera_map_quality(ui)) <= ui + 2
    BY DEF UiMin, UiMax
<1> DEFINE q == (63 * (100 - ui)) \div 99
<1>1. q \in 0 .. 63 /\ 99 * q <= 63 * (100 - ui) /\ 63 * (100 - ui) < 99 * q + 99
    OBVIOUS
<1>2. camera_map_quality(ui) = q
    BY DEF camera_map_quality, Clamped, UiMin, UiMax, DriverMax
<1> HIDE DEF q
<1> DEFINE s == (q * 100) \div 63
<1>3. s \in Int /\ 63 * s <= 100 * q /\ 100 * q < 63 * s + 63
    BY <1>1
<1>4. JpegQuality(camera_map_quality(ui)) = 100 - s
    BY <1>2 DEF JpegQuality, UiMax, DriverMax
<1> HIDE DEF s
<1> QED
    BY <1>1, <1>3, <1>4

\* The page may still show a value outside the user's scale: for the lowest quality
\* it shows 0, where the comment at web_ui_service.cpp:669-670 says 1-100.
THEOREM LowestIsShownAsZero == JpegQuality(camera_map_quality(UiMin)) = 0
BY DEF JpegQuality, camera_map_quality, Clamped, UiMin, UiMax, DriverMax

-----------------------------------------------------------------------------
(* The slots: any set of connections and any cap, connections that close.  *)

\* A connection that holds a slot is busy with the response it was given it for, so
\* that no second request of it takes a second slot.
HooksAreBusy == ~KeepAlive => \A c \in hooked : conn[c].busy

HttpInv == HttpTypeOK /\ SlotsAreConnections /\ HooksAreBusy

\* Registering the callback of a connection that has none, and dropping it, change the
\* number of callbacks by one.
LEMMA HookCounts ==
  ASSUME HttpTypeOK, NEW c \in Conns
  PROVE  /\ IsFiniteSet(hooked) /\ Cardinality(hooked) \in Nat
         /\ c \notin hooked => Cardinality(hooked \cup {c}) = Cardinality(hooked) + 1
         /\ c \in hooked => /\ Cardinality(hooked \ {c}) = Cardinality(hooked) - 1
                            /\ Cardinality(hooked) > 0
<1>1. IsFiniteSet(hooked)
    BY ConnsAssumption, FS_Subset DEF HttpTypeOK
<1>2. Cardinality(hooked) \in Nat
    BY <1>1, FS_CardinalityType
<1>3. c \notin hooked => Cardinality(hooked \cup {c}) = Cardinality(hooked) + 1
    BY <1>1, FS_AddElement
<1>4. c \in hooked => Cardinality(hooked \ {c}) = Cardinality(hooked) - 1
    BY <1>1, FS_RemoveElement
<1>5. c \in hooked => Cardinality(hooked) # 0
    BY <1>1, FS_EmptySet
<1>. QED
    BY <1>1, <1>2, <1>3, <1>4, <1>5

LEMMA HttpInitInv == HttpInit => HttpInv
<1>1. Cardinality({}) = 0
    BY FS_EmptySet
<1>. QED
    BY <1>1, CapAssumption
       DEF HttpInit, HttpInv, HttpTypeOK, Fresh, SlotsAreConnections, HooksAreBusy, Open

\* What a handler that takes a slot does to the three: the connection is idle, and it
\* is registered and answered before the handler returns.
LEMMA TakenSlot ==
  ASSUME ~KeepAlive, HttpInv, NEW c \in Conns, NEW status \in Replies, NEW close \in BOOLEAN,
         Idle(c), http_client_accept, hooked' = hooked \cup {c},
         Respond(c, status, close), UNCHANGED apMode
  PROVE  HttpInv'
<1>1. c \notin hooked
    BY DEF HttpInv, HooksAreBusy, Idle
<1>2. conn' = [conn EXCEPT ![c] = [open |-> TRUE, busy |-> TRUE, reply |-> status]]
    BY DEF Respond, Idle, HttpInv, HttpTypeOK
<1>3. count' = count + 1 /\ count < MaxClients
    BY DEF http_client_accept
<1>4. HttpTypeOK'
    BY <1>2, <1>3, CapAssumption DEF HttpInv, HttpTypeOK
<1>5. Cardinality(hooked') = Cardinality(hooked) + 1
    BY <1>1, HookCounts DEF HttpInv
<1>6. count' = Cardinality(hooked')
    BY <1>3, <1>5 DEF HttpInv, SlotsAreConnections
<1>7. \A k \in hooked' : k \in Conns /\ conn'[k].open /\ conn'[k].busy
    BY <1>2 DEF HttpInv, HttpTypeOK, SlotsAreConnections, HooksAreBusy, Open
<1>. QED
    BY <1>4, <1>6, <1>7 DEF HttpInv, SlotsAreConnections, HooksAreBusy, Open

\* A step that leaves callbacks and slots alone and closes no connection that holds
\* one.
LEMMA SameSlots ==
  ASSUME HttpInv, NEW c \in Conns,
         NEW r \in [open : BOOLEAN, busy : BOOLEAN, reply : Replies \cup {0}],
         c \in hooked => r.open /\ r.busy,
         conn' = [conn EXCEPT ![c] = r], UNCHANGED <<hooked, count, apMode>>
  PROVE  HttpInv'
<1>1. HttpTypeOK'
    BY DEF HttpInv, HttpTypeOK
<1>2. \A k \in hooked : k # c => conn'[k] = conn[k]
    BY DEF HttpInv, HttpTypeOK
<1>3. \A k \in hooked : k \in Conns /\ conn'[k].open /\ (~KeepAlive => conn'[k].busy)
    BY <1>2 DEF HttpInv, HttpTypeOK, SlotsAreConnections, HooksAreBusy, Open
<1>. QED
    BY <1>1, <1>3 DEF HttpInv, SlotsAreConnections, HooksAreBusy, Open

\* The end of a connection gives its slot back, if it has one.
LEMMA EndedConnection ==
  ASSUME HttpInv, NEW c \in Conns, End(c), UNCHANGED apMode
  PROVE  HttpInv'
<1>0. \A k \in Conns : /\ conn[k].open \in BOOLEAN /\ conn[k].busy \in BOOLEAN
                       /\ conn[k].reply \in Replies \cup {0}
    BY DEF HttpInv, HttpTypeOK
<1>1. /\ conn' \in [Conns -> [open : BOOLEAN, busy : BOOLEAN, reply : Replies \cup {0}]]
      /\ \A k \in Conns : k # c => conn'[k] = conn[k]
    BY <1>0 DEF End, HttpInv, HttpTypeOK
<1>2. hooked' = hooked \ {c}
    BY DEF End
<1>3. count' = Cardinality(hooked')
  <2>1. CASE c \in hooked
      BY <2>1, <1>2, HookCounts DEF HttpInv, SlotsAreConnections, End, http_client_release
  <2>2. CASE c \notin hooked
    <3>1. hooked' = hooked
        BY <2>2, <1>2
    <3>. QED
        BY <2>2, <3>1 DEF HttpInv, SlotsAreConnections, End
  <2>. QED
      BY <2>1, <2>2
<1>4. count' \in 0..MaxClients
  <2>1. count \in Nat /\ count <= MaxClients
      BY CapAssumption DEF HttpInv, HttpTypeOK
  <2>2. count' = count \/ (count > 0 /\ count' = count - 1)
      BY DEF End, http_client_release
  <2>. QED
      BY <2>1, <2>2, CapAssumption
<1>5. HttpTypeOK'
    BY <1>1, <1>2, <1>4 DEF HttpInv, HttpTypeOK
<1>6. \A k \in hooked' : k \in Conns /\ conn'[k].open /\ (~KeepAlive => conn'[k].busy)
    BY <1>1, <1>2 DEF HttpInv, HttpTypeOK, SlotsAreConnections, HooksAreBusy, Open
<1>. QED
    BY <1>3, <1>5, <1>6 DEF HttpInv, SlotsAreConnections, HooksAreBusy, Open

\* Every handler and every end of a connection keeps the invariant.
LEMMA HttpNextInv == ~KeepAlive /\ HttpInv /\ [HttpNext]_httpVars => HttpInv'
<1> SUFFICES ASSUME ~KeepAlive, HttpInv, [HttpNext]_httpVars PROVE HttpInv'
    OBVIOUS
<1>0. \A k \in Conns : conn[k] \in [open : BOOLEAN, busy : BOOLEAN, reply : Replies \cup {0}]
    BY DEF HttpInv, HttpTypeOK
<1>1. ASSUME NEW c \in Conns, Connect(c) PROVE HttpInv'
  <2>1. c \notin hooked
      BY <1>1 DEF Connect, HttpInv, SlotsAreConnections, Open
  <2>2. [Fresh EXCEPT !.open = TRUE]
          \in [open : BOOLEAN, busy : BOOLEAN, reply : Replies \cup {0}]
      BY DEF Fresh
  <2>. QED
      BY <1>1, <2>1, <2>2, SameSlots DEF Connect
<1>2. ASSUME NEW c \in Conns, NEW status \in Replies, NEW close \in BOOLEAN,
             Idle(c), Respond(c, status, close), UNCHANGED <<hooked, count, apMode>>
      PROVE  HttpInv'
  <2>1. conn' = [conn EXCEPT ![c] = [open |-> TRUE, busy |-> TRUE, reply |-> status]]
      BY <1>2 DEF Respond, Idle, HttpInv, HttpTypeOK
  <2>. QED
      BY <1>2, <2>1, SameSlots
<1>3. ASSUME NEW c \in Conns, RootRedirect(c) PROVE HttpInv'
    BY <1>2, <1>3 DEF RootRedirect, Replies
<1>4. ASSUME NEW c \in Conns, NEW r \in Routes, Refuse(c, r) PROVE HttpInv'
    BY <1>2, <1>4 DEF Refuse, http_client_full, Replies
<1>5. ASSUME NEW c \in Conns, NEW r \in Routes, Gone(c, r) PROVE HttpInv'
    BY <1>5, EndedConnection DEF Gone
<1>6. ASSUME NEW c \in Conns, NEW r \in Routes, Answer(c, r) PROVE HttpInv'
  <2>1. StatusOf(r) \in Replies
      BY DEF StatusOf, Routes, Replies
  <2>. QED
      BY <1>6, <2>1, TakenSlot DEF Answer
<1>7. ASSUME NEW c \in Conns, NEW r \in Routes, NoFrame(c, r) PROVE HttpInv'
    BY <1>7, TakenSlot DEF NoFrame, Replies
<1>8. ASSUME NEW c \in Conns, Disconnect(c) PROVE HttpInv'
    BY <1>8, EndedConnection DEF Disconnect
<1>9. CASE ModeChange \/ UNCHANGED httpVars
    BY <1>9 DEF ModeChange, httpVars, HttpInv, HttpTypeOK, SlotsAreConnections, HooksAreBusy, Open
<1>. QED
    BY <1>1, <1>3, <1>4, <1>5, <1>6, <1>7, <1>8, <1>9 DEF HttpNext

LEMMA HttpInvInvariant == ~KeepAlive => (HttpSpec => []HttpInv)
<1> SUFFICES ASSUME ~KeepAlive PROVE HttpSpec => []HttpInv
    OBVIOUS
<1>1. HttpInv /\ [HttpNext]_httpVars => HttpInv'
    BY HttpNextInv
<1>. QED
    BY <1>1, HttpInitInv, PTL DEF HttpSpec

\* If connections carry one request each, every slot taken belongs to an open
\* connection that gives it back, whatever clients do and whichever path a handler
\* takes (web_ui_service.cpp:318-320).
THEOREM SlotsStayConnections == ~KeepAlive => (HttpSpec => []SlotsAreConnections)
<1> SUFFICES ASSUME ~KeepAlive PROVE HttpSpec => []SlotsAreConnections
    OBVIOUS
<1>1. HttpInv => SlotsAreConnections
    BY DEF HttpInv
<1>. QED
    BY <1>1, HttpInvInvariant, PTL

\* When the cap is reached, that many other connections are open.
LEMMA FullMeansOthers ==
  ASSUME HttpInv, NEW c \in Conns, c \notin hooked, count >= MaxClients
  PROVE  Cardinality(Open \ {c}) >= MaxClients
<1>1. IsFiniteSet(Open \ {c})
    BY ConnsAssumption, FS_Subset DEF Open
<1>2. hooked \subseteq Open \ {c}
    BY DEF HttpInv, SlotsAreConnections
<1>3. Cardinality(hooked) <= Cardinality(Open \ {c})
    BY <1>1, <1>2, FS_Subset
<1>4. Cardinality(Open \ {c}) \in Nat /\ Cardinality(hooked) \in Nat
    BY <1>1, FS_CardinalityType, ConnsAssumption, FS_Subset DEF HttpInv, HttpTypeOK
<1>. QED
    BY <1>3, <1>4, CapAssumption DEF HttpInv, SlotsAreConnections

\* A client is turned away for want of a slot only while MAX_HTTP_CLIENTS others are
\* connected: no slot is ever lost to a connection that has gone.
THEOREM RefusalMeansFull == ~KeepAlive => (HttpSpec => RefusedOnlyWhenFull)
<1> SUFFICES ASSUME ~KeepAlive PROVE HttpSpec => RefusedOnlyWhenFull
    OBVIOUS
<1> DEFINE Refused(c) ==
      conn'[c] # conn[c] /\ conn'[c].reply = 503 /\ conn'[c].open /\ c \notin hooked'
<1>1. ASSUME HttpInv, [HttpNext]_httpVars, NEW c \in Conns, Refused(c)
      PROVE  Cardinality(Open \ {c}) >= MaxClients
  <2>1. PICK k \in Conns :
          \/ Connect(k) \/ RootRedirect(k) \/ Disconnect(k)
          \/ \E r \in Routes : Refuse(k, r) \/ Gone(k, r) \/ Answer(k, r) \/ NoFrame(k, r)
      BY <1>1 DEF HttpNext, ModeChange, httpVars
  <2>2. conn \in [Conns -> [open : BOOLEAN, busy : BOOLEAN, reply : Replies \cup {0}]]
      BY <1>1 DEF HttpInv, HttpTypeOK
  <2>3. c = k
    <3>1. Connect(k) => \A j \in Conns : j # k => conn'[j] = conn[j]
        BY <2>2 DEF Connect
    <3>2. RootRedirect(k) => \A j \in Conns : j # k => conn'[j] = conn[j]
        BY <2>2 DEF RootRedirect, Respond
    <3>3. End(k) => \A j \in Conns : j # k => conn'[j] = conn[j]
        BY <2>2 DEF End
    <3>4. ASSUME NEW r \in Routes, Refuse(k, r) \/ Answer(k, r) \/ NoFrame(k, r)
          PROVE  \A j \in Conns : j # k => conn'[j] = conn[j]
        BY <2>2, <3>4 DEF Refuse, Answer, NoFrame, Respond
    <3>. QED
        BY <1>1, <2>1, <3>1, <3>2, <3>3, <3>4 DEF Disconnect, Gone
  <2>4. ~Connect(c) /\ ~RootRedirect(c) /\ ~End(c)
    <3>1. Connect(c) => conn'[c].reply = 0
        BY <2>2 DEF Connect, Fresh
    <3>2. RootRedirect(c) => conn'[c].reply = 302
        BY <2>2 DEF RootRedirect, Respond
    <3>3. End(c) => ~conn'[c].open
        BY <2>2 DEF End
    <3>. QED
        BY <1>1, <3>1, <3>2, <3>3
  <2>5. ASSUME NEW r \in Routes PROVE ~Answer(c, r) /\ ~NoFrame(c, r)
    <3>1. Answer(c, r) \/ NoFrame(c, r) => hooked' = hooked \cup {c}
        BY DEF Answer, NoFrame
    <3>. QED
        BY <1>1, <3>1
  <2>6. count >= MaxClients /\ hooked' = hooked
      BY <2>1, <2>3, <2>4, <2>5 DEF Refuse, http_client_full, Gone, Disconnect
  <2>. QED
      BY <1>1, <2>6, FullMeansOthers
<1>2. HttpInv /\ [HttpNext]_httpVars =>
        [\A c \in Conns : Refused(c) => Cardinality(Open \ {c}) >= MaxClients]_httpVars
    BY <1>1
<1>. QED
    BY <1>2, HttpInvInvariant, PTL DEF HttpSpec, RefusedOnlyWhenFull
=============================================================================
