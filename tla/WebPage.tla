------------------------------- MODULE WebPage -------------------------------
(***************************************************************************)
(* The page at GET / and the cache it is served from                       *)
(* (web_ui_service.cpp).  Three tasks meet here, with no lock between      *)
(* them: AsyncTCP renders and serves, task_network applies the settings a  *)
(* user saves and changes the connection state, task_web_ui polls that     *)
(* state.  Two of them invalidate the cache.                               *)
(*                                                                         *)
(* What task_network does with the settings is CameraSettings'; the page   *)
(* reads the frame duration, and of the registers what the driver's status *)
(* has noted, one after the other.                                         *)
(***************************************************************************)
EXTENDS CameraSettings

CONSTANT WiFiStates   \* the states the page tells apart

ASSUME WebPageAssumption == {"AP_MODE", "DISCONNECTED"} \subseteq WiFiStates

VARIABLES
    g_state,           \* the connection state
    g_last_wifi_state, \* what task_web_ui last saw of it
    g_cache_valid, g_cached_template,
    draft,             \* the page being rendered
    at,                \* AsyncTCP: "idle", "wifi", "sensor", "ap", "store", "valid", "serve"
    part,              \* the part of the settings render_template reads next
    lost               \* an invalidation fell into the rendering (not in the code)

wifiVars == <<g_state, g_last_wifi_state>>
cacheVars == <<g_cache_valid, g_cached_template>>
renderVars == <<draft, at, part>>
vars == <<settingVars, wifiVars, cacheVars, renderVars, lost>>

Page == [wifi : WiFiStates, ap : BOOLEAN,
         settings : [1..Parts -> Versions \cup {Unknown}], frameSize : Versions]
Blank == [wifi |-> "DISCONNECTED", ap |-> FALSE,
          settings |-> [k \in 1..Parts |-> Unset], frameSize |-> Unset]

TypeOK ==
    /\ SettingsTypeOK
    /\ g_state \in WiFiStates /\ g_last_wifi_state \in WiFiStates
    /\ g_cache_valid \in BOOLEAN /\ g_cached_template \in Page
    /\ draft \in Page
    /\ at \in {"idle", "wifi", "sensor", "ap", "store", "valid", "serve"}
    /\ part \in 1..(Parts + 1)
    /\ lost \in BOOLEAN

Init ==
    /\ SettingsInit
    /\ g_state = "DISCONNECTED" /\ g_last_wifi_state = "DISCONNECTED"
    /\ g_cache_valid = FALSE /\ g_cached_template = Blank
    /\ draft = Blank /\ at = "idle" /\ part = 1
    /\ lost = FALSE

Rendering == at \in {"wifi", "sensor", "ap", "store", "valid"}

web_ui_invalidate_cache ==
    /\ g_cache_valid' = FALSE
    /\ lost' = (lost \/ Rendering)
    /\ UNCHANGED g_cached_template

-----------------------------------------------------------------------------
(* task_network.                                                           *)

\* What concerns the settings and not the page.
SettingsStep ==
    /\ CameraInit \/ NetworkInit \/ Save
    /\ UNCHANGED <<wifiVars, cacheVars, renderVars, lost>>

ApplySetting == Apply /\ UNCHANGED <<wifiVars, cacheVars, renderVars, lost>>

\* Mutant: the callback applies the settings and leaves the page alone.
EndWithoutInvalidating ==
    /\ EndOfSave
    /\ UNCHANGED <<wifiVars, cacheVars, renderVars, lost>>

\* on_config_saved, after the settings.
Invalidate ==
    /\ EndOfSave
    /\ web_ui_invalidate_cache
    /\ UNCHANGED <<wifiVars, renderVars>>

\* The device restarts.
Restart ==
    /\ Reboot
    /\ g_state' = "DISCONNECTED" /\ g_last_wifi_state' = "DISCONNECTED"
    /\ g_cache_valid' = FALSE /\ g_cached_template' = Blank
    /\ draft' = Blank /\ at' = "idle" /\ part' = 1
    /\ lost' = FALSE

\* network_tick moves to another state.
Reconnect ==
    /\ phase = "up" /\ applying = 0
    /\ g_state' \in WiFiStates \ {g_state}
    /\ UNCHANGED <<settingVars, g_last_wifi_state, cacheVars, renderVars, lost>>

-----------------------------------------------------------------------------
(* task_web_ui.                                                            *)

\* Mutant: only a connection that comes up refreshes the page.
PollConnections ==
    /\ g_state # g_last_wifi_state
    /\ g_last_wifi_state' = g_state
    /\ IF g_state = "STA_CONNECTED" THEN web_ui_invalidate_cache
                                    ELSE UNCHANGED <<cacheVars, lost>>
    /\ UNCHANGED <<settingVars, g_state, renderVars>>

\* Every two seconds: has the connection state changed since the last time?
Poll ==
    /\ g_state # g_last_wifi_state
    /\ g_last_wifi_state' = g_state
    /\ web_ui_invalidate_cache
    /\ UNCHANGED <<settingVars, g_state, renderVars>>

-----------------------------------------------------------------------------
(* AsyncTCP: handle_root.                                                  *)

\* In AP mode the client is sent to the portal; a valid page is served as it is.
Get ==
    /\ phase = "up" /\ at = "idle" /\ g_state # "AP_MODE"
    /\ at' = IF g_cache_valid THEN "serve" ELSE "wifi"
    /\ lost' = (g_cache_valid /\ lost)
    /\ UNCHANGED <<settingVars, wifiVars, cacheVars, draft, part>>

\* g_frame_duration_ms, or what sensor->status has noted.
Shown(k) == IF k = 1 THEN inForce[1] ELSE noted[k]

\* render_template reads the connection state, the frame duration, the sensor's
\* status, and, for one of its variables, the connection state again.
ReadWiFi ==
    /\ at = "wifi"
    /\ draft' = [draft EXCEPT !.wifi = g_state]
    /\ at' = "sensor" /\ part' = 1
    /\ UNCHANGED <<settingVars, wifiVars, cacheVars, lost>>

ReadSetting ==
    /\ at = "sensor"
    /\ draft' = [draft EXCEPT !.settings[part] = Shown(part), !.frameSize = frameSize]
    /\ part' = part + 1
    /\ at' = IF part = Parts THEN "ap" ELSE "sensor"
    /\ UNCHANGED <<settingVars, wifiVars, cacheVars, lost>>

ReadApMode ==
    /\ at = "ap"
    /\ draft' = [draft EXCEPT !.ap = g_state = "AP_MODE"]
    /\ at' = "store"
    /\ UNCHANGED <<settingVars, wifiVars, cacheVars, part, lost>>

\* g_cached_template = render_template(), then g_cache_valid = true.
Store ==
    /\ at = "store"
    /\ g_cached_template' = draft
    /\ at' = "valid"
    /\ UNCHANGED <<settingVars, wifiVars, g_cache_valid, draft, part, lost>>

Validate ==
    /\ at = "valid"
    /\ g_cache_valid' = TRUE
    /\ at' = "serve"
    /\ UNCHANGED <<settingVars, wifiVars, g_cached_template, draft, part, lost>>

\* The response takes a copy of the page.
Serve ==
    /\ at = "serve"
    /\ at' = "idle"
    /\ draft' = Blank /\ part' = 1
    /\ UNCHANGED <<settingVars, wifiVars, cacheVars, lost>>

Render == ReadWiFi \/ ReadSetting \/ ReadApMode \/ Store \/ Validate \/ Serve

Next ==
    \/ SettingsStep \/ ApplySetting \/ Invalidate \/ Reconnect
    \/ Poll
    \/ Get \/ Render
    \/ Restart

Spec == Init /\ [][Next]_vars

\* The tasks go on running; nothing is assumed of the users or the radio.
FairSpec == Spec /\ WF_vars(ApplySetting \/ Invalidate) /\ WF_vars(Poll) /\ WF_vars(Render)

-----------------------------------------------------------------------------
(* Correctness.                                                            *)

\* Once a save is through, a page served from the cache shows what the driver has
\* noted: the saved value of every setting that took effect, also if it was rendered
\* while they were being applied, and the frame size the camera was started with.
\* Unless an invalidation fell into the very rendering (network_manager.cpp:186-187).
SettingsShown ==
    g_cache_valid /\ camera /\ applied /\ applying = 0 /\ ~lost =>
        /\ \A k \in 1..Parts :
             /\ g_cached_template.settings[k] = Shown(k)
             /\ inForce[k] # Unknown => g_cached_template.settings[k] = param
        /\ g_cached_template.frameSize = frameSize

\* A page that shows the connection as task_web_ui last saw it is dropped once
\* the connection is another one, or it becomes true again
\* (task_web_ui.cpp:59-61).
ChangesDropThePage ==
    (/\ g_cache_valid /\ g_cached_template.wifi = g_last_wifi_state
     /\ g_state # g_last_wifi_state)
        ~> (~g_cache_valid \/ g_cached_template.wifi = g_state)

-----------------------------------------------------------------------------
(* What holds only as long as nothing changes while a page is rendered.    *)

\* The two readings of the connection state that go into one page agree.
PageAgrees ==
    g_cache_valid => (g_cached_template.ap <=> g_cached_template.wifi = "AP_MODE")

-----------------------------------------------------------------------------
(* What the comments say and the code does not do.                         *)

\* network_manager.cpp:186-187, "so the next GET / reflects the new settings": at
\* least those that took effect.
NextGetShowsSettings ==
    at = "serve" /\ g_cache_valid /\ camera /\ applied /\ applying = 0 =>
        \A k \in 1..Parts : inForce[k] # Unknown => g_cached_template.settings[k] = param

\* The same of the frame size.
NextGetShowsFrameSize ==
    at = "serve" /\ g_cache_valid /\ camera /\ applied /\ applying = 0 =>
        g_cached_template.frameSize = param

\* task_web_ui.cpp:59-61: GET / serves an up-to-date page when the device
\* connects, disconnects or enters AP mode.
PageFollowsConnection ==
    (g_cache_valid /\ g_cached_template.wifi # g_state)
        ~> (~g_cache_valid \/ g_cached_template.wifi = g_state)
=============================================================================
