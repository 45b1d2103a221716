---------------------------- MODULE CameraSettings ----------------------------
(***************************************************************************)
(* The camera settings a user saves on IotWebConf's form, from NVS to the  *)
(* camera: setup() starts the camera, network_init() loads the settings,   *)
(* on_config_saved() applies them, and the device may restart at any       *)
(* moment.  WebPage adds the page that shows them.                         *)
(*                                                                         *)
(* Settings are numbered by the save that made them, 1 being those of the  *)
(* factory.  They have Parts parts, applied one after the other: part 1 is *)
(* g_frame_duration_ms, the others are the sensor's registers, whose       *)
(* writing may fail without anybody noticing.  The frame size is a setting *)
(* too, but it is only given to the driver when it starts.                 *)
(***************************************************************************)
EXTENDS Integers

CONSTANTS
    Parts,     \* the frame duration and the sensor's registers
    MaxSaves   \* bound on the number of saves

ASSUME SettingsAssumption == Parts \in Nat \ {0} /\ MaxSaves \in Nat

VARIABLES
    phase,     \* "camera", "network" (being initialised), "up"
    stored,    \* the settings in NVS
    param,     \* the settings IotWebConf holds
    camera,    \* the camera came up: there is a sensor to set
    frameSize, \* the settings whose frame size the driver was started with
    inForce,   \* of each part, whose settings are in force
    noted,     \* of each register, what the driver's sensor->status has noted
    applying,  \* the part on_config_saved applies next, 0 = no save
    applied    \* a save has been applied since boot (history)

bootVars == <<phase, camera, frameSize>>
saveVars == <<stored, param>>
partVars == <<inForce, noted>>
settingVars == <<bootVars, saveVars, partVars, applying, applied>>

Registers == 2..Parts
Unset == 0      \* not loaded yet; in force: what the boot leaves there
Unknown == -1   \* in force: what a write that failed leaves there
Settings == 1..(MaxSaves + 1)
Versions == Settings \cup {Unset}

SettingsTypeOK ==
    /\ phase \in {"camera", "network", "up"}
    /\ stored \in Settings /\ param \in Versions /\ frameSize \in Versions
    /\ camera \in BOOLEAN
    /\ inForce \in [1..Parts -> Versions \cup {Unknown}]
    /\ noted \in [Registers -> Versions]
    /\ applying \in 0..(Parts + 1) /\ applied \in BOOLEAN

SettingsInit ==
    /\ phase = "camera" /\ camera = FALSE /\ frameSize = Unset
    /\ stored = 1 /\ param = Unset
    /\ inForce = [k \in 1..Parts |-> Unset] /\ noted = [k \in Registers |-> Unset]
    /\ applying = 0 /\ applied = FALSE

-----------------------------------------------------------------------------
\* setup(): one of the attempts at camera_init succeeds, or none does.  The frame
\* size is asked of the parameter as it is now.
CameraInit ==
    /\ phase = "camera" /\ phase' = "network"
    /\ camera' \in BOOLEAN
    /\ frameSize' = IF camera' THEN param ELSE frameSize
    /\ UNCHANGED <<saveVars, partVars, applying, applied>>

\* network_init(): IotWebConf loads the settings; nothing applies them.
NetworkInit ==
    /\ phase = "network" /\ phase' = "up"
    /\ param' = stored
    /\ UNCHANGED <<camera, frameSize, stored, partVars, applying, applied>>

\* The user saves other settings; IotWebConf stores them and calls
\* on_config_saved.
Save ==
    /\ phase = "up" /\ applying = 0 /\ param <= MaxSaves
    /\ param' = param + 1 /\ stored' = param + 1
    /\ applying' = 1
    /\ UNCHANGED <<bootVars, partVars, applied>>

\* Mutant: the frame duration is set before the sensor is asked for.
ApplyDurationAnyway ==
    /\ applying = 1 /\ ~camera
    /\ inForce' = [inForce EXCEPT ![1] = param]
    /\ applying' = Parts + 1
    /\ UNCHANGED <<bootVars, saveVars, noted, applied>>

\* update_camera_settings without a sensor: it returns before it changes anything.
ApplyNothing ==
    /\ applying = 1 /\ ~camera
    /\ applying' = Parts + 1
    /\ UNCHANGED <<bootVars, saveVars, partVars, applied>>

\* With a sensor: g_frame_duration_ms first.
SetDuration ==
    /\ applying = 1 /\ camera
    /\ inForce' = [inForce EXCEPT ![1] = param]
    /\ applying' = 2
    /\ UNCHANGED <<bootVars, saveVars, noted, applied>>

\* Then one register after the other, whatever camera_set_quality and the sensor's
\* set_ functions return.  A write that fails leaves something in the register, and
\* the driver may have noted the new value or not.
SetRegister ==
    /\ applying \in Registers
    /\ \/ /\ inForce' = [inForce EXCEPT ![applying] = param]
          /\ noted' = [noted EXCEPT ![applying] = param]
       \/ /\ inForce' = [inForce EXCEPT ![applying] = Unknown]
          /\ noted' \in {noted, [noted EXCEPT ![applying] = param]}
    /\ applying' = applying + 1
    /\ UNCHANGED <<bootVars, saveVars, applied>>

Apply == ApplyNothing \/ SetDuration \/ SetRegister

\* on_config_saved goes on, and returns to IotWebConf.
EndOfSave ==
    /\ applying = Parts + 1
    /\ applying' = 0 /\ applied' = TRUE
    /\ UNCHANGED <<bootVars, saveVars, partVars>>

\* The device restarts, be it in the middle of a save; NVS is all that stays.
Reboot ==
    /\ phase' = "camera" /\ camera' = FALSE /\ frameSize' = Unset
    /\ param' = Unset
    /\ inForce' = [k \in 1..Parts |-> Unset] /\ noted' = [k \in Registers |-> Unset]
    /\ applying' = 0 /\ applied' = FALSE
    /\ UNCHANGED stored

SettingsNext ==
    CameraInit \/ NetworkInit \/ Save \/ Apply \/ EndOfSave \/ Reboot

SettingsSpec ==
    /\ SettingsInit /\ [][SettingsNext]_settingVars
    /\ WF_settingVars(CameraInit \/ NetworkInit) /\ WF_settingVars(Apply \/ EndOfSave)

-----------------------------------------------------------------------------
(* Correctness.                                                            *)

\* But while a save is being applied, the frame duration and the registers go
\* together, wherever a restart fell: all of them as the boot left them, or, with a
\* camera and after a save, the duration last saved and beside it no setting of an
\* earlier save; what is not of the last one is a register whose last write failed.
WrittenSettingsAgree ==
    applying = 0 =>
        IF camera /\ applied
        THEN inForce[1] = param /\ \A k \in Registers : inForce[k] \in {param, Unknown}
        ELSE \A k \in 1..Parts : inForce[k] = Unset

-----------------------------------------------------------------------------
(* What the comments say and the code does not do.                         *)

\* main.cpp:105-109: the settings saved by the user are applied when network_init()
\* is called, within about a second of the start.
PreferencesApplied ==
    (phase = "up" /\ camera) ~>
        (phase # "up" \/ \A k \in 1..Parts : inForce[k] = param)

\* camera_manager.cpp:81: "Frame size is fetched dynamically from the web UI
\* settings."
FrameSizeChosen == phase = "up" /\ camera => frameSize \in Settings

\* network_manager.cpp:183: "Apply any camera parameter changes immediately."
SavedSettingsApplied ==
    camera /\ applied /\ applying = 0 =>
        frameSize = param /\ \A k \in 1..Parts : inForce[k] = param
=============================================================================
