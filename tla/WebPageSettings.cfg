SPECIFICATION Spec
CONSTANTS
    Parts = 2
    MaxSaves = 2
    WiFiStates = {"DISCONNECTED", "STA_CONNECTED", "AP_MODE"}
INVARIANT NextGetShowsSettings
