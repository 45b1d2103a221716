SPECIFICATION FairSpec
CONSTANTS
    Parts = 3
    MaxSaves = 2
    WiFiStates = {"DISCONNECTED", "AP_MODE"}
INVARIANT WrittenSettingsAgree
INVARIANT SettingsShown
PROPERTY ChangesDropThePage
