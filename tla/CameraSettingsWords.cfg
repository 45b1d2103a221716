\* Statements of comments and documents, each of them violated: one at a time.
SPECIFICATION SettingsSpec
CONSTANTS
    Parts = 2
    MaxSaves = 2
PROPERTY PreferencesApplied
\* INVARIANT FrameSizeChosen
\* INVARIANT SavedSettingsApplied
