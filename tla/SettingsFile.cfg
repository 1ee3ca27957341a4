\* A node that starts, saves its settings a few times, fails to save, and
\* crashes at any step, with or without a settings.json at first start.
CONSTANTS
    Values <- MCValues
    Empty = "empty"
    Partial = Partial
    Absent = Absent
    MaxWrites = 4
SPECIFICATION Spec
INVARIANT SettingsReadableAfterCrash
INVARIANT AckedSettingsSurvive
PROPERTY StoreRefined
