SPECIFICATION SettingsSpec
CONSTANTS
    Managed = {TRUE, FALSE}
    MaxValue = 2
    MaxQueued = 2
    MaxLosses = 2
INVARIANTS PersistedIsStored SettingsSettled
PROPERTIES EventuallyStored
