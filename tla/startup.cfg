SPECIFICATION MCSpec
CONSTANTS
    DeviceInfos <- MCDeviceInfos
    MaxDeviceInfos = 2
    MaxUpsets = 2
    None = None
    Absent = Absent
INVARIANTS
    TypeOK
    SoundSettings
    RunsAsConfigured
PROPERTIES
    EndsForCause
    EventuallyRuns
\* A process that runs may have nothing more to do here.
CHECK_DEADLOCK FALSE
