CONSTANTS
    Devices = {d1}
    NoDevice = NoDevice
    MaxFaults = 1
    MaxCrashes = 1
SPECIFICATION PresenceFairSpec
INVARIANTS
    SteadyNotMarked
PROPERTY
    SilentGoesOffline
