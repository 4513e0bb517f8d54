CONSTANTS
    MaxTimers = 2
    MaxFetches = 2
    MaxJobs = 2
    Delay = 3
    MaxLag = 1
    JobsMayThrow = TRUE
SPECIFICATION Spec
INVARIANTS TypeOK NoDangling OnlyKnownLeaks
PROPERTIES HostSpec
