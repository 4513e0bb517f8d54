CONSTANTS
    MaxTimers = 1
    MaxFetches = 0
    MaxJobs = 1
    Delay = 1
    MaxLag = 0
    JobsMayThrow = FALSE
SPECIFICATION Spec
INVARIANTS NoLostJobs
