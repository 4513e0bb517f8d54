CONSTANTS
    MaxTimers = 3
    MaxFetches = 2
    MaxJobs = 1
    Delay = 3
    MaxLag = 1
    JobsMayThrow = FALSE
SPECIFICATION FairSpec
INVARIANTS OnlyTimerJobsLost
PROPERTIES TimersFireInOrder Termination ReactionRuns
