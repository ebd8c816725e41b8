SPECIFICATION CtrlFairSpec
CONSTANTS
    NClusters = 2
    MaxRuns = 2
    MaxResets = 1
INVARIANTS
    CompletionMeansDone
    ProfileOfThisRun
PROPERTY
    EocCompletes
