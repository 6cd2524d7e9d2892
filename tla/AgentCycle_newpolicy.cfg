SPECIFICATION FairSpec
CONSTANTS
    Policies = {baseline, strict}
    Procs = {daemon}
    MaxVersion = 2
    MaxTasks = 1
    MaxLate = 0

PROPERTY AssignedPolicyReachesAgent
