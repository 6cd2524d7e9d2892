SPECIFICATION FairSpec
CONSTANTS
    Policies = {baseline, strict}
    Procs = {daemon}
    MaxVersion = 2
    MaxTasks = 2
    MaxLate = 1
INVARIANTS TypeOK AtMostOneOpenTask
PROPERTIES OutcomeStands HighestNeverFalls EveryAuditEnds PolicyReachesAgent
