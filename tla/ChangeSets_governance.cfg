CONSTANTS
    Admins = {u1, u2}
    Hosts = {h1, h2}
    Controls = {c1}
    Assignments = {a1, a2}
    Remediating = {a1}
    MaxReports = 2
    MaxPlans = 2
    MaxSets = 2
    NoAdmin = NoAdmin
SPECIFICATION MCSpec
SYMMETRY Symmetry
INVARIANTS TypeOK OnePlanPerFinding OneActiveSetPerPlan IndependentAuthorizer EnvelopeStaysTrue NoLockCycle
PROPERTIES BlockedSetsStayBlocked GovernanceSpec
CHECK_DEADLOCK FALSE
