SPECIFICATION Spec
CONSTANTS
    Agents = {a1, a2}
    Procs = {daemon}
    Tokens = {t1}
    Reusable = {t1}
    MaxKeys = 3
    KeyFileWritable = TRUE
    FilesKept = FALSE
    NamedAtEnrollment = {"signed-control", "key-rotation"}
INVARIANTS
    TypeOK
    AgentCanVerify
    AcknowledgedIsHeld
    OnlyMissedActivationDisconnects
    OneSigner
PROPERTY
    HandoverSpec
SYMMETRY AgentSymmetry
CHECK_DEADLOCK FALSE
