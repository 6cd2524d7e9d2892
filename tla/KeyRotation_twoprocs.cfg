SPECIFICATION Spec
CONSTANTS
    Agents = {a1}
    Procs = {daemon, once}
    Tokens = {t1}
    Reusable = {}
    MaxKeys = 2
    KeyFileWritable = TRUE
    FilesKept = FALSE
    NamedAtEnrollment = {"signed-control", "key-rotation"}
INVARIANT
    AgentCanVerify
CHECK_DEADLOCK FALSE
