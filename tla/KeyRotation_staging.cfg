SPECIFICATION Spec
CONSTANTS
    Agents = {a1}
    Procs = {daemon}
    Tokens = {t1}
    Reusable = {}
    MaxKeys = 3
    KeyFileWritable = TRUE
    FilesKept = FALSE
    NamedAtEnrollment = {"signed-control", "key-rotation"}
INVARIANT
    StagingKeepsAgentsConnected
CHECK_DEADLOCK FALSE
