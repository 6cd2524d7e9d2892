SPECIFICATION FairSpec
CONSTANTS
    Agents = {a1}
    Procs = {daemon}
    Tokens = {t1}
    Reusable = {}
    MaxKeys = 2
    KeyFileWritable = FALSE
    FilesKept = FALSE
    NamedAtEnrollment = {"signed-control", "key-rotation"}
PROPERTY
    EventuallyPinned
CHECK_DEADLOCK FALSE
