SPECIFICATION RecoverySpec
CONSTANTS
    Agents = {a1}
    Procs = {daemon}
    Tokens = {t1}
    Reusable = {t1}
    MaxKeys = 3
    KeyFileWritable = TRUE
    FilesKept = FALSE
    NamedAtEnrollment = {"signed-control"}
PROPERTIES
    EventuallyAcknowledged
    EventuallyPinned
    ReenrollmentSucceeds
CHECK_DEADLOCK FALSE
