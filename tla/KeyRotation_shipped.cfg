SPECIFICATION RecoverySpec
CONSTANTS
    Agents = {a1}
    Procs = {daemon}
    Tokens = {t1, t2}
    Reusable = {t2}
    MaxKeys = 1
    KeyFileWritable = TRUE
    FilesKept = FALSE
    NamedAtEnrollment = {}
PROPERTY
    ReenrollmentSucceeds
CHECK_DEADLOCK FALSE
