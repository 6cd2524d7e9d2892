CONSTANTS
    NumEntries = 2
    Contents = {v1, v2}
    Absent = Absent
    Unsafe = Unsafe
    Limit = 3
    MaxJobs = 4
    MaxKeys = 2
    MaxRuns = 3
    Regular = v1
SPECIFICATION MCSpec
INVARIANTS TypeOK StoreBounded AcceptedIsOnDisk NoneOpenAfterCancel
PROPERTIES VerifiesWhatIsThere EndedStaysEnded LedgerSpec OpenJobsEnd
CHECK_DEADLOCK FALSE
