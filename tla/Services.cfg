CONSTANTS
    Uploads = {u1, u2, u3}
    Removals = {d1, d2}
    Ids = {i1, i2, i3}
    Machines = {m1, m2}
    Applications = {a1}
    MaxTime = 3
    Pending = Pending
    Nobody = Nobody
    Workers = {w1, w2}
    Packages = {p1}
    Import = Import
    MaxSyncs = 2
    Federated = {alice, bob}
    Root = root
    MaxLogins = 1
    Processes = {x1, x2}
    Certificates = {c1, c2, c3}
    NoCertificate = NoCertificate
    MaxEvents = 2
    MaxRequests = 5
SPECIFICATION MCSpec
INVARIANTS TypeOK EvidenceKept NewestInventoryShown OneWorkerPerRun AdminRemains SettledPair
PROPERTIES ResolvedOnEvidence OpenRunsEnd ArchiveSpec
CHECK_DEADLOCK FALSE
