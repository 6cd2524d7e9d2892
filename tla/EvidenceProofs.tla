---------------------------- MODULE EvidenceProofs ----------------------------
(***************************************************************************)
(* Proofs about Evidence, for any uploads, removals, reports and machines, *)
(* and any deployment.                                                     *)
(***************************************************************************)
EXTENDS Evidence, TLAPS

-----------------------------------------------------------------------------
(* The inductive invariant *)

\* An upload that will not write to the database any more.
Settled(u) == upload[u].pc \in {"failed", "done"}

\* A bundle is in the vault until its upload is settled.
UploadInv ==
    \A u \in Uploads :
        upload[u].bundle /\ upload[u].pc \in {"stored", "reading", "computed"} => u \in vault

\* The upload of an accepted report is settled, and takes its object back only if
\* it was not told of its commit.
ReportInv ==
    \A i \in Ids :
        /\ Accepted(i) => /\ Settled(report[i].by)
                          /\ upload[report[i].by].pc = "failed" => report[i].by \in unsure
        /\ ~Accepted(i) => ~report[i].deleted

\* A removal is of accepted reports whose retention is over; what it need not
\* delete any more is gone.
RemovalInv ==
    \A d \in Removals :
        /\ removal[d].todo \subseteq removal[d].rows
        /\ \A i \in removal[d].rows : Accepted(i) /\ RetentionOver(i)
        /\ \A i \in removal[d].rows \ removal[d].todo : report[i].by \notin vault

VaultInv ==
    EvidenceTypeOK /\ UploadInv /\ ReportInv /\ RemovalInv /\ EvidenceKept /\ DeletedMeansGone

InFlight(u) == upload[u].pc \in {"reading", "computed"}
Reported(t) == t = 0 \/ \E v \in Ingested : upload[v].at = t

\* The last scan, as it is and as a request has read it, is that of an accepted report.
ReadInv ==
    /\ Reported(host.last)
    /\ \A u \in Uploads : InFlight(u) => Reported(upload[u].read.last)

SeenInv == \A u \in Uploads : seen[u] \subseteq Ingested

Installed(a) == host.inventory[a] = "installed"
ReadAsInstalled(u, a) == upload[u].read.inventory[a] = "installed"

\* A row that is no longer as a request has read it was written by a report that the
\* request has not seen, and that lists what the row shows.
RowsInv ==
    \A u \in Uploads :
        upload[u].pc = "computed" /\ Synchronizes(u, upload[u].read.last) =>
            \A a \in Applications :
                ~(Installed(a) <=> ReadAsInstalled(u, a)) =>
                    \E v \in Ingested :
                        /\ v \notin seen[u] /\ upload[v].lists
                        /\ a \in upload[v].listed <=> Installed(a)

InventoryInv == ReadInv /\ SeenInv /\ RowsInv /\ NewestInventoryShown

EvidenceInv == VaultInv /\ InventoryInv

-----------------------------------------------------------------------------
(* The initial state *)

LEMMA EvidenceInitially == EvidenceInit => EvidenceInv
<1> SUFFICES ASSUME EvidenceInit PROVE EvidenceInv
  OBVIOUS
<1>1. NoHost \in Host /\ Enrolled \in Host /\ host.last = 0
  <2>1. NoHost \in Host /\ NoHost.last = 0
    BY DEF NoHost, Host, Inventory
  <2>2. Enrolled \in Host /\ Enrolled.last = 0
    BY <2>1 DEF Enrolled, NoHost, Host
  <2>3. QED
    BY <2>1, <2>2 DEF EvidenceInit
<1>2. \A u \in Uploads : upload[u] \in Upload /\ upload[u].pc = "new"
  BY <1>1 DEF EvidenceInit, Fresh, Upload
<1>3. \A i \in Ids : report[i] = [by |-> Nobody, deleted |-> FALSE]
  BY DEF EvidenceInit
<1>4. \A d \in Removals : removal[d] = [todo |-> {}, rows |-> {}]
  BY DEF EvidenceInit, Idle
<1>5. EvidenceTypeOK
  <2>1. upload \in [Uploads -> Upload]
    BY <1>2 DEF EvidenceInit
  <2>2. report \in [Ids -> Row]
    BY DEF EvidenceInit, Row
  <2>3. removal \in [Removals -> [todo : SUBSET Ids, rows : SUBSET Ids]]
    BY DEF EvidenceInit, Idle
  <2>4. QED
    BY <1>1, <2>1, <2>2, <2>3 DEF EvidenceInit, EvidenceTypeOK
<1>6. UploadInv /\ ReportInv /\ RemovalInv /\ EvidenceKept /\ DeletedMeansGone
  BY <1>2, <1>3, <1>4 DEF UploadInv, ReportInv, RemovalInv, EvidenceKept, DeletedMeansGone, Accepted
<1>7. Ingested = {} /\ Newest = {}
  BY <1>3 DEF Ingested, Newest
<1>8. ReadInv /\ SeenInv /\ RowsInv
  <2>1. seen = [u \in Uploads |-> {}]
    BY DEF EvidenceInit
  <2>2. \A u \in Uploads : ~InFlight(u) /\ upload[u].pc # "computed"
    BY <1>2 DEF InFlight
  <2> QED
    BY <1>1, <2>1, <2>2 DEF ReadInv, SeenInv, RowsInv, Reported
<1>9. NewestInventoryShown
  BY <1>7 DEF NewestInventoryShown
<1>10. QED
  BY <1>5, <1>6, <1>8, <1>9 DEF EvidenceInv, VaultInv, InventoryInv

-----------------------------------------------------------------------------
(* The vault *)

\* An object that has to be kept is locked.
LEMMA LockedKept ==
    ASSUME NEW o \in Uploads, Locked(o) PROVE Without(o) = vault
BY DEF Without

\* An upload that moves on without touching the vault or the database.
LEMMA MoveStep ==
    ASSUME VaultInv, NEW u \in Uploads, NEW pc \in {"verified", "stored", "reading", "computed", "failed", "done"},
           NEW read \in Host,
           upload' = [upload EXCEPT ![u].pc = pc, ![u].read = read],
           UNCHANGED <<deployment, vault, expired, report, trusted, removal, unsure>>,
           seen' \in [Uploads -> SUBSET Uploads],
           host' \in Host,
           ~Settled(u),
           pc \in {"stored", "reading", "computed"} /\ upload[u].bundle => u \in vault
    PROVE  VaultInv'
<1>1. upload[u] \in Upload /\ upload'[u] \in Upload /\ upload'[u].pc = pc
      /\ upload'[u].bundle = upload[u].bundle
  <2>1. upload \in [Uploads -> Upload] /\ upload[u] \in Upload
    BY DEF VaultInv, EvidenceTypeOK
  <2>2. upload'[u] = [upload[u] EXCEPT !.pc = pc, !.read = read]
    BY <2>1
  <2> QED
    BY <2>1, <2>2 DEF Upload
<1>2. \A v \in Uploads : v # u => upload'[v] = upload[v]
  BY DEF VaultInv, EvidenceTypeOK
<1>3. \A v \in Uploads : upload'[v].bundle = upload[v].bundle
  BY <1>1, <1>2
<1>4. EvidenceTypeOK'
  BY <1>1, <1>3 DEF VaultInv, EvidenceTypeOK
<1>5. UploadInv'
  BY <1>1, <1>2 DEF VaultInv, UploadInv
<1>6. \A i \in Ids : Accepted(i)' <=> Accepted(i)
  BY DEF Accepted
<1>7. \A i \in Ids : Accepted(i) => report[i].by \in Uploads /\ report[i].by # u
  BY DEF VaultInv, EvidenceTypeOK, Row, ReportInv, Accepted
<1>8. ReportInv'
  BY <1>2, <1>6, <1>7 DEF VaultInv, ReportInv, Settled
<1>9. RemovalInv'
  BY DEF VaultInv, RemovalInv, RetentionOver, Accepted
<1>10. EvidenceKept'
  <2>1. \A i \in Ids : Accepted(i) => upload'[report[i].by].bundle = upload[report[i].by].bundle
    BY <1>3, <1>7
  <2>2. QED
    BY <2>1 DEF VaultInv, EvidenceKept, Accepted
<1>11. DeletedMeansGone'
  BY DEF VaultInv, DeletedMeansGone
<1>12. QED
  BY <1>4, <1>5, <1>8, <1>9, <1>10, <1>11 DEF VaultInv

LEMMA IngestedUploads ==
    ASSUME EvidenceTypeOK
    PROVE  /\ Ingested \subseteq Uploads
           /\ \A i \in Ids : Accepted(i) => report[i].by \in Ingested
           /\ \A u \in Ingested : \E i \in Ids : Accepted(i) /\ report[i].by = u
BY DEF EvidenceTypeOK, Ingested, Accepted, Row

\* What the requests of an upload do before it commits, and when it fails or stops.
LEMMA UploadStep ==
    ASSUME VaultInv, NEW u \in Uploads,
           \/ Receive(u) \/ ReadHost(u) \/ ReadInventory(u) \/ CommitFails(u)
           \/ UploadStops(u) \/ Store(u) \/ Discard(u)
    PROVE  VaultInv'
<1>0. seen \in [Uploads -> SUBSET Uploads]
  BY DEF VaultInv, EvidenceTypeOK
<1>1. upload[u] \in Upload /\ upload[u].read \in Host /\ host \in Host
  BY DEF VaultInv, EvidenceTypeOK, Upload
<1>2. upload[u] = [upload[u] EXCEPT !.read = upload[u].read]
  BY <1>1 DEF Upload
<1>3. ASSUME NEW pc \in {"verified", "stored", "reading", "computed", "failed", "done"}, Go(u, pc)
      PROVE  upload' = [upload EXCEPT ![u].pc = pc, ![u].read = upload[u].read]
  BY <1>1, <1>3 DEF Go, VaultInv, EvidenceTypeOK, Upload
<1>4. CASE Receive(u)
  <2>1. ~Settled(u)
    BY <1>4 DEF Receive, Settled
  <2>2. PICK pc \in {"done", "verified"} : Go(u, pc)
    BY <1>4 DEF Receive
  <2>3. QED
    BY <1>0, <1>1, <1>3, <1>4, <2>1, <2>2, MoveStep DEF Receive
<1>5. CASE ReadHost(u) /\ Admissible(u)
  <2>1. ~Settled(u) /\ (upload[u].bundle => u \in vault)
    BY <1>1, <1>5 DEF ReadHost, Settled, VaultInv, UploadInv
  <2>2. PICK pc \in {"reading", "computed"} : upload' = [upload EXCEPT ![u].pc = pc, ![u].read = host]
    BY <1>5 DEF ReadHost
  <2>3. seen' \in [Uploads -> SUBSET Uploads]
    BY <1>5, IngestedUploads DEF ReadHost, VaultInv, EvidenceTypeOK
  <2>4. QED
    BY <1>1, <1>5, <2>1, <2>2, <2>3, MoveStep DEF ReadHost
<1>6. CASE ReadHost(u) /\ ~Admissible(u)
  <2>1. ~Settled(u)
    BY <1>1, <1>6 DEF ReadHost, Settled
  <2>2. Failing(u) \in {"failed", "done"} /\ Go(u, Failing(u)) /\ seen' = seen
    BY <1>6 DEF ReadHost, Failing, Go
  <2>3. QED
    BY <1>0, <1>1, <1>3, <1>6, <2>1, <2>2, MoveStep DEF ReadHost
<1>14. CASE ReadInventory(u)
  <2> DEFINE read == [upload[u].read EXCEPT !.inventory = host.inventory]
  <2>1. ~Settled(u) /\ (upload[u].bundle => u \in vault)
    BY <1>1, <1>14 DEF ReadInventory, Settled, VaultInv, UploadInv
  <2>2. read \in Host
    BY <1>1 DEF Host
  <2>3. upload' = [upload EXCEPT ![u].pc = "computed", ![u].read = read]
    BY <1>14 DEF ReadInventory
  <2> HIDE DEF read
  <2>4. QED
    BY <1>0, <1>1, <1>14, <2>1, <2>2, <2>3, MoveStep DEF ReadInventory
<1>7. CASE CommitFails(u)
  <2>1. ~Settled(u)
    BY <1>7 DEF CommitFails, Settled
  <2>2. Failing(u) \in {"failed", "done"} /\ Go(u, Failing(u))
    BY <1>7 DEF CommitFails, Failing
  <2>3. QED
    BY <1>0, <1>1, <1>3, <1>7, <2>1, <2>2, MoveStep DEF CommitFails
<1>8. CASE UploadStops(u) /\ ~Settled(u)
  BY <1>0, <1>1, <1>3, <1>8, MoveStep DEF UploadStops
<1>9. CASE Store(u) /\ vault' = vault
  <2>1. ~Settled(u) /\ \E pc \in {"done", "stored"} : Go(u, pc) /\ (pc = "stored" => u \in vault)
    BY <1>9 DEF Store, Settled, Put, ObjectOf
  <2>2. QED
    BY <1>0, <1>1, <1>3, <1>9, <2>1, MoveStep DEF Store
<1>10. CASE Store(u) /\ vault' = Put(u) /\ Go(u, "stored")
  <2>1. upload[u].bundle /\ ~Settled(u)
    BY <1>10 DEF Store, Settled
  <2>2. upload' = [upload EXCEPT ![u].pc = "stored"] /\ vault' = vault \union {u}
    BY <1>10 DEF Go, Put
  <2>3. EvidenceTypeOK' /\ \A v \in Uploads : upload'[v].bundle = upload[v].bundle
    <3>1. \A v \in Uploads : upload'[v].bundle = upload[v].bundle /\ upload'[v] \in Upload
      BY <1>1, <2>2 DEF VaultInv, EvidenceTypeOK, Upload
    <3>2. upload' \in [Uploads -> Upload]
      BY <2>2, <3>1 DEF VaultInv, EvidenceTypeOK
    <3>3. vault' \subseteq {v \in Uploads : upload'[v].bundle}
      BY <2>1, <2>2, <3>1 DEF VaultInv, EvidenceTypeOK
    <3>4. QED
      BY <1>10, <3>1, <3>2, <3>3 DEF Store, VaultInv, EvidenceTypeOK
  <2>4. UploadInv'
    BY <1>1, <2>2 DEF VaultInv, EvidenceTypeOK, UploadInv, Upload
  <2>5. \A i \in Ids : Accepted(i) => report[i].by \in Uploads /\ report[i].by # u
    BY <2>1 DEF VaultInv, EvidenceTypeOK, Row, ReportInv, Accepted
  <2>6. ReportInv'
    BY <1>10, <2>2, <2>5 DEF Store, VaultInv, EvidenceTypeOK, ReportInv, Settled, Accepted
  <2>7. RemovalInv'
    <3>1. \A d \in Removals : removal[d].rows \subseteq Ids
      BY DEF VaultInv, EvidenceTypeOK
    <3>2. QED
      BY <1>10, <2>2, <2>5, <3>1 DEF Store, VaultInv, RemovalInv, RetentionOver, Accepted
  <2>8. EvidenceKept'
    BY <1>10, <2>2, <2>3, <2>5 DEF Store, VaultInv, EvidenceKept, Accepted
  <2>9. DeletedMeansGone'
    BY <1>10, <2>2, <2>5 DEF Store, VaultInv, ReportInv, DeletedMeansGone
  <2>10. QED
    BY <2>3, <2>4, <2>6, <2>7, <2>8, <2>9 DEF VaultInv
<1>11. CASE (UploadStops(u) /\ Settled(u)) \/ Discard(u)
  <2>1. upload[u].pc = "failed" /\ upload' = [upload EXCEPT ![u].pc = "done"]
        /\ vault' \in {vault, Without(u)}
    BY <1>11 DEF UploadStops, Settled, Discard, Go, ObjectOf
  <2>2. UNCHANGED <<deployment, expired, report, host, trusted, removal, unsure, seen>>
    BY <1>11 DEF UploadStops, Discard
  <2>3. vault' \subseteq vault /\ \A v \in vault : v # u => v \in vault'
    BY <2>1 DEF Without
  <2>4. \A v \in Uploads : upload'[v].bundle = upload[v].bundle /\ upload'[v] \in Upload
    BY <1>1, <2>1 DEF VaultInv, EvidenceTypeOK, Upload
  <2>5. EvidenceTypeOK'
    <3>1. upload' \in [Uploads -> Upload]
      BY <2>1, <2>4 DEF VaultInv, EvidenceTypeOK
    <3>2. QED
      BY <2>2, <2>3, <2>4, <3>1 DEF VaultInv, EvidenceTypeOK
  <2>6. \A v \in Uploads : upload'[v].pc = IF v = u THEN "done" ELSE upload[v].pc
    BY <1>1, <2>1 DEF VaultInv, EvidenceTypeOK, Upload
  <2>7. UploadInv'
    BY <2>3, <2>4, <2>6 DEF VaultInv, UploadInv
  <2>8. \A i \in Ids : Accepted(i) => report[i].by \in Uploads
    BY DEF VaultInv, EvidenceTypeOK, Row, Accepted
  <2>9. ReportInv'
    BY <2>2, <2>6, <2>8 DEF VaultInv, ReportInv, Settled, Accepted
  <2>10. RemovalInv' /\ DeletedMeansGone'
    BY <2>2, <2>3 DEF VaultInv, RemovalInv, RetentionOver, DeletedMeansGone, Accepted
  <2>11. EvidenceKept'
    <3> SUFFICES ASSUME NEW i \in Ids, Accepted(i), upload'[report[i].by].bundle,
                        deployment.retained, report[i].by \notin expired,
                        deployment.s3 \/ report[i].by \notin unsure
                 PROVE  report[i].by \in vault'
      BY <2>2 DEF EvidenceKept, Accepted
    <3>1. report[i].by \in vault
      BY <2>4, <2>8 DEF VaultInv, EvidenceKept
    <3>2. CASE report[i].by = u
      <4>1. deployment.s3
        BY <2>1, <3>2 DEF VaultInv, ReportInv
      <4>2. Locked(u)
        BY <3>2, <4>1 DEF Locked
      <4>3. QED
        BY <2>1, <3>1, <3>2, <4>2, LockedKept
    <3>3. QED
      BY <2>3, <3>1, <3>2
  <2>12. QED
    BY <2>5, <2>7, <2>9, <2>10, <2>11 DEF VaultInv
<1>12. Store(u) => vault' = vault \/ (vault' = Put(u) /\ Go(u, "stored"))
  BY DEF Store, ObjectOf
<1>15. QED
  BY <1>4, <1>5, <1>6, <1>7, <1>8, <1>9, <1>10, <1>11, <1>12, <1>14

\* What a commit writes is a host.
LEMMA WrittenIsHost ==
    ASSUME EvidenceTypeOK, NEW u \in Uploads
    PROVE  Written(u) \in Host
<1>1. upload[u] \in Upload /\ upload[u].read \in Host /\ host \in Host
  BY DEF EvidenceTypeOK, Upload
<1>2. Synchronized(u) \in Inventory
  BY <1>1 DEF Synchronized, Host, Inventory
<1>3. QED
  BY <1>1, <1>2 DEF Written, Host, Upload

\* A commit records the report for an upload whose bundle is in the vault.
LEMMA CommitVault ==
    ASSUME VaultInv, NEW u \in Uploads, Commit(u)
    PROVE  VaultInv'
<1>0. PICK i \in Ids : i = upload[u].id
  BY DEF VaultInv, EvidenceTypeOK, Upload
<1>1. /\ upload[u] \in Upload /\ upload[u].at \in Times
      /\ upload[u].pc = "computed" /\ ~Accepted(i) /\ u # Nobody
  BY <1>0, EvidenceAssumption DEF VaultInv, EvidenceTypeOK, Upload, Commit, Conflict
<1>2. PICK pc \in {"done", "failed"} : /\ upload' = [upload EXCEPT ![u].pc = pc]
                                       /\ pc = "failed" => u \in unsure'
  BY DEF Commit, Go
<1>3. UNCHANGED <<deployment, vault, expired, trusted, removal, seen>>
  BY DEF Commit
<1>4. unsure \subseteq unsure' /\ unsure' \subseteq Uploads
  BY DEF VaultInv, EvidenceTypeOK, Commit
<1>5. /\ upload' \in [Uploads -> Upload]
      /\ \A v \in Uploads : /\ upload'[v].bundle = upload[v].bundle
                            /\ upload'[v].pc = IF v = u THEN pc ELSE upload[v].pc
  <2>1. [upload[u] EXCEPT !.pc = pc] \in Upload /\ [upload[u] EXCEPT !.pc = pc].pc = pc
        /\ [upload[u] EXCEPT !.pc = pc].bundle = upload[u].bundle
    BY <1>1 DEF Upload
  <2> DEFINE new == [upload[u] EXCEPT !.pc = pc]
  <2>2. upload' = [upload EXCEPT ![u] = new]
    BY <1>2
  <2>3. new \in Upload /\ new.pc = pc /\ new.bundle = upload[u].bundle
    BY <2>1
  <2> HIDE DEF new
  <2>4. QED
    BY <2>2, <2>3 DEF VaultInv, EvidenceTypeOK
<1>6. /\ report'[i].by = u /\ ~report'[i].deleted
      /\ report'[i] \in Row /\ \A j \in Ids : j # i => report'[j] = report[j]
  <2>1. report[i] \in Row /\ ~report[i].deleted
    BY <1>1 DEF VaultInv, EvidenceTypeOK, ReportInv
  <2>2. report' = [report EXCEPT ![i].by = u]
    BY <1>0 DEF Commit
  <2>3. report'[i] = [report[i] EXCEPT !.by = u]
    BY <1>1, <2>2 DEF VaultInv, EvidenceTypeOK
  <2>4. QED
    BY <1>1, <2>1, <2>2, <2>3 DEF VaultInv, EvidenceTypeOK, Row
<1>7. EvidenceTypeOK'
  <2>1. \A j \in Ids : report'[j] \in Row
    BY <1>6 DEF VaultInv, EvidenceTypeOK
  <2>2. report' \in [Ids -> Row]
    BY <2>1 DEF VaultInv, EvidenceTypeOK, Commit
  <2>3. host' \in Host
    BY WrittenIsHost DEF VaultInv, Commit
  <2>4. QED
    BY <1>3, <1>4, <1>5, <2>2, <2>3 DEF VaultInv, EvidenceTypeOK
<1>8. UploadInv'
  BY <1>3, <1>5 DEF VaultInv, UploadInv
<1>9. \A j \in Ids : Accepted(j) => report[j].by \in Uploads /\ report[j].by # u /\ j # i
  BY <1>1 DEF VaultInv, EvidenceTypeOK, Row, ReportInv, Settled, Accepted
<1>10. ReportInv'
  <2>1. ASSUME NEW j \in Ids, j # i
        PROVE  /\ Accepted(j)' => /\ Settled(report[j].by)'
                                  /\ upload'[report'[j].by].pc = "failed" => report'[j].by \in unsure'
               /\ ~Accepted(j)' => ~report'[j].deleted
    BY <1>4, <1>5, <1>6, <1>9, <2>1 DEF VaultInv, ReportInv, Settled, Accepted
  <2>2. Accepted(i)' /\ Settled(report[i].by)' /\ (upload'[u].pc = "failed" => u \in unsure')
    BY <1>1, <1>2, <1>5, <1>6 DEF Accepted, Settled
  <2>3. QED
    BY <1>6, <2>1, <2>2 DEF ReportInv
<1>11. RemovalInv'
  <2>1. \A d \in Removals : \A j \in removal[d].rows : j \in Ids /\ Accepted(j) /\ j # i
    BY <1>9 DEF VaultInv, EvidenceTypeOK, RemovalInv
  <2>2. \A d \in Removals : \A j \in removal[d].rows : report'[j].by = report[j].by
    BY <1>6, <2>1
  <2>3. QED
    BY <1>3, <2>2 DEF VaultInv, RemovalInv, RetentionOver, Accepted
<1>12. DeletedMeansGone'
  <2>1. \A j \in Ids : report'[j].deleted => report[j].deleted /\ report'[j].by = report[j].by
    BY <1>6
  <2>2. QED
    BY <1>3, <2>1 DEF VaultInv, DeletedMeansGone
<1>13. EvidenceKept'
  <2> SUFFICES ASSUME NEW j \in Ids, Accepted(j)', upload'[report'[j].by].bundle,
                      deployment.retained, report'[j].by \notin expired,
                      deployment.s3 \/ report'[j].by \notin unsure'
               PROVE  report'[j].by \in vault
    BY <1>3 DEF EvidenceKept
  <2>1. CASE j = i
    BY <1>1, <1>5, <1>6, <2>1 DEF VaultInv, UploadInv
  <2>2. CASE j # i
    BY <1>4, <1>5, <1>6, <1>9, <2>2 DEF VaultInv, EvidenceKept, Accepted
  <2>3. QED
    BY <2>1, <2>2
<1>14. QED
  BY <1>7, <1>8, <1>10, <1>11, <1>12, <1>13 DEF VaultInv

\* A removal begins with reports whose retention is over, or it is given up.
LEMMA ChooseStep ==
    ASSUME VaultInv, NEW d \in Removals, NEW S \in SUBSET Ids,
           \A i \in S : Accepted(i) /\ RetentionOver(i),
           removal' = [removal EXCEPT ![d] = [todo |-> S, rows |-> S]],
           UNCHANGED <<deployment, upload, vault, expired, report, host, trusted, unsure, seen>>
    PROVE  VaultInv'
<1>1. RemovalInv' /\ EvidenceTypeOK'
  BY DEF VaultInv, EvidenceTypeOK, RemovalInv, RetentionOver, Accepted
<1>2. QED
  BY <1>1 DEF VaultInv, UploadInv, ReportInv, EvidenceKept, DeletedMeansGone, Settled, Accepted

\* A removal deletes objects that are not locked, and marks rows whose objects are gone.
LEMMA RemovalStep ==
    ASSUME VaultInv, NEW d \in Removals,
           \/ PurgeExpired(d) \/ CommitRemoval(d) \/ RemovalFails(d)
           \/ \E i \in Ids : DeleteArtifact(d, i) \/ RemoveObject(d, i)
    PROVE  VaultInv'
<1>1. UNCHANGED <<deployment, upload, expired, host, trusted, unsure, seen>>
  BY DEF PurgeExpired, CommitRemoval, RemovalFails, DeleteArtifact, RemoveObject
<1>2. Idle = [todo |-> {}, rows |-> {}]
  BY DEF Idle
<1>3. CASE PurgeExpired(d) \/ RemovalFails(d) \/ \E i \in Ids : DeleteArtifact(d, i)
  <2>1. UNCHANGED <<vault, report>>
    BY <1>3 DEF PurgeExpired, RemovalFails, DeleteArtifact
  <2>2. CASE PurgeExpired(d)
    <3>1. Purgeable \in SUBSET Ids /\ \A i \in Purgeable : Accepted(i) /\ RetentionOver(i)
      BY DEF Purgeable, Available
    <3>2. QED
      BY <1>1, <2>1, <2>2, <3>1, ChooseStep DEF PurgeExpired
  <2>3. CASE RemovalFails(d)
    <3>1. {} \in SUBSET Ids
      OBVIOUS
    <3>2. QED
      BY <1>1, <1>2, <2>1, <2>3, <3>1, ChooseStep DEF RemovalFails
  <2>4. ASSUME NEW i \in Ids, DeleteArtifact(d, i) PROVE VaultInv'
    <3>1. {i} \in SUBSET Ids
      OBVIOUS
    <3>2. \A j \in {i} : Accepted(j) /\ RetentionOver(j)
      BY <2>4 DEF DeleteArtifact, Available
    <3>3. QED
      BY <1>1, <2>1, <2>4, <3>1, <3>2, ChooseStep DEF DeleteArtifact
  <2>5. QED
    BY <1>3, <2>2, <2>3, <2>4
<1>4. ASSUME NEW i \in Ids, RemoveObject(d, i) PROVE VaultInv'
  <2>1. /\ i \in removal[d].todo /\ vault' = Without(report[i].by)
        /\ removal' = [removal EXCEPT ![d].todo = @ \ {i}] /\ report' = report
    BY <1>4 DEF RemoveObject
  <2>2. Accepted(i) /\ RetentionOver(i) /\ Settled(report[i].by) /\ report[i].by \in Uploads
    BY <2>1 DEF VaultInv, EvidenceTypeOK, Row, RemovalInv, ReportInv, Accepted
  <2>3. vault' = vault \ {report[i].by}
    BY <2>1, <2>2 DEF RetentionOver, Without, Locked
  <2>4. EvidenceTypeOK'
    BY <1>1, <2>1, <2>3 DEF VaultInv, EvidenceTypeOK
  <2>5. UploadInv'
    BY <1>1, <2>2, <2>3 DEF VaultInv, UploadInv, Settled
  <2>6. ReportInv' /\ DeletedMeansGone'
    BY <1>1, <2>1, <2>3 DEF VaultInv, ReportInv, DeletedMeansGone, Settled, Accepted
  <2>7. RemovalInv'
    BY <1>1, <2>1, <2>3 DEF VaultInv, EvidenceTypeOK, RemovalInv, RetentionOver, Accepted
  <2>8. EvidenceKept'
    BY <1>1, <2>1, <2>2, <2>3 DEF VaultInv, EvidenceKept, RetentionOver, Accepted
  <2>9. QED
    BY <2>4, <2>5, <2>6, <2>7, <2>8 DEF VaultInv
<1>5. CASE CommitRemoval(d)
  <2>1. /\ removal[d].todo = {} /\ removal' = [removal EXCEPT ![d] = Idle] /\ vault' = vault
        /\ report' = [i \in Ids |-> [report[i] EXCEPT !.deleted = @ \/ i \in removal[d].rows]]
    BY <1>5 DEF CommitRemoval, Finished
  <2>2. \A i \in Ids : /\ report'[i].by = report[i].by
                       /\ report'[i].deleted = (report[i].deleted \/ i \in removal[d].rows)
                       /\ report'[i] \in Row
    BY <2>1 DEF VaultInv, EvidenceTypeOK, Row
  <2>3. EvidenceTypeOK'
    BY <1>1, <1>2, <2>1, <2>2 DEF VaultInv, EvidenceTypeOK
  <2>4. UploadInv' /\ ReportInv'
    <3>1. \A i \in Ids : report'[i].deleted => report[i].deleted \/ Accepted(i)
      BY <2>2 DEF VaultInv, RemovalInv
    <3>2. UploadInv'
      BY <1>1, <2>1 DEF VaultInv, UploadInv
    <3>3. \A i \in Ids : report'[i].by = report[i].by
      BY <2>2
    <3>4. QED
      BY <1>1, <3>1, <3>2, <3>3 DEF VaultInv, ReportInv, Settled, Accepted
  <2>5. RemovalInv'
    <3>1. \A e \in Removals : removal[e].rows \subseteq Ids
      BY DEF VaultInv, EvidenceTypeOK
    <3>2. QED
      BY <1>1, <1>2, <2>1, <2>2, <3>1 DEF VaultInv, EvidenceTypeOK, RemovalInv, RetentionOver, Accepted
  <2>6. EvidenceKept'
    BY <1>1, <2>1, <2>2 DEF VaultInv, EvidenceKept, Accepted
  <2>7. DeletedMeansGone'
    <3>1. \A i \in Ids : report'[i].deleted => report[i].deleted \/ i \in removal[d].rows
      BY <2>2
    <3>2. \A i \in removal[d].rows : report[i].by \notin vault
      BY <2>1 DEF VaultInv, RemovalInv
    <3>3. QED
      BY <2>1, <2>2, <3>1, <3>2, SMTT(30) DEF VaultInv, DeletedMeansGone
  <2>8. QED
    BY <2>3, <2>4, <2>5, <2>6, <2>7 DEF VaultInv
<1>6. QED
  BY <1>3, <1>4, <1>5

\* Retention ends for some object, or the host and what it is trusted with change.
LEMMA OutsideStep ==
    ASSUME VaultInv,
           \/ \E u \in Uploads : RetentionEnds(u)
           \/ CreateHost \/ DeleteHost \/ RevokeToken \/ IssueToken \/ RevokeKey \/ RegisterKey
    PROVE  VaultInv'
<1>1. UNCHANGED <<deployment, upload, vault, report, removal, unsure, seen>>
  BY DEF RetentionEnds, CreateHost, DeleteHost, RevokeToken, IssueToken, RevokeKey, RegisterKey,
         Revoke, Issue
<1>2. expired \subseteq expired' /\ expired' \subseteq Uploads
  BY DEF RetentionEnds, CreateHost, DeleteHost, RevokeToken, IssueToken, RevokeKey, RegisterKey,
         Revoke, Issue, VaultInv, EvidenceTypeOK
<1>3. trusted' \subseteq {"token", "key"}
  BY DEF RetentionEnds, CreateHost, DeleteHost, RevokeToken, IssueToken, RevokeKey, RegisterKey,
         Revoke, Issue, VaultInv, EvidenceTypeOK
<1>4. host' \in Host
  BY DEF RetentionEnds, CreateHost, DeleteHost, RevokeToken, IssueToken, RevokeKey, RegisterKey,
         Revoke, Issue, VaultInv, EvidenceTypeOK, Enrolled, NoHost, Host
<1>5. EvidenceTypeOK'
  BY <1>1, <1>2, <1>3, <1>4 DEF VaultInv, EvidenceTypeOK
<1>6. UploadInv' /\ ReportInv' /\ RemovalInv' /\ EvidenceKept' /\ DeletedMeansGone'
  BY <1>1, <1>2 DEF VaultInv, UploadInv, ReportInv, RemovalInv, RetentionOver, EvidenceKept,
                    DeletedMeansGone, Settled, Accepted
<1>7. QED
  BY <1>5, <1>6 DEF VaultInv

LEMMA VaultStep == VaultInv /\ [EvidenceNext]_evidenceVars => VaultInv'
<1> SUFFICES ASSUME VaultInv, [EvidenceNext]_evidenceVars PROVE VaultInv'
  OBVIOUS
<1>1. CASE UNCHANGED evidenceVars
  BY <1>1 DEF evidenceVars, VaultInv, EvidenceTypeOK, UploadInv, ReportInv, RemovalInv,
              RetentionOver, EvidenceKept, DeletedMeansGone, Settled, Accepted
<1>2. CASE EvidenceNext
  BY <1>2, UploadStep, CommitVault, RemovalStep, OutsideStep DEF EvidenceNext
<1>3. QED
  BY <1>1, <1>2

-----------------------------------------------------------------------------
(* The inventory *)

\* What an upload carries never changes; its reads do not either but in the steps that read.
Kept(u) ==
    /\ upload'[u].at = upload[u].at
    /\ upload'[u].lists = upload[u].lists /\ upload'[u].listed = upload[u].listed

SameRead(u) == upload'[u].read = upload[u].read

\* The two steps that read set "pc" and "read".
LEMMA ReadsAre ==
    ASSUME upload \in [Uploads -> Upload], NEW u \in Uploads, ReadHost(u) \/ ReadInventory(u)
    PROVE  \E pc, read : upload' = [upload EXCEPT ![u].pc = pc, ![u].read = read]
<1>1. CASE ReadHost(u) /\ Admissible(u)
  BY <1>1 DEF ReadHost
<1>2. CASE ReadHost(u) /\ ~Admissible(u)
  <2>1. upload' = [upload EXCEPT ![u].pc = Failing(u)]
    BY <1>2 DEF ReadHost, Go
  <2>2. upload' = [upload EXCEPT ![u].pc = Failing(u), ![u].read = upload[u].read]
    BY <2>1 DEF Upload
  <2> QED
    BY <2>2
<1>3. CASE ReadInventory(u)
  BY <1>3 DEF ReadInventory
<1> QED
  BY <1>1, <1>2, <1>3

\* The newest report stays shown while nothing is accepted and no row of the inventory changes.
LEMMA ShownStays ==
    ASSUME NewestInventoryShown, Ingested' = Ingested, host'.inventory = host.inventory,
           \A u \in Ingested : Kept(u) /\ SameRead(u) /\ seen'[u] = seen[u]
    PROVE  NewestInventoryShown'
<1>1. Newest' = Newest /\ Newest \subseteq Ingested
  BY DEF Newest, Kept
<1>2. \A u \in Ingested : SetBack(u)' <=> SetBack(u)
  BY <1>1 DEF SetBack, Kept, SameRead
<1>3. \A u \in Ingested, a \in Applications : Contradicted(u, a)' <=> Contradicted(u, a)
  BY DEF Contradicted, Kept
<1>4. \A u \in Ingested : IsShown(u)' <=> IsShown(u)
  BY <1>3 DEF IsShown, Kept
<1> QED
  BY <1>1, <1>2, <1>4 DEF NewestInventoryShown, Kept

\* Nothing is accepted, and no upload but those in flight goes on to commit.
LEMMA QuietStep ==
    ASSUME InventoryInv, Ingested' = Ingested,
           host'.last = host.last, host'.inventory = host.inventory, seen' = seen,
           \A u \in Ingested : u \in Uploads,
           \A u \in Uploads : /\ Kept(u) /\ SameRead(u)
                              /\ InFlight(u)' => InFlight(u) /\ upload'[u].pc = upload[u].pc
    PROVE  InventoryInv'
<1>1. \A t : Reported(t)' <=> Reported(t)
  BY DEF Reported, Kept
<1>2. ReadInv'
  <2>1. Reported(host.last)'
    BY DEF InventoryInv, ReadInv, Reported, Kept
  <2>2. ASSUME NEW u \in Uploads, InFlight(u)' PROVE Reported(upload[u].read.last)'
    <3>1. InFlight(u) /\ upload'[u].read = upload[u].read
      BY <2>2 DEF SameRead
    <3>2. Reported(upload[u].read.last)
      BY <3>1 DEF InventoryInv, ReadInv
    <3> QED
      BY <3>1, <3>2 DEF Reported, Kept
  <2> QED
    BY <2>1, <2>2 DEF ReadInv
<1>3. SeenInv'
  BY DEF InventoryInv, SeenInv
<1>4. RowsInv'
  <2> SUFFICES ASSUME NEW u \in Uploads, upload'[u].pc = "computed",
                      Synchronizes(u, upload[u].read.last)', NEW a \in Applications,
                      ~(Installed(a) <=> ReadAsInstalled(u, a))'
               PROVE  \E v \in Ingested : /\ v \notin seen[u] /\ upload'[v].lists
                                          /\ a \in upload'[v].listed <=> Installed(a)'
    BY DEF RowsInv
  <2>1. upload[u].pc = "computed"
    BY DEF InFlight
  <2>2. Synchronizes(u, upload[u].read.last) /\ ~(Installed(a) <=> ReadAsInstalled(u, a))
    BY DEF Synchronizes, Kept, SameRead, Installed, ReadAsInstalled
  <2>3. PICK v \in Ingested : /\ v \notin seen[u] /\ upload[v].lists
                              /\ a \in upload[v].listed <=> Installed(a)
    BY <2>1, <2>2 DEF InventoryInv, RowsInv
  <2> QED
    BY <2>3 DEF Kept, Installed
<1>5. NewestInventoryShown'
  BY ShownStays DEF InventoryInv
<1> QED
  BY <1>2, <1>3, <1>4, <1>5 DEF InventoryInv

\* An upload that is on its way is not that of an accepted report.
LEMMA OnItsWay ==
    ASSUME VaultInv, NEW u \in Uploads, ~Settled(u) PROVE u \notin Ingested
BY DEF VaultInv, ReportInv, Ingested, Accepted

\* A request that reads the host, and goes on to commit or to read the inventory.
LEMMA ReadHostStep ==
    ASSUME VaultInv, InventoryInv, NEW u \in Uploads, ReadHost(u), Admissible(u)
    PROVE  InventoryInv'
<1>1. /\ UNCHANGED <<report, host>> /\ ~Settled(u)
      /\ upload \in [Uploads -> Upload] /\ seen \in [Uploads -> SUBSET Uploads]
      /\ seen' = [seen EXCEPT ![u] = Ingested]
  BY DEF ReadHost, Settled, VaultInv, EvidenceTypeOK
<1>2. /\ \A v \in Uploads : Kept(v) /\ (v # u => upload'[v] = upload[v])
      /\ upload'[u].read = host
      /\ upload'[u].pc = "computed" => ~Synchronizes(u, host.last)
  <2> DEFINE pc == IF Synchronizes(u, host.last) THEN "reading" ELSE "computed"
  <2>1. upload' = [upload EXCEPT ![u].pc = pc, ![u].read = host]
    BY DEF ReadHost
  <2>2. pc = "computed" => ~Synchronizes(u, host.last)
    OBVIOUS
  <2> HIDE DEF pc
  <2> QED
    BY <1>1, <2>1, <2>2 DEF Upload, Kept
<1>3. Ingested' = Ingested /\ Ingested \subseteq Uploads /\ u \notin Ingested
  BY <1>1, OnItsWay, IngestedUploads DEF Ingested, VaultInv
<1>4. ReadInv'
  <2>1. Reported(host.last) /\ Reported(host.last)'
    BY <1>1, <1>2, <1>3 DEF InventoryInv, ReadInv, Reported, Kept
  <2>2. ASSUME NEW v \in Uploads, InFlight(v)' PROVE Reported(upload[v].read.last)'
    <3>1. CASE v = u
      BY <1>1, <1>2, <2>1, <3>1 DEF Reported
    <3>2. CASE v # u
      <4>1. Reported(upload[v].read.last)
        BY <1>2, <2>2, <3>2 DEF InventoryInv, ReadInv, InFlight
      <4> QED
        BY <1>2, <1>3, <3>2, <4>1 DEF Reported, Kept
    <3> QED
      BY <3>1, <3>2
  <2> QED
    BY <2>1, <2>2 DEF ReadInv
<1>5. SeenInv'
  BY <1>1, <1>3 DEF InventoryInv, SeenInv
<1>6. RowsInv'
  <2> SUFFICES ASSUME NEW v \in Uploads, upload'[v].pc = "computed",
                      Synchronizes(v, upload[v].read.last)', NEW a \in Applications,
                      ~(Installed(a) <=> ReadAsInstalled(v, a))'
               PROVE  \E w \in Ingested' : /\ w \notin seen'[v] /\ upload'[w].lists
                                           /\ a \in upload'[w].listed <=> Installed(a)'
    BY DEF RowsInv
  <2>1. v # u
    BY <1>2 DEF Synchronizes, Kept
  <2>2. upload'[v] = upload[v] /\ seen'[v] = seen[v]
    BY <1>1, <1>2, <2>1
  <2>3. /\ upload[v].pc = "computed" /\ Synchronizes(v, upload[v].read.last)
        /\ ~(Installed(a) <=> ReadAsInstalled(v, a))
    BY <1>1, <2>2 DEF Synchronizes, Installed, ReadAsInstalled
  <2>4. PICK w \in Ingested : /\ w \notin seen[v] /\ upload[w].lists
                              /\ a \in upload[w].listed <=> Installed(a)
    BY <2>3 DEF InventoryInv, RowsInv
  <2> QED
    BY <1>1, <1>2, <1>3, <2>2, <2>4 DEF Kept, Installed
<1>7. NewestInventoryShown'
  BY <1>1, <1>2, <1>3, ShownStays DEF InventoryInv, SameRead
<1> QED
  BY <1>4, <1>5, <1>6, <1>7 DEF InventoryInv

\* A request that reads the inventory knows it as it is.
LEMMA ReadInventoryStep ==
    ASSUME VaultInv, InventoryInv, NEW u \in Uploads, ReadInventory(u)
    PROVE  InventoryInv'
<1>1. /\ UNCHANGED <<report, host, seen>> /\ ~Settled(u) /\ InFlight(u)
      /\ upload \in [Uploads -> Upload] /\ upload[u] \in Upload /\ upload[u].read \in Host
  BY DEF ReadInventory, Settled, InFlight, VaultInv, EvidenceTypeOK, Upload
<1>2. /\ \A v \in Uploads : Kept(v) /\ upload'[v].read.last = upload[v].read.last
                            /\ (v # u => upload'[v] = upload[v])
      /\ upload'[u].read.inventory = host.inventory
  <2> DEFINE read == [upload[u].read EXCEPT !.inventory = host.inventory]
  <2>1. upload' = [upload EXCEPT ![u].pc = "computed", ![u].read = read]
    BY DEF ReadInventory
  <2>2. read.last = upload[u].read.last /\ read.inventory = host.inventory
    BY <1>1 DEF Host
  <2> HIDE DEF read
  <2> QED
    BY <1>1, <2>1, <2>2 DEF Upload, Kept
<1>3. Ingested' = Ingested /\ Ingested \subseteq Uploads /\ u \notin Ingested
  BY <1>1, OnItsWay, IngestedUploads DEF Ingested, VaultInv
<1>4. ReadInv'
  <2>1. Reported(host.last)'
    BY <1>1, <1>2, <1>3 DEF InventoryInv, ReadInv, Reported, Kept
  <2>2. ASSUME NEW v \in Uploads, InFlight(v)' PROVE Reported(upload[v].read.last)'
    <3>1. InFlight(v)
      BY <1>1, <1>2, <2>2 DEF InFlight
    <3>2. Reported(upload[v].read.last)
      BY <3>1 DEF InventoryInv, ReadInv
    <3> QED
      BY <1>2, <1>3, <3>2 DEF Reported, Kept
  <2> QED
    BY <2>1, <2>2 DEF ReadInv
<1>5. SeenInv'
  BY <1>1, <1>3 DEF InventoryInv, SeenInv
<1>6. RowsInv'
  <2> SUFFICES ASSUME NEW v \in Uploads, upload'[v].pc = "computed",
                      Synchronizes(v, upload[v].read.last)', NEW a \in Applications,
                      ~(Installed(a) <=> ReadAsInstalled(v, a))'
               PROVE  \E w \in Ingested' : /\ w \notin seen'[v] /\ upload'[w].lists
                                           /\ a \in upload'[w].listed <=> Installed(a)'
    BY DEF RowsInv
  <2>1. v # u
    BY <1>1, <1>2 DEF Installed, ReadAsInstalled
  <2>2. upload'[v] = upload[v]
    BY <1>2, <2>1
  <2>3. /\ upload[v].pc = "computed" /\ Synchronizes(v, upload[v].read.last)
        /\ ~(Installed(a) <=> ReadAsInstalled(v, a))
    BY <1>1, <2>2 DEF Synchronizes, Installed, ReadAsInstalled
  <2>4. PICK w \in Ingested : /\ w \notin seen[v] /\ upload[w].lists
                              /\ a \in upload[w].listed <=> Installed(a)
    BY <2>3 DEF InventoryInv, RowsInv
  <2> QED
    BY <1>1, <1>2, <1>3, <2>4 DEF Kept, Installed
<1>7. NewestInventoryShown'
  BY <1>1, <1>2, <1>3, ShownStays DEF InventoryInv, SameRead
<1> QED
  BY <1>4, <1>5, <1>6, <1>7 DEF InventoryInv

\* What a commit leaves in a row: what it was, or what the report lists.
LEMMA RowWritten ==
    ASSUME VaultInv, NEW u \in Uploads, Commit(u), NEW a \in Applications
    PROVE  /\ host'.inventory[a] = host.inventory[a]
              \/ (Synchronizes(u, upload[u].read.last) /\ (Installed(a)' <=> a \in upload[u].listed))
           /\ Synchronizes(u, upload[u].read.last) =>
                 \/ Installed(a)' <=> a \in upload[u].listed
                 \/ /\ host'.inventory[a] = host.inventory[a]
                    /\ ReadAsInstalled(u, a) <=> a \in upload[u].listed
<1>1. host'.inventory = IF Synchronizes(u, upload[u].read.last) THEN Synchronized(u) ELSE host.inventory
  BY DEF Commit, Written
<1>2. CASE ~Synchronizes(u, upload[u].read.last)
  BY <1>1, <1>2
<1>3. CASE Synchronizes(u, upload[u].read.last)
  <2>1. host'.inventory[a] = IF a \in upload[u].listed /\ ~ReadAsInstalled(u, a) THEN "installed"
                             ELSE IF a \notin upload[u].listed /\ ReadAsInstalled(u, a) THEN "removed"
                             ELSE host.inventory[a]
    BY <1>1, <1>3 DEF Synchronized, ReadAsInstalled
  <2> QED
    BY <1>3, <2>1 DEF Installed
<1> QED
  BY <1>2, <1>3

\* A commit shows its own report if that is a newest one; otherwise it changes only what it
\* contradicts, or was misled by a last scan that had been set back.
LEMMA CommitInventory ==
    ASSUME VaultInv, InventoryInv, NEW u \in Uploads, Commit(u)
    PROVE  InventoryInv'
<1>1. /\ upload \in [Uploads -> Upload] /\ \A v \in Uploads : upload[v] \in Upload
      /\ report \in [Ids -> Row] /\ ~Settled(u) /\ InFlight(u) /\ upload[u].pc = "computed"
      /\ seen' = seen /\ u # Nobody
  BY EvidenceAssumption DEF VaultInv, EvidenceTypeOK, Commit, Settled, InFlight
<1>2. \A v \in Uploads : /\ Kept(v) /\ SameRead(v)
                         /\ InFlight(v)' => v # u /\ InFlight(v) /\ upload'[v].pc = upload[v].pc
  <2>1. PICK pc \in {"done", "failed"} : upload' = [upload EXCEPT ![u].pc = pc]
    BY DEF Commit, Go
  <2>2. upload'[u].pc = pc /\ Kept(u) /\ SameRead(u) /\ \A v \in Uploads : v # u => upload'[v] = upload[v]
    BY <1>1, <2>1 DEF Upload, Kept, SameRead
  <2> QED
    BY <2>2 DEF InFlight, Kept, SameRead
<1>3. Ingested' = Ingested \union {u} /\ Ingested \subseteq Uploads /\ u \notin Ingested
  <2>1. /\ upload[u].id \in Ids /\ report[upload[u].id].by = Nobody
        /\ report' = [report EXCEPT ![upload[u].id].by = u]
    BY <1>1 DEF Commit, Conflict, Accepted, Upload
  <2>2. /\ report'[upload[u].id].by = u
        /\ \A i \in Ids : i # upload[u].id => report'[i] = report[i]
    BY <1>1, <2>1 DEF Row
  <2>3. Ingested' = Ingested \union {u}
    BY <1>1, <2>1, <2>2 DEF Ingested
  <2> QED
    BY <1>1, <2>3, OnItsWay, IngestedUploads DEF VaultInv
<1>4. \A v \in Uploads : u \notin seen[v] /\ seen[v] \subseteq Ingested
  BY <1>3 DEF InventoryInv, SeenInv
<1>5. /\ upload[u].at \in Nat /\ upload[u].at > 0 /\ upload[u].read.last \in Nat
      /\ \A v \in Uploads : upload[v].at \in Nat /\ upload[v].read.last \in Nat
  BY <1>1, EvidenceAssumption DEF Upload, Times, Host
<1>6. ReadInv'
  <2>1. host'.last \in {host.last, upload[u].at}
    BY DEF Commit, Written
  <2>2. Reported(host.last)'
    BY <1>2, <1>3, <2>1 DEF InventoryInv, ReadInv, Reported, Kept
  <2>3. ASSUME NEW v \in Uploads, InFlight(v)' PROVE Reported(upload[v].read.last)'
    <3>1. Reported(upload[v].read.last)
      BY <1>2, <2>3 DEF InventoryInv, ReadInv
    <3>2. upload'[v].read = upload[v].read
      BY <1>2 DEF SameRead
    <3> QED
      BY <1>2, <1>3, <3>1, <3>2 DEF Reported, Kept
  <2> QED
    BY <2>2, <2>3 DEF ReadInv
<1>7. SeenInv'
  BY <1>1, <1>3, <1>4 DEF SeenInv
<1>8. RowsInv'
  <2> SUFFICES ASSUME NEW v \in Uploads, upload'[v].pc = "computed",
                      Synchronizes(v, upload[v].read.last)', NEW a \in Applications,
                      ~(Installed(a) <=> ReadAsInstalled(v, a))'
               PROVE  \E w \in Ingested' : /\ w \notin seen'[v] /\ upload'[w].lists
                                           /\ a \in upload'[w].listed <=> Installed(a)'
    BY DEF RowsInv
  <2>1. v # u /\ upload[v].pc = "computed" /\ upload'[v].read = upload[v].read
    BY <1>2 DEF InFlight, SameRead
  <2>2. Synchronizes(v, upload[v].read.last)
    BY <1>2, <2>1 DEF Synchronizes, Kept
  <2>3. ~(Installed(a)' <=> ReadAsInstalled(v, a))
    BY <2>1 DEF ReadAsInstalled
  <2>4. CASE host'.inventory[a] = host.inventory[a]
    <3>1. ~(Installed(a) <=> ReadAsInstalled(v, a))
      BY <2>3, <2>4 DEF Installed
    <3>2. PICK w \in Ingested : /\ w \notin seen[v] /\ upload[w].lists
                                /\ a \in upload[w].listed <=> Installed(a)
      BY <2>1, <2>2, <3>1 DEF InventoryInv, RowsInv
    <3> QED
      BY <1>1, <1>2, <1>3, <2>4, <3>2 DEF Kept, Installed
  <2>5. CASE Synchronizes(u, upload[u].read.last) /\ (Installed(a)' <=> a \in upload[u].listed)
    <3>1. u \in Ingested' /\ u \notin seen'[v] /\ upload'[u].lists
      BY <1>1, <1>2, <1>3, <1>4, <2>5 DEF Synchronizes, Kept
    <3>2. a \in upload'[u].listed <=> Installed(a)'
      BY <1>2, <2>5 DEF Kept
    <3> QED
      BY <3>1, <3>2
  <2> QED
    BY <2>4, <2>5, RowWritten
<1>9. ASSUME NEW v \in Uploads, NEW a \in Applications, Contradicted(v, a)
      PROVE  Contradicted(v, a)'
  BY <1>1, <1>2, <1>3, <1>9 DEF Contradicted, Kept
<1>10. CASE \A v \in Ingested : upload[v].at <= upload[u].at
  <2>1. u \in Newest'
    BY <1>2, <1>3, <1>5, <1>10 DEF Newest, Kept
  <2>2. Reported(upload[u].read.last)
    BY <1>1 DEF InventoryInv, ReadInv
  <2>3. upload[u].at >= upload[u].read.last
    BY <1>3, <1>5, <1>10, <2>2 DEF Reported
  <2>4. ASSUME upload[u].lists PROVE IsShown(u)'
    <3>1. Synchronizes(u, upload[u].read.last)
      BY <2>3, <2>4 DEF Synchronizes
    <3> SUFFICES ASSUME NEW a \in Applications, ~(Installed(a)' <=> a \in upload[u].listed)
                 PROVE  Contradicted(u, a)'
      BY <1>2 DEF IsShown, Installed, Kept
    <3>2. host'.inventory[a] = host.inventory[a] /\ (ReadAsInstalled(u, a) <=> a \in upload[u].listed)
      BY <3>1, RowWritten
    <3>3. ~(Installed(a) <=> ReadAsInstalled(u, a))
      BY <3>2 DEF Installed
    <3>4. PICK w \in Ingested : /\ w \notin seen[u] /\ upload[w].lists
                                /\ a \in upload[w].listed <=> Installed(a)
      BY <1>1, <3>1, <3>3 DEF InventoryInv, RowsInv
    <3>5. u \notin seen[w] /\ (a \in upload[w].listed) # (a \in upload[u].listed)
      BY <1>3, <1>4, <3>2, <3>3, <3>4
    <3> QED
      BY <1>9, <3>4, <3>5 DEF Contradicted
  <2>5. NewestInventoryShown'
    BY <1>2, <2>1, <2>4 DEF NewestInventoryShown, Kept
  <2> QED
    BY <1>6, <1>7, <1>8, <2>5 DEF InventoryInv
<1>11. CASE \E v \in Ingested : upload[v].at > upload[u].at
  <2>1. Newest' = Newest /\ Newest \subseteq Ingested
        /\ \A n \in Newest : upload[n].at > upload[u].at
    BY <1>2, <1>3, <1>5, <1>11 DEF Newest, Kept
  <2> SUFFICES ASSUME \A n \in Newest : upload'[n].lists, Newest # {},
                      \A v \in Ingested' : ~SetBack(v)'
               PROVE  \E n \in Newest : IsShown(n)'
    BY <1>6, <1>7, <1>8, <2>1 DEF InventoryInv, NewestInventoryShown
  <2>2. \A v \in Ingested' : ~SetBack(v)
    BY <1>1, <1>2, <1>3, <2>1 DEF SetBack, Kept, SameRead
  <2>3. PICK n \in Newest : IsShown(n)
    BY <1>2, <1>3, <2>1, <2>2 DEF InventoryInv, NewestInventoryShown, Kept
  <2>4. IsShown(n)'
    <3> SUFFICES ASSUME NEW a \in Applications, ~(Installed(a)' <=> a \in upload[n].listed)
                 PROVE  Contradicted(n, a)'
      BY <1>2, <1>3, <2>1 DEF IsShown, Installed, Kept
    <3>1. CASE host'.inventory[a] = host.inventory[a]
      <4>1. (host.inventory[a] = "installed") # (a \in upload[n].listed)
        BY <3>1 DEF Installed
      <4> QED
        BY <1>3, <1>9, <2>1, <2>3, <4>1 DEF IsShown
    <3>2. CASE Synchronizes(u, upload[u].read.last) /\ (Installed(a)' <=> a \in upload[u].listed)
      <4>1. n \notin seen[u] /\ u \notin seen[n]
        BY <1>3, <1>4, <1>5, <2>1, <2>2, <3>2 DEF SetBack, Synchronizes
      <4>2. upload[u].lists /\ (a \in upload[u].listed) # (a \in upload[n].listed)
        BY <3>2 DEF Synchronizes
      <4> QED
        BY <1>1, <1>2, <1>3, <2>1, <4>1, <4>2 DEF Contradicted, Kept
    <3> QED
      BY <3>1, <3>2, RowWritten
  <2> QED
    BY <2>4
<1> QED
  BY <1>3, <1>5, <1>10, <1>11

LEMMA InventoryStep ==
    ASSUME VaultInv, InventoryInv, [EvidenceNext]_evidenceVars
    PROVE  InventoryInv'
<1>1. EvidenceTypeOK /\ \A u \in Ingested : u \in Uploads
  BY IngestedUploads DEF VaultInv
<1>2. ASSUME NEW u \in Uploads, Commit(u) PROVE InventoryInv'
  BY <1>2, CommitInventory
<1>3. ASSUME NEW u \in Uploads, ReadInventory(u) \/ (ReadHost(u) /\ Admissible(u))
      PROVE  InventoryInv'
  BY <1>3, ReadHostStep, ReadInventoryStep
<1>4. ASSUME NEW u \in Uploads,
             \/ Receive(u) \/ Store(u) \/ CommitFails(u) \/ Discard(u) \/ UploadStops(u)
             \/ ReadHost(u) /\ ~Admissible(u)
      PROVE  InventoryInv'
  <2>1. UNCHANGED <<report, host, seen>>
    BY <1>4 DEF Receive, Store, CommitFails, Discard, UploadStops, ReadHost
  <2>2. PICK pc \in {"verified", "stored", "failed", "done"} : upload' = [upload EXCEPT ![u].pc = pc]
    BY <1>4 DEF Receive, Store, CommitFails, Discard, UploadStops, ReadHost, Go, Failing
  <2>3. \A v \in Uploads : /\ Kept(v) /\ SameRead(v)
                           /\ InFlight(v)' => InFlight(v) /\ upload'[v].pc = upload[v].pc
    BY <1>1, <2>2 DEF EvidenceTypeOK, Upload, Kept, SameRead, InFlight
  <2>4. Ingested' = Ingested
    BY <2>1 DEF Ingested
  <2> QED
    BY <1>1, <2>1, <2>3, <2>4, QuietStep
<1>5. ASSUME UNCHANGED <<upload, seen>>, host'.last = host.last, host'.inventory = host.inventory,
             \A i \in Ids : report'[i].by = report[i].by
      PROVE  InventoryInv'
  <2>1. \A v \in Uploads : /\ Kept(v) /\ SameRead(v)
                           /\ InFlight(v)' => InFlight(v) /\ upload'[v].pc = upload[v].pc
    BY <1>5 DEF Kept, SameRead, InFlight
  <2>2. Ingested' = Ingested
    BY <1>5 DEF Ingested
  <2> QED
    BY <1>1, <1>5, <2>1, <2>2, QuietStep
<1>6. ASSUME NEW d \in Removals, CommitRemoval(d) PROVE InventoryInv'
  <2>1. UNCHANGED <<upload, host, seen>>
        /\ report' = [i \in Ids |-> [report[i] EXCEPT !.deleted = @ \/ i \in removal[d].rows]]
    BY <1>6 DEF CommitRemoval
  <2>2. \A i \in Ids : report'[i].by = report[i].by
    BY <1>1, <2>1 DEF EvidenceTypeOK, Row
  <2> QED
    BY <1>5, <2>1, <2>2
<1>7. ASSUME NEW d \in Removals,
             \/ PurgeExpired(d) \/ RemovalFails(d)
             \/ \E i \in Ids : DeleteArtifact(d, i) \/ RemoveObject(d, i)
      PROVE  InventoryInv'
  BY <1>5, <1>7 DEF PurgeExpired, RemovalFails, DeleteArtifact, RemoveObject
<1>8. CASE \/ \E u \in Uploads : RetentionEnds(u)
           \/ RevokeToken \/ IssueToken \/ RevokeKey \/ RegisterKey
  BY <1>5, <1>8 DEF RetentionEnds, RevokeToken, IssueToken, RevokeKey, RegisterKey, Revoke, Issue
<1>9. CASE CreateHost \/ DeleteHost
  BY <1>1, <1>5, <1>9 DEF CreateHost, DeleteHost, Enrolled, NoHost, EvidenceTypeOK, Host
<1>10. CASE UNCHANGED evidenceVars
  BY <1>5, <1>10 DEF evidenceVars
<1> QED
  BY <1>2, <1>3, <1>4, <1>6, <1>7, <1>8, <1>9, <1>10 DEF EvidenceNext

-----------------------------------------------------------------------------
(* The theorems *)

LEMMA EvidenceInvariant == EvidenceSpec => []EvidenceInv
<1>1. EvidenceInv /\ [EvidenceNext]_evidenceVars => EvidenceInv'
  BY VaultStep, InventoryStep DEF EvidenceInv
<1>2. QED
  BY <1>1, EvidenceInitially, PTL DEF EvidenceSpec

\* Every reachable state has its types; only bundles are in the vault.
THEOREM EvidenceTypeCorrect == EvidenceSpec => []EvidenceTypeOK
<1>1. EvidenceInv => EvidenceTypeOK
  BY DEF EvidenceInv, VaultInv
<1>2. QED
  BY <1>1, EvidenceInvariant, PTL

\* Accepted evidence stays for its retention period, whatever number of uploads and
\* removals overlap, fail and are repeated.
THEOREM EvidenceIsKept == EvidenceSpec => []EvidenceKept
<1>1. EvidenceInv => EvidenceKept
  BY DEF EvidenceInv, VaultInv
<1>2. QED
  BY <1>1, EvidenceInvariant, PTL

\* What the console reports as deleted is not in the vault.
THEOREM DeletedIsGone == EvidenceSpec => []DeletedMeansGone
<1>1. EvidenceInv => DeletedMeansGone
  BY DEF EvidenceInv, VaultInv
<1>2. QED
  BY <1>1, EvidenceInvariant, PTL

\* The applications of the newest report are shown, and no others, whatever reports are
\* ingested before, after and beside it; but where reports ingested beside it contradict
\* it, and after an older report has set the last scan back for another one.
THEOREM NewestIsShown == EvidenceSpec => []NewestInventoryShown
<1>1. EvidenceInv => NewestInventoryShown
  BY DEF EvidenceInv, InventoryInv
<1>2. QED
  BY <1>1, EvidenceInvariant, PTL

-----------------------------------------------------------------------------
(* The archive *)

\* A report was accepted from an upload that carries it: no two have the same.
OwnRows == \A i \in Ids : Accepted(i) => upload[report[i].by].id = i

\* What an upload carries never changes, and an accepted report stays its own.
Carried ==
    /\ \A u \in Uploads : upload'[u].id = upload[u].id /\ upload'[u].bundle = upload[u].bundle
    /\ (\A i \in Ids : report'[i].by = report[i].by) \/ \E u \in Uploads : Commit(u)

LEMMA CarriedStays == VaultInv /\ [EvidenceNext]_evidenceVars => Carried
<1> SUFFICES ASSUME VaultInv, [EvidenceNext]_evidenceVars PROVE Carried
  OBVIOUS
<1>0. upload \in [Uploads -> Upload] /\ report \in [Ids -> Row]
  BY DEF VaultInv, EvidenceTypeOK
<1>1. ASSUME NEW u \in Uploads, NEW pc,
             \/ upload' = [upload EXCEPT ![u].pc = pc]
             \/ \E read : upload' = [upload EXCEPT ![u].pc = pc, ![u].read = read]
      PROVE  \A v \in Uploads : upload'[v].id = upload[v].id /\ upload'[v].bundle = upload[v].bundle
  BY <1>0, <1>1 DEF Upload
<1>2. ASSUME NEW u \in Uploads, Receive(u) \/ Store(u) \/ CommitFails(u) \/ Discard(u) \/ UploadStops(u)
      PROVE  Carried
  <2>1. UNCHANGED report /\ \E pc : upload' = [upload EXCEPT ![u].pc = pc]
    BY <1>2 DEF Receive, Store, CommitFails, Discard, UploadStops, Go
  <2> QED
    BY <1>1, <2>1 DEF Carried
<1>3. ASSUME NEW u \in Uploads, ReadHost(u) \/ ReadInventory(u) PROVE Carried
  <2>1. \E pc, read : upload' = [upload EXCEPT ![u].pc = pc, ![u].read = read]
    BY <1>0, <1>3, ReadsAre
  <2>2. UNCHANGED report
    BY <1>3 DEF ReadHost, ReadInventory
  <2> QED
    BY <1>1, <2>1, <2>2 DEF Carried
<1>4. ASSUME NEW u \in Uploads, Commit(u) PROVE Carried
  <2>1. \E pc : upload' = [upload EXCEPT ![u].pc = pc]
    BY <1>4 DEF Commit, Go
  <2> QED
    BY <1>1, <1>4, <2>1 DEF Carried
<1>5. ASSUME UNCHANGED <<upload, report>> PROVE Carried
  BY <1>5 DEF Carried
<1>6. ASSUME NEW u \in Uploads, RetentionEnds(u) PROVE Carried
  BY <1>5, <1>6 DEF RetentionEnds
<1>7. ASSUME NEW d \in Removals, PurgeExpired(d) \/ RemovalFails(d) PROVE Carried
  BY <1>5, <1>7 DEF PurgeExpired, RemovalFails
<1>8. ASSUME NEW d \in Removals, NEW i \in Ids, DeleteArtifact(d, i) \/ RemoveObject(d, i)
      PROVE  Carried
  BY <1>5, <1>8 DEF DeleteArtifact, RemoveObject
<1>9. ASSUME NEW d \in Removals, CommitRemoval(d) PROVE Carried
  <2>1. UNCHANGED upload /\ \A i \in Ids : report'[i].by = report[i].by
    BY <1>0, <1>9 DEF CommitRemoval, Row
  <2> QED
    BY <2>1 DEF Carried
<1>10. CASE \/ CreateHost \/ DeleteHost
            \/ RevokeToken \/ IssueToken \/ RevokeKey \/ RegisterKey \/ UNCHANGED evidenceVars
  <2>1. UNCHANGED <<upload, report>>
    BY <1>10 DEF CreateHost, DeleteHost, RevokeToken, IssueToken, RevokeKey, RegisterKey,
                 Revoke, Issue, evidenceVars
  <2> QED
    BY <1>5, <2>1
<1> QED
  BY <1>2, <1>3, <1>4, <1>6, <1>7, <1>8, <1>9, <1>10 DEF EvidenceNext

LEMMA OwnRowsStep == VaultInv /\ OwnRows /\ [EvidenceNext]_evidenceVars => OwnRows'
<1> SUFFICES ASSUME VaultInv, OwnRows, [EvidenceNext]_evidenceVars PROVE OwnRows'
  OBVIOUS
<1>0. upload \in [Uploads -> Upload] /\ report \in [Ids -> Row]
  BY DEF VaultInv, EvidenceTypeOK
<1>1. \A i \in Ids : Accepted(i) => report[i].by \in Uploads
  BY <1>0 DEF Accepted, Row
<1>2. CASE \A i \in Ids : report'[i].by = report[i].by
  BY <1>1, <1>2, CarriedStays DEF OwnRows, Accepted, Carried
<1>3. ASSUME NEW u \in Uploads, Commit(u) PROVE OwnRows'
  <2>1. \A i \in Ids : report'[i].by = IF i = upload[u].id THEN u ELSE report[i].by
    BY <1>0, <1>3 DEF Commit, Row
  <2>2. QED
    BY <1>1, <1>3, <2>1, CarriedStays DEF OwnRows, Accepted, Carried
<1>4. QED
  BY <1>2, <1>3, CarriedStays DEF Carried

\* The archive does not change if nothing changes that concerns an accepted report.
LEMMA ArchiveSame ==
    ASSUME VaultInv, Carried, UNCHANGED <<deployment, unsure, report>>,
           \A i \in Ids : Accepted(i) =>
               /\ report[i].by \in vault' <=> report[i].by \in vault
               /\ Released(i)' <=> Released(i)
    PROVE  UNCHANGED Archive!archive
<1>1. \A i \in Ids : Accepted(i) => report[i].by \in Uploads
  BY DEF VaultInv, EvidenceTypeOK, Accepted, Row
<1>2. \A i \in Ids : Accepted(i)' <=> Accepted(i)
  BY DEF Accepted
<1>3. \A i \in Ids : Shows(i)' = Shows(i)
  BY <1>1, <1>2 DEF Shows, Carried
<1>4. \A i \in Ids : Released(i)' <=> Released(i)
  BY <1>2 DEF Released
<1>5. {i \in Ids : Accepted(i) /\ report[i].by \in vault}'
        = {i \in Ids : Accepted(i) /\ report[i].by \in vault}
  BY <1>2
<1>6. {i \in Ids : Released(i)}' = {i \in Ids : Released(i)}
  BY <1>4
<1>7. [i \in Ids |-> Shows(i)]' = [i \in Ids |-> Shows(i)]
  BY <1>3
<1> QED
  BY <1>5, <1>6, <1>7 DEF Archive!archive

\* Most requests read, and move on.
LEMMA QuietSame ==
    ASSUME VaultInv, Carried, UNCHANGED <<deployment, vault, expired, report, unsure>>
    PROVE  UNCHANGED Archive!archive
<1>1. \A i \in Ids : Accepted(i) => report[i].by \in Uploads
  BY DEF VaultInv, EvidenceTypeOK, Accepted, Row
<1>2. \A i \in Ids : Accepted(i) => (Released(i)' <=> Released(i))
  BY <1>1 DEF Released, RetentionOver, Accepted, Carried
<1> QED
  BY <1>2, ArchiveSame

\* An object that is stored is not yet that of an accepted report.
LEMMA StoreSame ==
    ASSUME VaultInv, Carried, NEW u \in Uploads, Store(u)
    PROVE  UNCHANGED Archive!archive
<1>1. \A i \in Ids : Accepted(i) => report[i].by \in Uploads /\ report[i].by # u
  BY DEF VaultInv, EvidenceTypeOK, Accepted, Row, ReportInv, Settled, Store
<1>2. UNCHANGED <<deployment, expired, report, unsure>>
  BY DEF Store
<1>3. \A i \in Ids : Accepted(i) => (report[i].by \in vault' <=> report[i].by \in vault)
  BY <1>1 DEF Store, Put, ObjectOf
<1>4. \A i \in Ids : Accepted(i) => (Released(i)' <=> Released(i))
  BY <1>1, <1>2 DEF Released, RetentionOver, Accepted, Carried
<1> QED
  BY <1>2, <1>3, <1>4, ArchiveSame

\* A commit accepts the report, with its object if it has one.
LEMMA CommitArchives ==
    ASSUME VaultInv, Carried, NEW u \in Uploads, Commit(u)
    PROVE  Archive!Next
<1>0. PICK i \in Ids : i = upload[u].id
  BY DEF VaultInv, EvidenceTypeOK, Upload
<1>1. /\ upload[u].pc = "computed" /\ ~Accepted(i) /\ u # Nobody
      /\ report \in [Ids -> Row]
      /\ UNCHANGED <<deployment, vault, expired>>
      /\ unsure \subseteq unsure' /\ unsure' \subseteq unsure \union {u}
  BY <1>0, EvidenceAssumption DEF VaultInv, EvidenceTypeOK, Commit, Conflict
<1>2. \A j \in Ids : Accepted(j) => report[j].by \in Uploads /\ report[j].by # u
  BY <1>1 DEF VaultInv, Accepted, Row, ReportInv, Settled
<1>3. /\ \A j \in Ids \ {i} : report'[j] = report[j]
      /\ report'[i].by = u /\ report'[i].deleted = FALSE
  BY <1>0, <1>1 DEF Commit, Row, VaultInv, ReportInv
<1>4. \A j \in Ids \ {i} : /\ Shows(j)' = Shows(j)
                           /\ Accepted(j)' <=> Accepted(j)
                           /\ Released(j)' <=> Released(j)
  BY <1>1, <1>2, <1>3 DEF Shows, Released, RetentionOver, Accepted, Carried
<1>5. Shows(i) = "absent" /\ ~Released(i) /\ Accepted(i)'
  BY <1>1, <1>3 DEF Shows, Released, Accepted
<1>6. Shows(i)' = IF upload[u].bundle THEN "kept" ELSE "plain"
  BY <1>3, <1>5 DEF Shows, Carried
<1>7. upload[u].bundle <=> u \in vault
  BY <1>1 DEF VaultInv, UploadInv, EvidenceTypeOK
<1>8. [j \in Ids |-> Shows(j)]' = [[j \in Ids |-> Shows(j)] EXCEPT ![i] = Shows(i)']
  BY <1>4
<1>9. {j \in Ids : Released(j)}' \in {{j \in Ids : Released(j)}, {j \in Ids : Released(j)} \union {i}}
  BY <1>4, <1>5
<1>10. CASE upload[u].bundle
  <2>1. {j \in Ids : Accepted(j) /\ report[j].by \in vault}'
          = {j \in Ids : Accepted(j) /\ report[j].by \in vault} \union {i}
    BY <1>1, <1>3, <1>4, <1>5, <1>7, <1>10
  <2>2. Archive!AcceptBundle(i)
    BY <1>5, <1>6, <1>8, <1>9, <1>10, <2>1 DEF Archive!AcceptBundle
  <2> QED
    BY <2>2 DEF Archive!Next
<1>11. CASE ~upload[u].bundle
  <2>1. {j \in Ids : Accepted(j) /\ report[j].by \in vault}'
          = {j \in Ids : Accepted(j) /\ report[j].by \in vault}
    BY <1>1, <1>3, <1>4, <1>7, <1>11
  <2>2. ~Released(i)'
    BY <1>3, <1>11 DEF Released, Carried
  <2>3. {j \in Ids : Released(j)}' = {j \in Ids : Released(j)}
    BY <1>4, <1>5, <2>2
  <2>4. Archive!AcceptPlain(i)
    BY <1>5, <1>6, <1>8, <1>11, <2>1, <2>3 DEF Archive!AcceptPlain
  <2> QED
    BY <2>4 DEF Archive!Next
<1> QED
  BY <1>10, <1>11

\* Taking out an object that is nobody's, or locked, is not seen; else it was released.
LEMMA RemovalArchives ==
    ASSUME VaultInv, OwnRows, Carried, NEW o \in Uploads, vault' = Without(o),
           UNCHANGED <<deployment, expired, report, unsure>>,
           ~Locked(o) => \A i \in Ids : Accepted(i) /\ report[i].by = o /\ o \in vault => Released(i)
    PROVE  Archive!Next \/ UNCHANGED Archive!archive
<1>1. \A i \in Ids : Accepted(i) => report[i].by \in Uploads
  BY DEF VaultInv, EvidenceTypeOK, Accepted, Row
<1>2. \A i \in Ids : /\ Accepted(i)' <=> Accepted(i)
                     /\ Released(i)' <=> Released(i)
                     /\ Shows(i)' = Shows(i)
  BY <1>1 DEF Released, RetentionOver, Accepted, Shows, Carried
<1>3. CASE \E i \in Ids : Accepted(i) /\ report[i].by = o /\ o \in vault /\ ~Locked(o)
  <2>1. PICK i \in Ids : Accepted(i) /\ report[i].by = o /\ o \in vault /\ ~Locked(o)
    BY <1>3
  <2>2. vault' = vault \ {o} /\ Released(i)
    BY <2>1 DEF Without
  <2>3. \A j \in Ids : Accepted(j) /\ report[j].by = o => j = i
    BY <2>1 DEF OwnRows
  <2>4. {j \in Ids : Accepted(j) /\ report[j].by \in vault}'
          = {j \in Ids : Accepted(j) /\ report[j].by \in vault} \ {i}
    BY <1>2, <2>1, <2>2, <2>3
  <2>5. [j \in Ids |-> Shows(j)]' = [j \in Ids |-> Shows(j)]
    BY <1>2
  <2>6. {j \in Ids : Released(j)}' = {j \in Ids : Released(j)}
    BY <1>2
  <2>7. Archive!Remove(i)
    BY <2>1, <2>2, <2>4, <2>5, <2>6 DEF Archive!Remove
  <2> QED
    BY <2>7 DEF Archive!Next
<1>4. CASE ~ \E i \in Ids : Accepted(i) /\ report[i].by = o /\ o \in vault /\ ~Locked(o)
  <2>1. \A i \in Ids : Accepted(i) => (report[i].by \in vault' <=> report[i].by \in vault)
    BY <1>4 DEF Without
  <2> QED
    BY <1>2, <2>1, ArchiveSame
<1> QED
  BY <1>3, <1>4

\* An upload takes out its own object, accepted only if it was not told so.
LEMMA DiscardArchives ==
    ASSUME VaultInv, OwnRows, Carried, NEW u \in Uploads, Discard(u)
    PROVE  Archive!Next \/ UNCHANGED Archive!archive
<1>1. UNCHANGED <<deployment, expired, report, unsure>> /\ vault' \in {vault, Without(u)}
  BY DEF Discard, ObjectOf
<1>2. CASE vault' = vault
  BY <1>1, <1>2, QuietSame
<1>3. CASE vault' = Without(u)
  <2>1. ASSUME NEW i \in Ids, Accepted(i), report[i].by = u, u \in vault, ~Locked(u)
        PROVE  Released(i)
    <3>1. u \in unsure
      BY <2>1 DEF Discard, VaultInv, ReportInv
    <3>2. upload[u].bundle
      BY <2>1 DEF VaultInv, EvidenceTypeOK
    <3> QED
      BY <2>1, <3>1, <3>2 DEF Released, RetentionOver, Locked
  <2> QED
    BY <1>1, <1>3, <2>1, RemovalArchives
<1> QED
  BY <1>1, <1>2, <1>3

\* A removal takes out objects whose retention is over.
LEMMA RemoveObjectArchives ==
    ASSUME VaultInv, OwnRows, Carried, NEW d \in Removals, NEW i \in Ids, RemoveObject(d, i)
    PROVE  Archive!Next \/ UNCHANGED Archive!archive
<1>1. /\ UNCHANGED <<deployment, expired, report, unsure>>
      /\ vault' = Without(report[i].by)
      /\ i \in removal[d].rows
  BY DEF RemoveObject, VaultInv, RemovalInv
<1>2. Accepted(i) /\ RetentionOver(i) /\ report[i].by \in Uploads
  BY <1>1 DEF VaultInv, RemovalInv, EvidenceTypeOK, Accepted, Row
<1>3. ASSUME NEW j \in Ids, Accepted(j), report[j].by = report[i].by, report[i].by \in vault
      PROVE  Released(j)
  <2>1. j = i
    BY <1>2, <1>3 DEF OwnRows
  <2>2. upload[report[i].by].bundle
    BY <1>3 DEF VaultInv, EvidenceTypeOK
  <2> QED
    BY <1>2, <2>1, <2>2 DEF Released
<1> QED
  BY <1>1, <1>2, <1>3, RemovalArchives

\* A removal marks rows whose objects are gone.
LEMMA CommitRemovalArchives ==
    ASSUME VaultInv, Carried, NEW d \in Removals, CommitRemoval(d)
    PROVE  Archive!Next
<1> DEFINE S == {i \in removal[d].rows : Shows(i) = "kept"}
<1>1. /\ report \in [Ids -> Row]
      /\ removal[d].rows \in SUBSET Ids
      /\ UNCHANGED <<deployment, upload, vault, expired, unsure>>
  BY DEF CommitRemoval, VaultInv, EvidenceTypeOK
<1>2. \A i \in Ids : /\ report'[i].by = report[i].by
                     /\ report'[i].deleted = (report[i].deleted \/ i \in removal[d].rows)
  BY <1>1 DEF CommitRemoval, Row
<1>3. \A i \in removal[d].rows : report[i].by \notin vault
  BY DEF CommitRemoval, Finished, VaultInv, RemovalInv
<1>4. \A i \in Ids : /\ Accepted(i)' <=> Accepted(i)
                     /\ Released(i)' <=> Released(i)
  BY <1>1, <1>2 DEF Accepted, Released, RetentionOver
<1>5. \A i \in Ids : Shows(i)' = IF i \in S THEN "deleted" ELSE Shows(i)
  BY <1>1, <1>2, <1>4 DEF Shows
<1>6. {i \in Ids : Accepted(i) /\ report[i].by \in vault}'
        = {i \in Ids : Accepted(i) /\ report[i].by \in vault}
  BY <1>1, <1>2, <1>4
<1>7. {i \in Ids : Released(i)}' = {i \in Ids : Released(i)}
  BY <1>4
<1>8. [i \in Ids |-> Shows(i)]' = [i \in Ids |-> IF i \in S THEN "deleted" ELSE Shows(i)]
  BY <1>5
<1>9. S \in SUBSET Ids
  BY <1>1
<1>10. Archive!Delete(S)
  BY <1>3, <1>6, <1>7, <1>8, <1>9 DEF Archive!Delete
<1> QED
  BY <1>9, <1>10 DEF Archive!Next

\* The end of a retention period releases the object of at most one report.
LEMMA RetentionArchives ==
    ASSUME VaultInv, OwnRows, Carried, NEW u \in Uploads, RetentionEnds(u)
    PROVE  Archive!Next \/ UNCHANGED Archive!archive
<1>1. /\ UNCHANGED <<deployment, upload, vault, report, unsure>>
      /\ deployment.retained /\ u \in vault /\ expired' = expired \union {u}
  BY DEF RetentionEnds
<1>2. \A i \in Ids : (Accepted(i)' <=> Accepted(i)) /\ Shows(i)' = Shows(i)
  BY <1>1 DEF Accepted, Shows
<1>3. \A i \in Ids : ~(Accepted(i) /\ report[i].by = u) => (Released(i)' <=> Released(i))
  BY <1>1 DEF Accepted, Released, RetentionOver
<1>4. CASE \E i \in Ids : Accepted(i) /\ report[i].by = u /\ ~Released(i)
  <2>1. PICK i \in Ids : Accepted(i) /\ report[i].by = u /\ ~Released(i)
    BY <1>4
  <2>2. \A j \in Ids : j # i => (Released(j)' <=> Released(j))
    BY <1>3, <2>1 DEF OwnRows
  <2>3. upload[u].bundle
    BY <1>1 DEF VaultInv, EvidenceTypeOK
  <2>4. Released(i)'
    BY <1>1, <2>1, <2>3 DEF Released, RetentionOver, Accepted
  <2>5. {j \in Ids : Released(j)}' = {j \in Ids : Released(j)} \union {i}
    BY <2>2, <2>4
  <2>6. {j \in Ids : Accepted(j) /\ report[j].by \in vault}'
          = {j \in Ids : Accepted(j) /\ report[j].by \in vault}
    BY <1>1, <1>2
  <2>7. [j \in Ids |-> Shows(j)]' = [j \in Ids |-> Shows(j)]
    BY <1>2
  <2>8. Archive!Release(i)
    BY <1>1, <2>1, <2>5, <2>6, <2>7 DEF Archive!Release
  <2> QED
    BY <2>8 DEF Archive!Next
<1>5. CASE \A i \in Ids : Accepted(i) /\ report[i].by = u => Released(i)
  <2>1. \A i \in Ids : Released(i) => Released(i)'
    BY <1>1 DEF Released, RetentionOver, Accepted
  <2>2. \A i \in Ids : Accepted(i) => (Released(i)' <=> Released(i))
    BY <1>3, <1>5, <2>1
  <2> QED
    BY <1>1, <2>2, ArchiveSame
<1> QED
  BY <1>4, <1>5

LEMMA ArchiveStep ==
    VaultInv /\ OwnRows /\ [EvidenceNext]_evidenceVars => [Archive!Next]_(Archive!archive)
<1> SUFFICES ASSUME VaultInv, OwnRows, [EvidenceNext]_evidenceVars
             PROVE  Archive!Next \/ UNCHANGED Archive!archive
  OBVIOUS
<1>1. Carried
  BY CarriedStays
<1>2. ASSUME NEW u \in Uploads,
             Receive(u) \/ ReadHost(u) \/ ReadInventory(u) \/ CommitFails(u) \/ UploadStops(u)
      PROVE  UNCHANGED Archive!archive
  <2>1. UNCHANGED <<deployment, vault, expired, report, unsure>>
    BY <1>2 DEF Receive, ReadHost, ReadInventory, CommitFails, UploadStops
  <2> QED
    BY <1>1, <2>1, QuietSame
<1>3. ASSUME NEW d \in Removals,
             PurgeExpired(d) \/ RemovalFails(d) \/ \E i \in Ids : DeleteArtifact(d, i)
      PROVE  UNCHANGED Archive!archive
  <2>1. UNCHANGED <<deployment, vault, expired, report, unsure>>
    BY <1>3 DEF PurgeExpired, RemovalFails, DeleteArtifact
  <2> QED
    BY <1>1, <2>1, QuietSame
<1>4. CASE \/ CreateHost \/ DeleteHost
           \/ RevokeToken \/ IssueToken \/ RevokeKey \/ RegisterKey \/ UNCHANGED evidenceVars
  <2>1. UNCHANGED <<deployment, vault, expired, report, unsure>>
    BY <1>4 DEF CreateHost, DeleteHost, RevokeToken, IssueToken, RevokeKey, RegisterKey,
                Revoke, Issue, evidenceVars
  <2> QED
    BY <1>1, <2>1, QuietSame
<1>5. ASSUME NEW u \in Uploads, Store(u) \/ Commit(u) \/ Discard(u) \/ RetentionEnds(u)
      PROVE  Archive!Next \/ UNCHANGED Archive!archive
  BY <1>1, <1>5, StoreSame, CommitArchives, DiscardArchives, RetentionArchives
<1>6. ASSUME NEW d \in Removals, CommitRemoval(d) \/ \E i \in Ids : RemoveObject(d, i)
      PROVE  Archive!Next \/ UNCHANGED Archive!archive
  BY <1>1, <1>6, CommitRemovalArchives, RemoveObjectArchives
<1> QED
  BY <1>2, <1>3, <1>4, <1>5, <1>6 DEF EvidenceNext

LEMMA ArchiveInitially == EvidenceInit => OwnRows /\ Archive!Init
<1> SUFFICES ASSUME EvidenceInit PROVE OwnRows /\ Archive!Init
  OBVIOUS
<1>1. \A i \in Ids : ~Accepted(i)
  BY DEF EvidenceInit, Accepted
<1> QED
  BY <1>1 DEF OwnRows, Archive!Init, Shows, Released

\* Uploads, removals and the end of retention periods, each of several steps on the vault and
\* the database, in any order and with any failures, implement the archive: a report comes
\* with its object, the object goes only after it was released, the deletion is shown after it.
THEOREM ImplementsArchive == EvidenceSpec => ArchiveSpec
<1>1. EvidenceInv => VaultInv
  BY DEF EvidenceInv
<1> QED
  BY <1>1, ArchiveInitially, OwnRowsStep, ArchiveStep, EvidenceInvariant, PTL
     DEF EvidenceSpec, ArchiveSpec, Archive!Spec
=============================================================================
