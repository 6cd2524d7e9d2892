------------------------------ MODULE Evidence ------------------------------
(***************************************************************************)
(* Reports of one host on their way into the platform: the bundle goes to  *)
(* the evidence vault first, the report and the host's inventory go to the *)
(* database after it, and an upload that fails takes its object out of the *)
(* vault again.  Administrators remove the objects whose retention is over.*)
(*                                                                         *)
(* Every upload and every removal is a request of its own; requests run in *)
(* several API processes and interleave wherever they touch the vault or   *)
(* the database.  A bundle is the upload that carries it: two bundles of   *)
(* one report differ in their bytes.  A request reads the host, then the   *)
(* rows of its inventory, and commits what differs from what it has read:  *)
(* the transactions of the database are those of READ COMMITTED.           *)
(***************************************************************************)
EXTENDS Integers, FiniteSets

CONSTANTS
    Uploads,     \* requests that bring a report
    Removals,    \* requests that delete evidence
    Ids,         \* report ids
    Machines,    \* machine identities a report may name
    Applications,\* packages and services a host may have
    MaxTime,     \* reports are generated at 1..MaxTime
    Pending,     \* the machine identity of a host created in the console
    Nobody       \* no upload, no machine

ASSUME EvidenceAssumption ==
    /\ MaxTime \in Nat \ {0}
    /\ Pending \notin Machines
    /\ Nobody \notin Uploads \union Machines \union {Pending}

Times == 1..MaxTime

VARIABLES
    deployment,  \* which store is used, whether evidence is retained
    upload,      \* the report an upload carries, and how far it has come
    vault,       \* uploads whose bundle is in the vault
    expired,     \* uploads whose retention period is over
    report,      \* the reports table
    host,        \* the host row and its inventory
    trusted,     \* which of the host's token and signing key are not revoked
    removal,     \* objects a removal has yet to delete, rows it marks
    unsure,      \* ghost: bundles whose upload was not told that its commit succeeded
    seen         \* ghost: uploads whose reports were there when an upload read the host

evidenceVars ==
    <<deployment, upload, vault, expired, report, host, trusted, removal, unsure, seen>>

Inventory == [Applications -> {"unknown", "installed", "removed"}]

Host == [machine : Machines \union {Pending, Nobody}, deleted : BOOLEAN,
         last : Times \union {0}, inventory : Inventory]

\* A report may have a list of applications or none; "read" is the host as it was read.
Upload ==
    [id : Ids, machine : Machines, at : Times, bundle : BOOLEAN,
     lists : BOOLEAN, listed : SUBSET Applications,
     pc : {"new", "verified", "stored", "reading", "computed", "failed", "done"}, read : Host]

Row == [by : Uploads \union {Nobody}, deleted : BOOLEAN]

Deployment == [s3 : BOOLEAN, retained : BOOLEAN]

EvidenceTypeOK ==
    /\ deployment \in Deployment
    /\ upload \in [Uploads -> Upload]
    /\ vault \subseteq {u \in Uploads : upload[u].bundle}
    /\ expired \subseteq Uploads
    /\ report \in [Ids -> Row]
    /\ host \in Host
    /\ trusted \subseteq {"token", "key"}
    /\ removal \in [Removals -> [todo : SUBSET Ids, rows : SUBSET Ids]]
    /\ unsure \subseteq Uploads
    /\ seen \in [Uploads -> SUBSET Uploads]

NoHost == [machine |-> Nobody, deleted |-> FALSE, last |-> 0,
           inventory |-> [a \in Applications |-> "unknown"]]
Enrolled == [NoHost EXCEPT !.machine = Pending]
Idle == [todo |-> {}, rows |-> {}]
Fresh == [id : Ids, machine : Machines, at : Times, bundle : BOOLEAN,
          lists : BOOLEAN, listed : SUBSET Applications, pc : {"new"}, read : {NoHost}]

EvidenceInit ==
    /\ deployment \in Deployment
    /\ upload \in [Uploads -> Fresh]
    /\ vault = {}
    /\ expired = {}
    /\ report = [i \in Ids |-> [by |-> Nobody, deleted |-> FALSE]]
    /\ host \in {NoHost, Enrolled}
    /\ trusted = {"token", "key"}
    /\ removal = [d \in Removals |-> Idle]
    /\ unsure = {}
    /\ seen = [u \in Uploads |-> {}]

-----------------------------------------------------------------------------
(* Uploads *)

Accepted(i) == report[i].by # Nobody
Go(u, pc) == upload' = [upload EXCEPT ![u].pc = pc]

\* A bundle is signed; plain JSON is accepted where signatures are not required.
Signed(u) == upload[u].bundle => "key" \in trusted

\* Token, signature and schema are checked before anything is stored.
Receive(u) ==
    /\ upload[u].pc = "new"
    /\ "token" \in trusted
    /\ Signed(u)
    /\ Go(u, IF Accepted(upload[u].id) THEN "done" ELSE "verified")
    /\ UNCHANGED <<deployment, vault, expired, report, host, trusted, removal, unsure, seen>>

\* Mutant: the object is found by the id of the report.
ObjectOfReport(u) == IF report[upload[u].id].by = Nobody THEN u ELSE report[upload[u].id].by

\* The object of an upload: its key is new, so it is never another's.
ObjectOf(u) == u

\* Object lock, in compliance mode, keeps an object for its retention period.
Locked(o) == deployment.s3 /\ deployment.retained /\ o \notin expired

Put(o)     == vault \union {o}
Without(o) == IF Locked(o) THEN vault ELSE vault \ {o}

Store(u) ==
    /\ upload[u].pc = "verified" /\ upload[u].bundle
    /\ \/ vault' = Put(ObjectOf(u)) /\ Go(u, "stored")
       \/ vault' = vault /\ Go(u, "done")            \* 503: nothing was stored
    /\ UNCHANGED <<deployment, expired, report, host, trusted, removal, unsure, seen>>

\* A failed upload of plain JSON has nothing to take out of the vault.
Failing(u) == IF upload[u].bundle THEN "failed" ELSE "done"

Admissible(u) ==
    /\ ~Accepted(upload[u].id)
    /\ ~host.deleted
    /\ host.machine \in {Nobody, Pending, upload[u].machine}

\* Mutant: an older report is not told from a newer one.
SynchronizesAnyAge(u, last) == upload[u].lists

\* A report without a list of applications, or older than the last one, leaves the
\* inventory alone.
Synchronizes(u, last) == upload[u].lists /\ upload[u].at >= last

Ingested == {report[i].by : i \in Ids} \ {Nobody}

\* ingest_report reads the host; its inventory is read if it is to be synchronised.
ReadHost(u) ==
    /\ upload[u].pc = IF upload[u].bundle THEN "stored" ELSE "verified"
    /\ \/ /\ Admissible(u)
          /\ upload' = [upload EXCEPT ![u].pc = IF Synchronizes(u, host.last) THEN "reading" ELSE "computed",
                                      ![u].read = host]
          /\ seen' = [seen EXCEPT ![u] = Ingested]
       \/ ~Admissible(u) /\ Go(u, Failing(u)) /\ seen' = seen
    /\ UNCHANGED <<deployment, vault, expired, report, host, trusted, removal, unsure>>

ReadInventory(u) ==
    /\ upload[u].pc = "reading"
    /\ upload' = [upload EXCEPT ![u].pc = "computed", ![u].read.inventory = host.inventory]
    /\ UNCHANGED <<deployment, vault, expired, report, host, trusted, removal, unsure, seen>>

\* A row is written only where it differs from what was read.
Synchronized(u) ==
    [a \in Applications |->
        IF a \in upload[u].listed /\ upload[u].read.inventory[a] # "installed" THEN "installed"
        ELSE IF a \notin upload[u].listed /\ upload[u].read.inventory[a] = "installed" THEN "removed"
        ELSE host.inventory[a]]

\* An attribute that has the value that was read is not written.
Written(u) ==
    [machine   |-> IF upload[u].read.machine = upload[u].machine THEN host.machine
                   ELSE upload[u].machine,
     deleted   |-> host.deleted,
     last      |-> IF upload[u].read.last = upload[u].at THEN host.last ELSE upload[u].at,
     inventory |-> IF Synchronizes(u, upload[u].read.last) THEN Synchronized(u) ELSE host.inventory]

\* An application it read as unknown has a row by now: (host_id, inventory_key) is unique.
Inserted(u, a) ==
    /\ Synchronizes(u, upload[u].read.last)
    /\ a \in upload[u].listed
    /\ upload[u].read.inventory[a] = "unknown" /\ host.inventory[a] # "unknown"

\* Another upload has inserted the report, the host or an application.
Conflict(u) ==
    \/ Accepted(upload[u].id)
    \/ upload[u].read.machine = Nobody /\ host.machine # Nobody
    \/ \E a \in Applications : Inserted(u, a)

Commit(u) ==
    /\ upload[u].pc = "computed"
    /\ ~Conflict(u)
    /\ report' = [report EXCEPT ![upload[u].id].by = u]
    /\ host' = Written(u)
    /\ \/ Go(u, "done") /\ unsure' = unsure
       \/ /\ upload[u].bundle                                \* its answer is lost
          /\ Go(u, "failed") /\ unsure' = unsure \union {u}
    /\ UNCHANGED <<deployment, vault, expired, trusted, removal, seen>>

\* A conflict, or the database is not there.
CommitFails(u) ==
    /\ upload[u].pc = "computed"
    /\ Go(u, Failing(u))
    /\ UNCHANGED <<deployment, vault, expired, report, host, trusted, removal, unsure, seen>>

\* An error of the vault is suppressed; the object is left there.
Discard(u) ==
    /\ upload[u].pc = "failed"
    /\ Go(u, "done")
    /\ vault' \in {vault, Without(ObjectOf(u))}
    /\ UNCHANGED <<deployment, expired, report, host, trusted, removal, unsure, seen>>

UploadStops(u) ==
    /\ upload[u].pc \in {"verified", "stored", "reading", "computed", "failed"}
    /\ Go(u, "done")
    /\ UNCHANGED <<deployment, vault, expired, report, host, trusted, removal, unsure, seen>>

-----------------------------------------------------------------------------
(* Removals *)

Available(i) == Accepted(i) /\ upload[report[i].by].bundle /\ ~report[i].deleted
RetentionOver(i) == deployment.retained => report[i].by \in expired

DeleteArtifact(d, i) ==
    /\ removal[d] = Idle
    /\ Available(i) /\ RetentionOver(i)
    /\ removal' = [removal EXCEPT ![d] = [todo |-> {i}, rows |-> {i}]]
    /\ UNCHANGED <<deployment, upload, vault, expired, report, host, trusted, unsure, seen>>

Purgeable == {i \in Ids : Available(i) /\ deployment.retained /\ RetentionOver(i)}

PurgeExpired(d) ==
    /\ removal[d] = Idle
    /\ Purgeable # {}
    /\ removal' = [removal EXCEPT ![d] = [todo |-> Purgeable, rows |-> Purgeable]]
    /\ UNCHANGED <<deployment, upload, vault, expired, report, host, trusted, unsure, seen>>

\* Deleting an object that another request has deleted succeeds.
RemoveObject(d, i) ==
    /\ i \in removal[d].todo
    /\ vault' = Without(report[i].by)
    /\ removal' = [removal EXCEPT ![d].todo = @ \ {i}]
    /\ UNCHANGED <<deployment, upload, expired, report, host, trusted, unsure, seen>>

\* Mutant: an error of the vault does not stop the removal.
FinishedAnyway(d) == TRUE

Finished(d) == removal[d].todo = {}

CommitRemoval(d) ==
    /\ removal[d] # Idle /\ Finished(d)
    /\ report' = [i \in Ids |-> [report[i] EXCEPT !.deleted = @ \/ i \in removal[d].rows]]
    /\ removal' = [removal EXCEPT ![d] = Idle]
    /\ UNCHANGED <<deployment, upload, vault, expired, host, trusted, unsure, seen>>

\* The vault or the database fails, or the process stops: no row is marked.
RemovalFails(d) ==
    /\ removal[d] # Idle
    /\ removal' = [removal EXCEPT ![d] = Idle]
    /\ UNCHANGED <<deployment, upload, vault, expired, report, host, trusted, unsure, seen>>

-----------------------------------------------------------------------------
(* The rest of the world *)

RetentionEnds(u) ==
    /\ deployment.retained /\ u \in vault \ expired
    /\ expired' = expired \union {u}
    /\ UNCHANGED <<deployment, upload, vault, report, host, trusted, removal, unsure, seen>>

CreateHost ==
    /\ host = NoHost
    /\ host' = Enrolled
    /\ UNCHANGED <<deployment, upload, vault, expired, report, trusted, removal, unsure, seen>>

\* Deleting a host revokes its tokens and signing keys; its evidence stays.
DeleteHost ==
    /\ host # NoHost /\ ~host.deleted
    /\ host' = [host EXCEPT !.deleted = TRUE]
    /\ trusted' = {}
    /\ UNCHANGED <<deployment, upload, vault, expired, report, removal, unsure, seen>>

Revoke(what) ==
    /\ what \in trusted
    /\ trusted' = trusted \ {what}
    /\ UNCHANGED <<deployment, upload, vault, expired, report, host, removal, unsure, seen>>

Issue(what) ==
    /\ what \notin trusted /\ ~host.deleted
    /\ trusted' = trusted \union {what}
    /\ UNCHANGED <<deployment, upload, vault, expired, report, host, removal, unsure, seen>>

RevokeToken == Revoke("token")
IssueToken  == Issue("token")
RevokeKey   == Revoke("key")
RegisterKey == Issue("key")

EvidenceNext ==
    \/ \E u \in Uploads :
          \/ Receive(u) \/ Store(u) \/ ReadHost(u) \/ ReadInventory(u)
          \/ Commit(u) \/ CommitFails(u) \/ Discard(u) \/ UploadStops(u) \/ RetentionEnds(u)
    \/ \E d \in Removals :
          \/ PurgeExpired(d) \/ CommitRemoval(d) \/ RemovalFails(d)
          \/ \E i \in Ids : DeleteArtifact(d, i) \/ RemoveObject(d, i)
    \/ CreateHost \/ DeleteHost
    \/ RevokeToken \/ IssueToken \/ RevokeKey \/ RegisterKey

EvidenceSpec == EvidenceInit /\ [][EvidenceNext]_evidenceVars

-----------------------------------------------------------------------------
(* Properties *)

\* The bundle of an accepted report stays in the vault for its retention
\* period, whatever other uploads of the same report, failed uploads and
\* removals do (submit_bundle, delete_artifact, purge_expired_artifacts).  The
\* filesystem store does not keep this for an upload that was not told that its
\* commit succeeded: it takes the object out again.
EvidenceKept ==
    \A i \in Ids :
        LET u == report[i].by IN
        /\ Accepted(i)
        /\ upload[u].bundle
        /\ deployment.retained /\ u \notin expired
        /\ deployment.s3 \/ u \notin unsure
        => u \in vault

\* Evidence the console reports as deleted is gone from the vault, with purges
\* and deletions that overlap, fail half way and are asked for again.
DeletedMeansGone ==
    \A i \in Ids : report[i].deleted => report[i].by \notin vault

\* An accepted report that was ingested beside that of an upload and contradicts its list.
Contradicted(u, a) ==
    \E v \in Ingested :
        /\ u \notin seen[v] /\ v \notin seen[u]
        /\ upload[v].lists /\ (a \in upload[v].listed) # (a \in upload[u].listed)

IsShown(u) ==
    \A a \in Applications :
        (host.inventory[a] = "installed") # (a \in upload[u].listed) => Contradicted(u, a)

Newest == {u \in Ingested : \A v \in Ingested : upload[v].at <= upload[u].at}

\* A report was compared with a last scan that another one, ingested after a newest
\* report, had set back.
SetBack(v) ==
    \E u \in Newest \intersect seen[v] :
        upload[v].read.last < upload[u].at /\ upload[v].at < upload[u].at

\* The applications of the newest report are shown as installed and no others, whatever
\* reports that are older or have no list are ingested before, after or beside it
\* (synchronize_applications).  There are two exceptions.  Reports that are ingested at the
\* same time leave open the applications they disagree about: a row the later commit took
\* for up to date is left as the earlier one has written it.  And an older report sets the
\* time of the last scan back, so that a second one may pass for current.
NewestInventoryShown ==
    /\ \A u \in Newest : upload[u].lists
    /\ Newest # {} /\ \A v \in Ingested : ~SetBack(v)
    => \E u \in Newest : IsShown(u)

\* The reports as the abstract specification sees them.  An object need not be kept
\* once its retention is over; nor in the filesystem store, if the upload was not told
\* that its report was accepted.
Shows(i) ==
    IF ~Accepted(i) THEN "absent"
    ELSE IF ~upload[report[i].by].bundle THEN "plain"
    ELSE IF report[i].deleted THEN "deleted" ELSE "kept"

Released(i) ==
    /\ Accepted(i) /\ upload[report[i].by].bundle
    /\ RetentionOver(i) \/ (~deployment.s3 /\ report[i].by \in unsure)

Archive == INSTANCE EvidenceArchive WITH
    row      <- [i \in Ids |-> Shows(i)],
    object   <- {i \in Ids : Accepted(i) /\ report[i].by \in vault},
    released <- {i \in Ids : Released(i)}

\* Uploads and removals that take several steps in two stores, overlap, fail half way and
\* are repeated accept, release, remove and delete evidence each in one step, and in that
\* order (submit_bundle, delete_artifact, purge_expired_artifacts).
ArchiveSpec == Archive!Spec
=============================================================================
