-------------------------- MODULE VulnerabilitySync --------------------------
(***************************************************************************)
(* The vulnerability synchronisation of one tenant.  Runs are queued by an *)
(* administrator and by the schedule, claimed by one of several workers,   *)
(* and end as succeeded or failed; a worker may stop at any point, and a   *)
(* run that takes too long is given up.  A run asks the outside world      *)
(* about the packages that are installed.  What it is told is applied as an*)
(* uploaded snapshot is: the packages are read, then the matches, and what *)
(* differs from what was read is committed (READ COMMITTED), while reports *)
(* go on changing the inventory.                                           *)
(*                                                                         *)
(* A package has one vulnerability, which OSV knows of or not.  Time is the*)
(* age of a run: "fresh", then older than the retry delay, then older than *)
(* the refresh interval; a running run may also be over its time limit.    *)
(***************************************************************************)
EXTENDS Integers, FiniteSets, FiniteSetsExt

CONSTANTS
    Workers,     \* worker processes
    Packages,    \* packages a host may have installed
    Import,      \* the request that imports a snapshot
    MaxSyncs     \* runs there may ever be: none is added beyond

ASSUME SyncAssumption == MaxSyncs \in Nat \ {0}
ASSUME ImportAssumption == Import \notin Workers

Syncs == 1..MaxSyncs      \* in the order they are created

VARIABLES
    sync,        \* the runs
    worker,      \* what each worker is doing
    asked,       \* an administrator's request has found no open run
    snapshot,    \* an uploaded snapshot that is being imported
    installed,   \* packages installed on the host
    affected,    \* packages OSV says are affected
    match,       \* the match of each package with its vulnerability
    apply        \* the results that are being applied: what was read of the tables

syncVars == <<sync, worker, asked, snapshot, installed, affected, match, apply>>

Appliers == Workers \union {Import}

NoSync == 0
Matches == {"none", "active", "resolved"}

Sync == [status : {"none", "queued", "running", "succeeded", "failed"},
         age : {"fresh", "retry", "refresh"}, over : BOOLEAN]

Worker == [pc : {"idle", "swept", "polling", "claimed", "running", "asking", "answered"},
           run : Syncs \union {NoSync}, over : SUBSET Syncs, due : BOOLEAN,
           queried : SUBSET Packages, found : SUBSET Packages]

Snapshot == [here : {TRUE}, listed : SUBSET Packages, found : SUBSET Packages]
NoSnapshot == [here |-> FALSE, listed |-> {}, found |-> {}]

\* "missed" is a ghost: packages that were off the host for some time since.
Apply == [stage : {"none", "matches", "commit"}, present : SUBSET Packages,
          rows : [Packages -> Matches \union {"unread"}], missed : SUBSET Packages]
NotApplying == [stage |-> "none", present |-> {}, rows |-> [p \in Packages |-> "unread"],
                missed |-> {}]

SyncTypeOK ==
    /\ sync \in [Syncs -> Sync]
    /\ worker \in [Workers -> Worker]
    /\ \A w \in Workers :
          worker[w].run = NoSync <=> worker[w].pc \in {"idle", "swept", "polling"}
    /\ asked \in BOOLEAN
    /\ snapshot \in Snapshot \union {NoSnapshot}
    /\ installed \subseteq Packages
    /\ affected \subseteq Packages
    /\ match \in [Packages -> Matches]
    /\ apply \in [Appliers -> Apply]

Free == [pc |-> "idle", run |-> NoSync, over |-> {}, due |-> FALSE,
         queried |-> {}, found |-> {}]

SyncInit ==
    /\ sync = [i \in Syncs |-> [status |-> "none", age |-> "fresh", over |-> FALSE]]
    /\ worker = [w \in Workers |-> Free]
    /\ asked = FALSE
    /\ snapshot = NoSnapshot
    /\ installed \in SUBSET Packages
    /\ affected \in SUBSET Packages
    /\ match = [p \in Packages |-> "none"]
    /\ apply = [x \in Appliers |-> NotApplying]

-----------------------------------------------------------------------------
(* The queue *)

Created == {i \in Syncs : sync[i].status # "none"}
Latest  == Max(Created \union {NoSync})
Fits    == Latest < MaxSyncs
OpenRun(i) == sync[i].status \in {"queued", "running"}

\* Only a running run is over its time limit.
Closed(i, status) == [sync[i] EXCEPT !.status = status, !.over = FALSE]

Added(s, status) == [s EXCEPT ![Latest + 1].status = status]

\* queue_vulnerability_sync answers with the open run there is, or adds one;
\* between the two it holds no lock.
Ask ==
    /\ ~asked
    /\ \A i \in Syncs : ~OpenRun(i)
    /\ asked' = TRUE
    /\ UNCHANGED <<sync, worker, snapshot, installed, affected, match, apply>>

Queue ==
    /\ asked /\ Fits
    /\ sync' = Added(sync, "queued")
    /\ asked' = FALSE
    /\ UNCHANGED <<worker, snapshot, installed, affected, match, apply>>

\* Mutant: running runs are left to their workers.
AbandonedNever(i) == FALSE

Abandoned(i) == sync[i].status = "running" /\ sync[i].over

RefreshDue == sync[Latest].age = "refresh"
RetryDue   == sync[Latest].status = "failed" /\ sync[Latest].age # "fresh"
RunDue     == Latest = NoSync \/ (~OpenRun(Latest) /\ (RefreshDue \/ RetryDue))

\* enqueue_scheduled_runs reads the runs that take too long and the latest run.
\* The latest run is seen as given up if it is one of the former.
Schedule(w) ==
    /\ worker[w].pc = "idle"
    /\ LET over == {i \in Syncs : Abandoned(i)}
           due  == RunDue \/ (Latest \in over /\ sync[Latest].age # "fresh")
       IN worker' = [worker EXCEPT ![w].pc = "swept", ![w].over = over, ![w].due = due]
    /\ UNCHANGED <<sync, asked, snapshot, installed, affected, match, apply>>

Enqueue(w) ==
    /\ worker[w].pc = "swept"
    /\ LET given == [i \in Syncs |-> IF i \in worker[w].over
                                     THEN Closed(i, "failed") ELSE sync[i]]
       IN sync' = IF worker[w].due /\ Fits THEN Added(given, "queued") ELSE given
    /\ worker' = [worker EXCEPT ![w] = [Free EXCEPT !.pc = "polling"]]
    /\ UNCHANGED <<asked, snapshot, installed, affected, match, apply>>

\* Mutant: the row is read without a lock.
RowRead(i) == TRUE

\* The row of a claimed run is locked until it is marked as running, and a
\* locked row is skipped.
RowFree(i) == \A w \in Workers : ~(worker[w].pc = "claimed" /\ worker[w].run = i)

Waiting == {i \in Syncs : sync[i].status = "queued" /\ RowFree(i)}

Claim(w) ==
    /\ worker[w].pc = "polling"
    /\ worker' = IF Waiting = {} THEN [worker EXCEPT ![w] = Free]
                 ELSE [worker EXCEPT ![w].pc = "claimed", ![w].run = Min(Waiting)]
    /\ UNCHANGED <<sync, asked, snapshot, installed, affected, match, apply>>

-----------------------------------------------------------------------------
(* A run *)

Start(w) ==
    /\ worker[w].pc = "claimed"
    /\ sync' = [sync EXCEPT ![worker[w].run].status = "running"]
    /\ worker' = [worker EXCEPT ![w].pc = "running"]
    /\ UNCHANGED <<asked, snapshot, installed, affected, match, apply>>

ReadPackages(w) ==
    /\ worker[w].pc = "running"
    /\ worker' = [worker EXCEPT ![w].pc = "asking", ![w].queried = installed]
    /\ apply' = [apply EXCEPT ![w].missed = Packages \ installed]
    /\ UNCHANGED <<sync, asked, snapshot, installed, affected, match>>

Fetch(w) ==
    /\ worker[w].pc = "asking"
    /\ worker' = [worker EXCEPT ![w].pc = "answered",
                                ![w].found = worker[w].queried \intersect affected]
    /\ UNCHANGED <<sync, asked, snapshot, installed, affected, match, apply>>

-----------------------------------------------------------------------------
(* apply_package_results, for a run and for a snapshot *)

Found(x)    == IF x = Import THEN snapshot.found ELSE worker[x].found
HasAsked(w) == worker[w].pc \in {"asking", "answered"}
Results(x)  == IF x = Import THEN snapshot.here ELSE worker[x].pc = "answered"

\* What was found about a package counts if the package is installed now.
ReadInstalled(x) ==
    /\ Results(x) /\ apply[x].stage = "none"
    /\ apply' = [apply EXCEPT ![x].stage = "matches", ![x].present = Found(x) \intersect installed]
    /\ UNCHANGED <<sync, worker, asked, snapshot, installed, affected, match>>

Unread(x) == {p \in apply[x].present : apply[x].rows[p] = "unread"}

Holds(x, p) == p \in apply[x].present /\ apply[x].rows[p] # "unread"

\* The record of the vulnerability is written first, which locks it until the commit; the
\* match of the package with it is looked up then.
ReadMatch(x, p) ==
    /\ apply[x].stage = "matches" /\ p \in Unread(x)
    /\ \A y \in Appliers : ~Holds(y, p)
    /\ apply' = [apply EXCEPT ![x].rows[p] = match[p]]
    /\ UNCHANGED <<sync, worker, asked, snapshot, installed, affected, match>>

\* After these, all active matches are read at once.
ReadActive(x) ==
    /\ apply[x].stage = "matches" /\ Unread(x) = {}
    /\ LET rows == [p \in Packages |-> IF p \in apply[x].present THEN apply[x].rows[p] ELSE match[p]]
       IN apply' = [apply EXCEPT ![x].stage = "commit", ![x].rows = rows]
    /\ UNCHANGED <<sync, worker, asked, snapshot, installed, affected, match>>

\* The matches of what was found become active; one that was read as active, is covered and
\* was not found is resolved.  A row is only written where it differs from what was read.
Applied(x, covered) ==
    [p \in Packages |->
        IF p \in apply[x].present /\ apply[x].rows[p] # "active" THEN "active"
        ELSE IF p \in covered \ apply[x].present /\ apply[x].rows[p] = "active" THEN "resolved"
        ELSE match[p]]

Committed(x, covered) ==
    /\ apply[x].stage = "commit"
    /\ match' = Applied(x, covered)
    /\ apply' = [apply EXCEPT ![x] = NotApplying]

-----------------------------------------------------------------------------
(* The end of a run *)

\* Mutant: the worker keeps hold of the run that has ended.
EndedOnly(w, status) ==
    /\ sync' = [sync EXCEPT ![worker[w].run] = Closed(worker[w].run, status)]
    /\ worker' = [worker EXCEPT ![w].pc = "polling"]

Ended(w, status) ==
    /\ sync' = [sync EXCEPT ![worker[w].run] = Closed(worker[w].run, status)]
    /\ worker' = [worker EXCEPT ![w] = [Free EXCEPT !.pc = "polling"]]

\* A run covers every package: what it did not ask about is resolved too.
Succeed(w) ==
    /\ worker[w].pc = "answered"
    /\ Committed(w, Packages)
    /\ Ended(w, "succeeded")
    /\ UNCHANGED <<asked, snapshot, installed, affected>>

\* A source does not answer, or the transaction fails and is rolled back.
Fail(w) ==
    /\ worker[w].pc \in {"running", "asking", "answered"}
    /\ Ended(w, "failed")
    /\ apply' = [apply EXCEPT ![w] = NotApplying]
    /\ UNCHANGED <<asked, snapshot, installed, affected, match>>

WorkerStops(w) ==
    /\ worker[w].pc # "idle"
    /\ worker' = [worker EXCEPT ![w] = Free]
    /\ apply' = [apply EXCEPT ![w] = NotApplying]
    /\ UNCHANGED <<sync, asked, snapshot, installed, affected, match>>

-----------------------------------------------------------------------------
(* The rest of the world *)

\* Mutant: a snapshot is taken to be complete, as a run is.
CoveredAll(listed) == Packages

\* An uploaded snapshot covers the packages it lists, and counts as a run.
Covered(listed) == listed

UploadSnapshot(listed, found) ==
    /\ ~snapshot.here
    /\ snapshot' = [here |-> TRUE, listed |-> listed, found |-> found]
    /\ apply' = [apply EXCEPT ![Import].missed = Packages \ installed]
    /\ UNCHANGED <<sync, worker, asked, installed, affected, match>>

ImportSnapshot ==
    /\ snapshot.here /\ Fits
    /\ Committed(Import, Covered(snapshot.listed))
    /\ sync' = Added(sync, "succeeded")
    /\ snapshot' = NoSnapshot
    /\ UNCHANGED <<worker, asked, installed, affected>>

\* A snapshot that is not valid, or whose transaction fails, changes nothing.
RefuseSnapshot ==
    /\ snapshot.here
    /\ snapshot' = NoSnapshot
    /\ apply' = [apply EXCEPT ![Import] = NotApplying]
    /\ UNCHANGED <<sync, worker, asked, installed, affected, match>>

Ages(i) ==
    /\ sync[i].status # "none" /\ sync[i].age # "refresh"
    /\ sync' = [sync EXCEPT ![i].age = IF @ = "fresh" THEN "retry" ELSE "refresh"]
    /\ UNCHANGED <<worker, asked, snapshot, installed, affected, match, apply>>

Overruns(i) ==
    /\ sync[i].status = "running" /\ ~sync[i].over
    /\ sync' = [sync EXCEPT ![i].over = TRUE]
    /\ UNCHANGED <<worker, asked, snapshot, installed, affected, match, apply>>

Begun(x) == IF x = Import THEN snapshot.here ELSE HasAsked(x)

InventoryChanges(set) ==
    /\ installed' = set
    /\ apply' = [x \in Appliers |->
                   IF Begun(x) THEN [apply[x] EXCEPT !.missed = @ \union (Packages \ set)] ELSE apply[x]]
    /\ UNCHANGED <<sync, worker, asked, snapshot, affected, match>>

OsvChanges(set) ==
    /\ affected' = set
    /\ UNCHANGED <<sync, worker, asked, snapshot, installed, match, apply>>

Applies(x) == ReadInstalled(x) \/ (\E p \in Packages : ReadMatch(x, p)) \/ ReadActive(x)

Work(w) ==
    \/ Schedule(w) \/ Enqueue(w) \/ Claim(w) \/ Start(w) \/ ReadPackages(w)
    \/ Fetch(w) \/ Applies(w) \/ Succeed(w) \/ Fail(w)

SyncNext ==
    \/ Ask \/ Queue
    \/ \E w \in Workers : Work(w) \/ WorkerStops(w)
    \/ \E listed \in SUBSET Packages : \E found \in SUBSET listed : UploadSnapshot(listed, found)
    \/ Applies(Import) \/ ImportSnapshot \/ RefuseSnapshot
    \/ \E i \in Syncs : Ages(i) \/ Overruns(i)
    \/ \E set \in SUBSET Packages : InventoryChanges(set) \/ OsvChanges(set)

\* Workers go on with their loop and requests end in time: the supervisor
\* starts a stopped worker again, and time passes for a run that is out.
SyncFairness ==
    /\ \A w \in Workers : WF_syncVars(Work(w))
    /\ \A i \in Syncs : WF_syncVars(Overruns(i))

SyncSpec == SyncInit /\ [][SyncNext]_syncVars /\ SyncFairness

-----------------------------------------------------------------------------
(* Properties *)

\* No run is worked on by two workers, from its claim on, and so a run that was
\* given up is never taken up again (process_next_run, SKIP LOCKED).
OneWorkerPerRun ==
    \A v, w \in Workers : v # w /\ worker[v].run # NoSync => worker[v].run # worker[w].run

Resolves(p) == p \in installed /\ match[p] = "active" /\ match'[p] = "resolved"
Answered(w) == worker[w].pc = "answered" /\ worker'[w].pc = "polling"

\* The match of a package that is on the host all the time is resolved only on evidence
\* about that package: by a run that asked its sources about it and was not told of it, or
\* by a snapshot that lists it without the match; whatever else is applied, and reported,
\* between the reads and the commit.  A package that was off the host for some time since
\* the run asked, or the snapshot came, may lose its match without such evidence.
ResolvedOnEvidence ==
    [][ \A p \in Packages : Resolves(p) =>
          \/ \E w \in Workers :
                Answered(w) /\ p \in (worker[w].queried \ worker[w].found) \union apply[w].missed
          \/ /\ ImportSnapshot /\ p \in snapshot.listed
             /\ p \in snapshot.found => p \in apply[Import].missed ]_syncVars

\* A run that is queued or running ends, although workers stop and a given-up
\* run is left running in the table (enqueue_scheduled_runs).  Until it ends, no
\* manual run can be queued.
OpenRunsEnd == \A i \in Syncs : []<>~OpenRun(i)
=============================================================================
