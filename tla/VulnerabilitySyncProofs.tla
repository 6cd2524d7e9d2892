------------------------ MODULE VulnerabilitySyncProofs ------------------------
(***************************************************************************)
(* Proofs about VulnerabilitySync, for any workers, packages and number of *)
(* runs.                                                                   *)
(***************************************************************************)
EXTENDS VulnerabilitySync, FiniteSetTheorems, WellFoundedInduction, TLAPS

-----------------------------------------------------------------------------
(* The newest run and the oldest one that waits *)

LEMMA LeastSync ==
    ASSUME NEW T, T \subseteq Nat, T # {}
    PROVE  \E x \in T : \A y \in T : x <= y
<1>1. \E x \in T : \A y \in T : ~ (<<y, x>> \in OpToRel(<, Nat))
  BY NatLessThanWellFounded, WFMin
<1>2. \A x, y \in Nat : ~ (<<y, x>> \in OpToRel(<, Nat)) => x <= y
  BY DEF OpToRel
<1> QED
  BY <1>1, <1>2

\* Min is an element of every set of runs that is not empty.
LEMMA OldestWaiting ==
    ASSUME NEW T \in SUBSET Syncs, T # {}
    PROVE  Min(T) \in T
<1>1. PICK x \in T : \A y \in T : x <= y
  <2>1. T \subseteq Nat
    BY SyncAssumption DEF Syncs
  <2> QED
    BY <2>1, LeastSync
<1>2. \E x1 \in T : \A y \in T : x1 =< y
  BY <1>1
<1> QED
  BY <1>2 DEF Min

\* Where a run can be added, it has a row that was not created before.
LEMMA NewestCreated ==
    ASSUME Fits
    PROVE  Latest + 1 \in Syncs /\ sync[Latest + 1].status = "none"
<1> DEFINE S == Created \union {NoSync}
           T == {MaxSyncs - i : i \in S}
<1>1. \A i \in S : i \in Nat /\ MaxSyncs - i \in Nat
  BY SyncAssumption DEF Created, Syncs, NoSync
<1>2. PICK x \in T : \A y \in T : x <= y
  <2>1. T \subseteq Nat /\ T # {}
    BY <1>1
  <2> HIDE DEF T
  <2> QED
    BY <2>1, LeastSync
<1>3. PICK i \in S : x = MaxSyncs - i
  BY <1>2
<1>4. \A j \in S : i >= j
  <2> TAKE j \in S
  <2>1. MaxSyncs - i <= MaxSyncs - j
    BY <1>2, <1>3
  <2> QED
    BY <1>1, <2>1, SyncAssumption
<1>5. Latest \in S /\ \A j \in S : Latest >= j
  <2>1. \E m \in S : \A j \in S : m >= j
    BY <1>4
  <2> HIDE DEF S
  <2> QED
    BY <2>1 DEF Max, Latest, S
<1>6. Latest \in Nat /\ Latest + 1 \in Syncs
  BY <1>1, <1>5, SyncAssumption DEF Fits, Syncs
<1>7. Latest + 1 \notin Created
  BY <1>5, <1>6
<1> QED
  BY <1>6, <1>7 DEF Created

-----------------------------------------------------------------------------
(* The inductive invariant *)

Statuses == {"none", "queued", "running", "succeeded", "failed"}
Taken(i) == sync[i].status \notin {"none", "queued"}

\* A run that a worker holds exists; from its start on, and once it is seen to take too
\* long, it is not queued any more.
HeldInv ==
    \A w \in Workers :
        /\ worker[w].run # NoSync =>
              /\ sync[worker[w].run].status # "none"
              /\ worker[w].pc # "claimed" => Taken(worker[w].run)
        /\ \A i \in worker[w].over : Taken(i)

SyncInv == SyncTypeOK /\ HeldInv /\ OneWorkerPerRun

\* What no step does to a run: it is not forgotten, and not queued a second time.
SyncsGoOn ==
    \A i \in Syncs : /\ sync[i].status # "none" => sync'[i].status # "none"
                     /\ Taken(i) => sync'[i].status \notin {"none", "queued"}

LEMMA NoSyncIsNone == NoSync \notin Syncs
BY DEF NoSync, Syncs

LEMMA SyncFields ==
    ASSUME SyncTypeOK, NEW w \in Workers
    PROVE  /\ worker[w] \in Worker
           /\ worker[w].pc \in {"idle", "swept", "polling", "claimed", "running", "asking", "answered"}
           /\ worker[w].run \in Syncs \union {NoSync}
           /\ worker[w].over \in SUBSET Syncs
           /\ worker[w].queried \in SUBSET Packages /\ worker[w].found \in SUBSET Packages
           /\ worker[w].pc \notin {"idle", "swept", "polling"} => worker[w].run \in Syncs
BY DEF SyncTypeOK, Worker

LEMMA FreeIsTyped == Free \in Worker /\ [Free EXCEPT !.pc = "polling"] \in Worker
BY DEF Free, Worker

\* A status may be replaced, and a run added where there is none.
LEMMA StatusIsTyped ==
    ASSUME SyncTypeOK, NEW i \in Syncs, NEW status \in Statuses
    PROVE  /\ [sync EXCEPT ![i].status = status] \in [Syncs -> Sync]
           /\ \A k \in Syncs : [sync EXCEPT ![i].status = status][k].status =
                                 IF k = i THEN status ELSE sync[k].status
<1>1. /\ sync[i] \in Sync
      /\ [sync EXCEPT ![i].status = status] = [sync EXCEPT ![i] = [sync[i] EXCEPT !.status = status]]
  BY DEF SyncTypeOK
<1>2. [sync[i] EXCEPT !.status = status] \in Sync
  BY <1>1 DEF Sync, Statuses
<1>3. [sync[i] EXCEPT !.status = status].status = status
  BY <1>1 DEF Sync
<1> QED
  BY <1>1, <1>2, <1>3 DEF SyncTypeOK

LEMMA SyncInitially == SyncInit => SyncInv
<1> SUFFICES ASSUME SyncInit PROVE SyncInv
  OBVIOUS
<1>0. apply \in [Appliers -> Apply]
  <2>1. NotApplying \in Apply
    BY DEF NotApplying, Apply
  <2> QED
    BY <2>1 DEF SyncInit
<1>1. SyncTypeOK
  BY <1>0, FreeIsTyped DEF SyncInit, SyncTypeOK, Sync, Free, Matches
<1>2. HeldInv /\ OneWorkerPerRun
  BY DEF SyncInit, HeldInv, OneWorkerPerRun, Free
<1> QED
  BY <1>1, <1>2 DEF SyncInv

-----------------------------------------------------------------------------
(* The steps *)

\* A worker goes on, with the run it has or none, while the runs go on.
LEMMA WorkerStep ==
    ASSUME SyncInv, NEW w \in Workers, NEW doing \in Worker,
           worker' = [worker EXCEPT ![w] = doing], SyncsGoOn,
           doing.run \in {NoSync, worker[w].run},
           doing.run = NoSync <=> doing.pc \in {"idle", "swept", "polling"},
           doing.run # NoSync => /\ doing.pc # "claimed"
                                 /\ sync'[doing.run].status \notin {"none", "queued"},
           \A i \in doing.over : sync'[i].status \notin {"none", "queued"}
    PROVE  HeldInv' /\ OneWorkerPerRun'
<1>1. worker'[w] = doing /\ \A v \in Workers \ {w} : worker'[v] = worker[v]
  BY DEF SyncInv, SyncTypeOK
<1>2. OneWorkerPerRun'
  BY <1>1 DEF SyncInv, OneWorkerPerRun
<1>3. ASSUME NEW v \in Workers \ {w}
      PROVE  /\ worker'[v].run # NoSync =>
                   /\ sync'[worker'[v].run].status # "none"
                   /\ worker'[v].pc # "claimed" => sync'[worker'[v].run].status \notin {"none", "queued"}
             /\ \A i \in worker'[v].over : sync'[i].status \notin {"none", "queued"}
  <2>1. worker[v].run \in Syncs \union {NoSync} /\ worker[v].over \in SUBSET Syncs
    BY SyncFields DEF SyncInv
  <2> QED
    BY <1>1, <1>3, <2>1 DEF SyncInv, HeldInv, SyncsGoOn
<1>4. HeldInv'
  BY <1>1, <1>3 DEF HeldInv, Taken
<1> QED
  BY <1>2, <1>4

\* The runs go on, and the workers do not move.
LEMMA RunsStep ==
    ASSUME SyncInv, SyncsGoOn, UNCHANGED worker
    PROVE  HeldInv' /\ OneWorkerPerRun'
<1>1. OneWorkerPerRun'
  BY DEF SyncInv, OneWorkerPerRun
<1>2. ASSUME NEW v \in Workers
      PROVE  /\ worker[v].run # NoSync =>
                   /\ sync'[worker[v].run].status # "none"
                   /\ worker[v].pc # "claimed" => sync'[worker[v].run].status \notin {"none", "queued"}
             /\ \A i \in worker[v].over : sync'[i].status \notin {"none", "queued"}
  <2>1. worker[v].run \in Syncs \union {NoSync} /\ worker[v].over \in SUBSET Syncs
    BY SyncFields DEF SyncInv
  <2> QED
    BY <2>1 DEF SyncInv, HeldInv, SyncsGoOn
<1>3. HeldInv'
  BY <1>2 DEF HeldInv, Taken
<1> QED
  BY <1>1, <1>3

\* What a run is replaced by when it ends, or when it is given up.
LEMMA ClosedIsTyped ==
    ASSUME SyncTypeOK, NEW i \in Syncs, NEW status \in {"succeeded", "failed"}
    PROVE  Closed(i, status) \in Sync /\ Closed(i, status).status = status
BY DEF SyncTypeOK, Sync, Closed

LEMMA ClosedStep ==
    ASSUME SyncTypeOK, NEW i \in Syncs, NEW status \in {"succeeded", "failed"},
           sync' = [sync EXCEPT ![i] = Closed(i, status)]
    PROVE  sync' \in [Syncs -> Sync] /\ SyncsGoOn
BY ClosedIsTyped DEF SyncsGoOn, Taken, SyncTypeOK

\* A status is replaced by a later one, or where there was none.
LEMMA StatusStep ==
    ASSUME SyncTypeOK, NEW i \in Syncs, NEW status \in Statuses \ {"none"},
           sync' = [sync EXCEPT ![i].status = status],
           status = "queued" => sync[i].status = "none"
    PROVE  sync' \in [Syncs -> Sync] /\ SyncsGoOn
BY StatusIsTyped, ZenonT(60) DEF SyncsGoOn, Taken, Statuses

\* A run is added.
LEMMA AddedStep ==
    ASSUME SyncTypeOK, Fits, NEW status \in Statuses \ {"none"}, sync' = Added(sync, status)
    PROVE  sync' \in [Syncs -> Sync] /\ SyncsGoOn
BY NewestCreated, StatusStep DEF Added

LEMMA AppliedIsTyped ==
    ASSUME SyncTypeOK, NEW x, NEW covered
    PROVE  Applied(x, covered) \in [Packages -> Matches]
BY DEF SyncTypeOK, Applied, Matches

LEMMA NothingApplied == NotApplying \in Apply /\ NotApplying.stage = "none"
BY DEF NotApplying, Apply

\* What is being applied stays typed, whoever reads, begins or ends.
LEMMA ReadsStep ==
    ASSUME SyncTypeOK, NEW x \in Appliers, Applies(x)
    PROVE  apply' \in [Appliers -> Apply] /\ \A y \in Appliers \ {x} : apply'[y] = apply[y]
<1>0. apply[x] \in Apply /\ match \in [Packages -> Matches] /\ apply \in [Appliers -> Apply]
  BY DEF SyncTypeOK
<1>1. PICK reading : apply' = [apply EXCEPT ![x] = reading] /\ reading \in Apply
  <2>1. CASE ReadInstalled(x)
    <3>1. Found(x) \intersect installed \in SUBSET Packages
      BY DEF SyncTypeOK
    <3>2. [apply[x] EXCEPT !.stage = "matches", !.present = Found(x) \intersect installed] \in Apply
      BY <1>0, <3>1 DEF Apply
    <3>3. apply' = [apply EXCEPT ![x] = [apply[x] EXCEPT !.stage = "matches",
                                                         !.present = Found(x) \intersect installed]]
      BY <1>0, <2>1 DEF ReadInstalled
    <3> QED
      BY <3>2, <3>3
  <2>2. ASSUME NEW p \in Packages, ReadMatch(x, p)
        PROVE  \E reading : apply' = [apply EXCEPT ![x] = reading] /\ reading \in Apply
    <3>1. [apply[x].rows EXCEPT ![p] = match[p]] \in [Packages -> Matches \union {"unread"}]
      BY <1>0 DEF Apply
    <3>2. [apply[x] EXCEPT !.rows = [apply[x].rows EXCEPT ![p] = match[p]]] \in Apply
      BY <1>0, <3>1 DEF Apply
    <3>3. apply' = [apply EXCEPT ![x] = [apply[x] EXCEPT !.rows = [apply[x].rows EXCEPT ![p] = match[p]]]]
      BY <1>0, <2>2 DEF ReadMatch, Apply
    <3> QED
      BY <3>2, <3>3
  <2>3. CASE ReadActive(x)
    <3>1. PICK rows : /\ rows = [p \in Packages |-> IF p \in apply[x].present THEN apply[x].rows[p]
                                                   ELSE match[p]]
                      /\ apply' = [apply EXCEPT ![x].stage = "commit", ![x].rows = rows]
      BY <2>3 DEF ReadActive
    <3>2. rows \in [Packages -> Matches \union {"unread"}]
      BY <1>0, <3>1 DEF Apply
    <3>3. [apply[x] EXCEPT !.stage = "commit", !.rows = rows] \in Apply
      BY <1>0, <3>2 DEF Apply
    <3>4. apply' = [apply EXCEPT ![x] = [apply[x] EXCEPT !.stage = "commit", !.rows = rows]]
      BY <1>0, <3>1
    <3> QED
      BY <3>3, <3>4
  <2> QED
    BY <2>1, <2>2, <2>3 DEF Applies
<1> QED
  BY <1>0, <1>1

LEMMA ApplyIsTyped ==
    ASSUME SyncTypeOK, [SyncNext]_syncVars
    PROVE  apply' \in [Appliers -> Apply]
<1>1. ASSUME NEW x \in Appliers, NEW reading \in Apply, apply' = [apply EXCEPT ![x] = reading]
      PROVE  apply' \in [Appliers -> Apply]
  BY <1>1 DEF SyncTypeOK
<1>2. CASE UNCHANGED apply
  BY <1>2 DEF SyncTypeOK
<1>3. ASSUME NEW x \in Appliers, NEW missed \in SUBSET Packages
      PROVE  [apply[x] EXCEPT !.missed = missed] \in Apply
  BY <1>3 DEF SyncTypeOK, Apply
<1>4. ASSUME NEW w \in Workers, ReadPackages(w) PROVE apply' \in [Appliers -> Apply]
  <2>1. w \in Appliers /\ Packages \ installed \in SUBSET Packages
    BY DEF Appliers
  <2>2. apply' = [apply EXCEPT ![w] = [apply[w] EXCEPT !.missed = Packages \ installed]]
    BY <1>4, <2>1 DEF ReadPackages, SyncTypeOK
  <2> QED
    BY <1>1, <1>3, <2>1, <2>2
<1>5. ASSUME NEW w \in Workers, Succeed(w) \/ Fail(w) \/ WorkerStops(w)
      PROVE  apply' \in [Appliers -> Apply]
  <2>1. w \in Appliers /\ apply' = [apply EXCEPT ![w] = NotApplying]
    BY <1>5 DEF Succeed, Fail, WorkerStops, Committed, Appliers
  <2> QED
    BY <1>1, <2>1, NothingApplied
<1>6. CASE ImportSnapshot \/ RefuseSnapshot
  <2>1. Import \in Appliers /\ apply' = [apply EXCEPT ![Import] = NotApplying]
    BY <1>6 DEF ImportSnapshot, RefuseSnapshot, Committed, Appliers
  <2> QED
    BY <1>1, <2>1, NothingApplied
<1>7. ASSUME NEW listed, NEW found, UploadSnapshot(listed, found) PROVE apply' \in [Appliers -> Apply]
  <2>1. Import \in Appliers /\ Packages \ installed \in SUBSET Packages
    BY DEF Appliers
  <2>2. apply' = [apply EXCEPT ![Import] = [apply[Import] EXCEPT !.missed = Packages \ installed]]
    BY <1>7, <2>1 DEF UploadSnapshot, SyncTypeOK
  <2> QED
    BY <1>1, <1>3, <2>1, <2>2
<1>8. ASSUME NEW set \in SUBSET Packages, InventoryChanges(set) PROVE apply' \in [Appliers -> Apply]
  <2>1. \A x \in Appliers : apply[x] \in Apply /\ apply[x].missed \union (Packages \ set) \in SUBSET Packages
    BY DEF SyncTypeOK, Apply
  <2>2. \A x \in Appliers :
          [apply[x] EXCEPT !.missed = apply[x].missed \union (Packages \ set)] \in Apply
    BY <1>3, <2>1
  <2> QED
    BY <1>8, <2>1, <2>2 DEF InventoryChanges
<1>9. ASSUME NEW w \in Workers, Work(w) PROVE apply' \in [Appliers -> Apply]
  <2>1. CASE Applies(w)
    BY <2>1, ReadsStep DEF Appliers
  <2>2. CASE Schedule(w) \/ Enqueue(w) \/ Claim(w) \/ Start(w) \/ Fetch(w)
    BY <1>2, <2>2 DEF Schedule, Enqueue, Claim, Start, Fetch
  <2> QED
    BY <1>4, <1>5, <1>9, <2>1, <2>2 DEF Work
<1>10. CASE Applies(Import)
  BY <1>10, ReadsStep DEF Appliers
<1>11. CASE Ask \/ Queue \/ \E i \in Syncs : Ages(i) \/ Overruns(i)
  BY <1>2, <1>11 DEF Ask, Queue, Ages, Overruns
<1>12. ASSUME NEW set \in SUBSET Packages, OsvChanges(set) PROVE apply' \in [Appliers -> Apply]
  BY <1>2, <1>12 DEF OsvChanges
<1>13. CASE UNCHANGED syncVars
  BY <1>2, <1>13 DEF syncVars
<1> QED
  BY <1>5, <1>6, <1>7, <1>8, <1>9, <1>10, <1>11, <1>12, <1>13 DEF SyncNext

LEMMA QueueStep ==
    ASSUME SyncInv, apply' \in [Appliers -> Apply],
           \/ Ask \/ Queue \/ ImportSnapshot \/ RefuseSnapshot
           \/ \E listed \in SUBSET Packages : \E found \in SUBSET listed : UploadSnapshot(listed, found)
    PROVE  SyncInv'
<1>1. ASSUME UNCHANGED <<sync, worker>>, asked' \in BOOLEAN, snapshot' \in Snapshot \union {NoSnapshot},
             UNCHANGED <<installed, affected, match>>
      PROVE  SyncInv'
  BY <1>1 DEF SyncInv, SyncTypeOK, HeldInv, Taken, OneWorkerPerRun
<1>2. CASE Ask \/ RefuseSnapshot
  BY <1>1, <1>2 DEF Ask, RefuseSnapshot, SyncInv, SyncTypeOK
<1>3. ASSUME NEW listed \in SUBSET Packages, NEW found \in SUBSET listed, UploadSnapshot(listed, found)
      PROVE  SyncInv'
  <2>1. snapshot' \in Snapshot
    BY <1>3 DEF UploadSnapshot, Snapshot
  <2> QED
    BY <1>1, <1>3, <2>1 DEF UploadSnapshot, SyncInv, SyncTypeOK
<1>4. CASE Queue
  <2>1. sync' \in [Syncs -> Sync] /\ SyncsGoOn
    BY <1>4, AddedStep DEF Queue, SyncInv, Statuses
  <2>2. SyncTypeOK'
    BY <1>4, <2>1 DEF Queue, SyncInv, SyncTypeOK
  <2> QED
    BY <1>4, <2>1, <2>2, RunsStep DEF Queue, SyncInv
<1>5. CASE ImportSnapshot
  <2>1. sync' \in [Syncs -> Sync] /\ SyncsGoOn
    BY <1>5, AddedStep DEF ImportSnapshot, SyncInv, Statuses
  <2>2. match' \in [Packages -> Matches]
    BY <1>5, AppliedIsTyped DEF ImportSnapshot, Committed, SyncInv
  <2>3. SyncTypeOK'
    BY <1>5, <2>1, <2>2 DEF ImportSnapshot, SyncInv, SyncTypeOK
  <2> QED
    BY <1>5, <2>1, <2>3, RunsStep DEF ImportSnapshot, SyncInv
<1> QED
  BY <1>2, <1>3, <1>4, <1>5

\* A worker starts a cycle of its loop, or stops: it holds no run.
LEMMA LoopStep ==
    ASSUME SyncInv, apply' \in [Appliers -> Apply], NEW w \in Workers, Schedule(w) \/ Enqueue(w) \/ WorkerStops(w)
    PROVE  SyncInv'
<1>1. CASE Schedule(w)
  <2>1. PICK over, due : /\ over = {i \in Syncs : Abandoned(i)} /\ due \in BOOLEAN
                         /\ worker' = [worker EXCEPT ![w].pc = "swept", ![w].over = over, ![w].due = due]
    BY <1>1 DEF Schedule
  <2>2. worker[w] \in Worker /\ worker[w].run = NoSync
    BY <1>1, SyncFields DEF Schedule, SyncInv, SyncTypeOK
  <2>3. PICK doing : doing = [worker[w] EXCEPT !.pc = "swept", !.over = over, !.due = due]
    OBVIOUS
  <2>4. /\ doing \in Worker /\ doing.run = NoSync /\ doing.pc = "swept" /\ doing.over = over
        /\ worker' = [worker EXCEPT ![w] = doing]
    BY <2>1, <2>2, <2>3 DEF Worker, SyncInv, SyncTypeOK
  <2>5. SyncsGoOn /\ \A i \in over : sync'[i].status \notin {"none", "queued"}
    BY <1>1, <2>1 DEF Schedule, Abandoned, SyncsGoOn, Taken
  <2>6. SyncTypeOK'
    BY <1>1, <2>4, ZenonT(60) DEF Schedule, SyncInv, SyncTypeOK
  <2> QED
    BY <2>4, <2>5, <2>6, WorkerStep DEF SyncInv
<1>2. CASE WorkerStops(w)
  <2>1. SyncsGoOn
    BY <1>2 DEF WorkerStops, SyncsGoOn, Taken
  <2>2. SyncTypeOK'
    BY <1>2, FreeIsTyped DEF WorkerStops, SyncInv, SyncTypeOK, Free
  <2> QED
    BY <1>2, <2>1, <2>2, FreeIsTyped, WorkerStep DEF WorkerStops, Free, SyncInv
<1>3. CASE Enqueue(w)
  <2>1. worker[w].over \in SUBSET Syncs /\ \A i \in worker[w].over : Taken(i)
    BY SyncFields DEF SyncInv, HeldInv
  <2>2. PICK given : /\ given = [i \in Syncs |-> IF i \in worker[w].over
                                                 THEN Closed(i, "failed") ELSE sync[i]]
                     /\ sync' = IF worker[w].due /\ Fits THEN Added(given, "queued") ELSE given
    BY <1>3 DEF Enqueue
  <2>3. \A i \in Syncs : /\ given[i] \in Sync
                         /\ sync[i].status # "none" => given[i].status # "none"
                         /\ Taken(i) => given[i].status \notin {"none", "queued"}
    BY <2>2, ClosedIsTyped DEF SyncInv, SyncTypeOK, Taken
  <2>4. sync' \in [Syncs -> Sync] /\ SyncsGoOn
    <3>1. CASE ~ (worker[w].due /\ Fits)
      BY <2>2, <2>3, <3>1 DEF SyncsGoOn
    <3>2. CASE worker[w].due /\ Fits
      <4>1. PICK n \in Syncs : n = Latest + 1 /\ sync[n].status = "none"
        BY <3>2, NewestCreated
      <4>2. sync' = [given EXCEPT ![n].status = "queued"]
        BY <2>2, <3>2, <4>1 DEF Added
      <4>3. given \in [Syncs -> Sync]
        BY <2>2, <2>3
      <4>4. sync' = [given EXCEPT ![n] = [given[n] EXCEPT !.status = "queued"]]
        BY <4>2, <4>3
      <4>5. [given[n] EXCEPT !.status = "queued"] \in Sync
        BY <2>3 DEF Sync
      <4>6. \A i \in Syncs \ {n} : sync'[i] = given[i]
        BY <4>3, <4>4
      <4>7. SyncsGoOn
        BY <2>3, <4>1, <4>6 DEF SyncsGoOn, Taken
      <4> QED
        BY <4>3, <4>4, <4>5, <4>7
    <3> QED
      BY <3>1, <3>2
  <2>5. PICK doing \in Worker : doing = [Free EXCEPT !.pc = "polling"]
    BY FreeIsTyped
  <2>6. doing.run = NoSync /\ doing.pc = "polling" /\ doing.over = {}
    BY <2>5 DEF Free
  <2>7. worker' = [worker EXCEPT ![w] = doing]
    BY <1>3, <2>5 DEF Enqueue
  <2>8. SyncTypeOK'
    BY <1>3, <2>4, <2>6, <2>7 DEF Enqueue, SyncInv, SyncTypeOK
  <2> QED
    BY <2>4, <2>6, <2>7, <2>8, WorkerStep DEF SyncInv
<1> QED
  BY <1>1, <1>2, <1>3

\* A worker claims the oldest run whose row is free: nobody holds it.
LEMMA ClaimStep ==
    ASSUME SyncInv, apply' \in [Appliers -> Apply], NEW w \in Workers, Claim(w)
    PROVE  SyncInv'
<1>1. CASE Waiting = {}
  <2>1. SyncsGoOn
    BY <1>1 DEF Claim, SyncsGoOn, Taken
  <2>2. SyncTypeOK'
    BY <1>1, FreeIsTyped DEF Claim, SyncInv, SyncTypeOK, Free
  <2> QED
    BY <1>1, <2>1, <2>2, FreeIsTyped, WorkerStep DEF Claim, Free, SyncInv
<1>2. CASE Waiting # {}
  <2>1. PICK i \in Waiting : i = Min(Waiting)
    <3>1. Waiting \in SUBSET Syncs
      BY DEF Waiting
    <3> QED
      BY <1>2, <3>1, OldestWaiting
  <2>2. i \in Syncs /\ sync[i].status = "queued" /\ RowFree(i)
    BY <2>1 DEF Waiting
  <2>3. PICK doing : doing = [worker[w] EXCEPT !.pc = "claimed", !.run = i]
    OBVIOUS
  <2>4. /\ doing \in Worker /\ doing.pc = "claimed" /\ doing.run = i /\ doing.over = worker[w].over
        /\ worker' = [worker EXCEPT ![w] = doing]
    BY <1>2, <2>1, <2>2, <2>3, SyncFields DEF Claim, Worker, SyncInv, SyncTypeOK
  <2>5. worker'[w] = doing /\ \A v \in Workers \ {w} : worker'[v] = worker[v]
    BY <2>4 DEF SyncInv, SyncTypeOK
  <2>6. \A v \in Workers : worker[v].run # i
    <3> SUFFICES ASSUME NEW v \in Workers, worker[v].run = i PROVE FALSE
      OBVIOUS
    <3>1. worker[v].pc = "claimed"
      BY <2>2, NoSyncIsNone DEF SyncInv, HeldInv, Taken
    <3> QED
      BY <2>2, <3>1 DEF RowFree
  <2>7. OneWorkerPerRun'
    BY <2>4, <2>5, <2>6 DEF SyncInv, OneWorkerPerRun
  <2>8. sync' = sync
    BY <1>2 DEF Claim
  <2>9. HeldInv'
    BY <2>2, <2>4, <2>5, <2>8 DEF SyncInv, HeldInv, Taken
  <2>10. SyncTypeOK'
    BY <1>2, <2>2, <2>4, <2>5, NoSyncIsNone DEF Claim, SyncInv, SyncTypeOK
  <2> QED
    BY <2>7, <2>9, <2>10 DEF SyncInv
<1> QED
  BY <1>1, <1>2

\* A worker goes on with the run it holds.
LEMMA RunStep ==
    ASSUME SyncInv, apply' \in [Appliers -> Apply], NEW w \in Workers, Start(w) \/ ReadPackages(w) \/ Fetch(w)
    PROVE  SyncInv'
<1>1. /\ worker[w] \in Worker /\ worker[w].run \in Syncs /\ worker[w].over \in SUBSET Syncs
      /\ worker[w].run # NoSync
  BY SyncFields, NoSyncIsNone DEF SyncInv, Start, ReadPackages, Fetch
<1>2. ASSUME NEW doing \in Worker, worker' = [worker EXCEPT ![w] = doing],
             doing.run = worker[w].run, doing.over = worker[w].over,
             doing.pc \in {"running", "asking", "answered"},
             sync' \in [Syncs -> Sync], SyncsGoOn, sync'[doing.run].status \notin {"none", "queued"},
             UNCHANGED <<asked, snapshot, installed, affected, match>>
      PROVE  SyncInv'
  <2>1. \A i \in doing.over : sync'[i].status \notin {"none", "queued"}
    BY <1>1, <1>2 DEF SyncInv, HeldInv, SyncsGoOn
  <2>2. HeldInv' /\ OneWorkerPerRun'
    BY <1>1, <1>2, <2>1, WorkerStep
  <2>3. SyncTypeOK'
    BY <1>1, <1>2 DEF SyncInv, SyncTypeOK
  <2> QED
    BY <2>2, <2>3 DEF SyncInv
<1>3. CASE Start(w)
  <2>1. PICK doing : doing = [worker[w] EXCEPT !.pc = "running"]
    OBVIOUS
  <2>2. /\ doing \in Worker /\ doing.run = worker[w].run /\ doing.over = worker[w].over
        /\ doing.pc = "running" /\ worker' = [worker EXCEPT ![w] = doing]
    BY <1>1, <1>3, <2>1 DEF Start, Worker, SyncInv, SyncTypeOK
  <2>3. sync' = [sync EXCEPT ![worker[w].run].status = "running"]
    BY <1>3 DEF Start
  <2>4. /\ sync' \in [Syncs -> Sync] /\ SyncsGoOn
        /\ sync'[worker[w].run].status = "running"
    <3>1. "running" \in Statuses \ {"none"}
      BY DEF Statuses
    <3>2. sync' \in [Syncs -> Sync] /\ SyncsGoOn
      BY <1>1, <2>3, <3>1, StatusStep DEF SyncInv
    <3>3. sync'[worker[w].run].status = "running"
      BY <1>1, <2>3, <3>1, StatusIsTyped DEF SyncInv
    <3> QED
      BY <3>2, <3>3
  <2> QED
    BY <1>2, <1>3, <2>2, <2>4 DEF Start
<1>4. CASE ReadPackages(w) \/ Fetch(w)
  <2>1. PICK queried \in SUBSET Packages, found \in SUBSET Packages, step \in {"asking", "answered"} :
          worker' = [worker EXCEPT ![w] = [worker[w] EXCEPT !.pc = step, !.queried = queried, !.found = found]]
    <3>1. CASE ReadPackages(w)
      <4>1. worker' = [worker EXCEPT ![w] = [worker[w] EXCEPT !.pc = "asking", !.queried = installed,
                                                               !.found = worker[w].found]]
        BY <1>1, <3>1 DEF ReadPackages, Worker, SyncInv, SyncTypeOK
      <4> QED
        BY <1>1, <4>1, SyncFields DEF SyncInv, SyncTypeOK
    <3>2. CASE Fetch(w)
      <4>1. worker' = [worker EXCEPT ![w] = [worker[w] EXCEPT !.pc = "answered",
                          !.queried = worker[w].queried, !.found = worker[w].queried \intersect affected]]
        BY <1>1, <3>2 DEF Fetch, Worker, SyncInv, SyncTypeOK
      <4> QED
        BY <1>1, <4>1, SyncFields DEF SyncInv, SyncTypeOK
    <3> QED
      BY <1>4, <3>1, <3>2
  <2>2. PICK doing : doing = [worker[w] EXCEPT !.pc = step, !.queried = queried, !.found = found]
    OBVIOUS
  <2>3. /\ doing \in Worker /\ doing.run = worker[w].run /\ doing.over = worker[w].over
        /\ doing.pc \in {"running", "asking", "answered"}
    BY <1>1, <2>1, <2>2 DEF Worker
  <2>4. Taken(worker[w].run)
    BY <1>1, <1>4 DEF SyncInv, HeldInv, ReadPackages, Fetch
  <2>5. sync' = sync /\ UNCHANGED <<asked, snapshot, installed, affected, match>>
    BY <1>4 DEF ReadPackages, Fetch
  <2>6. sync' \in [Syncs -> Sync] /\ SyncsGoOn /\ sync'[doing.run].status \notin {"none", "queued"}
    BY <2>3, <2>4, <2>5 DEF SyncInv, SyncTypeOK, SyncsGoOn, Taken
  <2> QED
    BY <1>2, <2>1, <2>2, <2>3, <2>5, <2>6
<1> QED
  BY <1>3, <1>4

\* A worker ends the run it holds and lets go of it.
LEMMA EndStep ==
    ASSUME SyncInv, apply' \in [Appliers -> Apply], NEW w \in Workers, Succeed(w) \/ Fail(w)
    PROVE  SyncInv'
<1>1. worker[w].run \in Syncs
  BY SyncFields DEF SyncInv, Succeed, Fail
<1>2. PICK status \in {"succeeded", "failed"} : Ended(w, status)
  BY DEF Succeed, Fail
<1>3. sync' \in [Syncs -> Sync] /\ SyncsGoOn
  BY <1>1, <1>2, ClosedStep DEF Ended, SyncInv
<1>4. PICK doing \in Worker : doing = [Free EXCEPT !.pc = "polling"]
  BY FreeIsTyped
<1>5. /\ doing.run = NoSync /\ doing.pc = "polling" /\ doing.over = {}
      /\ worker' = [worker EXCEPT ![w] = doing]
  BY <1>2, <1>4 DEF Free, Ended
<1>6. match' \in [Packages -> Matches] /\ UNCHANGED <<asked, snapshot, installed, affected>>
  BY AppliedIsTyped DEF SyncInv, SyncTypeOK, Succeed, Committed, Fail
<1>7. SyncTypeOK'
  BY <1>3, <1>5, <1>6 DEF SyncInv, SyncTypeOK
<1> QED
  BY <1>3, <1>5, <1>7, WorkerStep DEF SyncInv

\* Time passes, and the outside world changes.
LEMMA WorldStep ==
    ASSUME SyncInv, apply' \in [Appliers -> Apply],
           \/ \E i \in Syncs : Ages(i) \/ Overruns(i)
           \/ \E set \in SUBSET Packages : InventoryChanges(set) \/ OsvChanges(set)
    PROVE  SyncInv'
<1>1. sync' \in [Syncs -> Sync] /\ SyncsGoOn
  <2>1. ASSUME NEW i \in Syncs, Ages(i) PROVE sync' \in [Syncs -> Sync] /\ SyncsGoOn
    BY <2>1 DEF Ages, SyncInv, SyncTypeOK, Sync, SyncsGoOn, Taken
  <2>2. ASSUME NEW i \in Syncs, Overruns(i) PROVE sync' \in [Syncs -> Sync] /\ SyncsGoOn
    BY <2>2 DEF Overruns, SyncInv, SyncTypeOK, Sync, SyncsGoOn, Taken
  <2>3. CASE UNCHANGED sync
    BY <2>3 DEF SyncInv, SyncTypeOK, SyncsGoOn, Taken
  <2> QED
    BY <2>1, <2>2, <2>3 DEF InventoryChanges, OsvChanges
<1>2. SyncTypeOK'
  BY <1>1 DEF Ages, Overruns, InventoryChanges, OsvChanges, SyncInv, SyncTypeOK
<1> QED
  BY <1>1, <1>2, RunsStep DEF Ages, Overruns, InventoryChanges, OsvChanges, SyncInv

\* The tables are only read.
LEMMA ApplyOnly ==
    ASSUME SyncInv, apply' \in [Appliers -> Apply],
           UNCHANGED <<sync, worker, asked, snapshot, installed, affected, match>>
    PROVE  SyncInv'
BY DEF SyncInv, SyncTypeOK, HeldInv, Taken, OneWorkerPerRun

LEMMA SyncPreserved == SyncInv /\ [SyncNext]_syncVars => SyncInv'
<1> SUFFICES ASSUME SyncInv, [SyncNext]_syncVars PROVE SyncInv'
  OBVIOUS
<1>1. CASE UNCHANGED syncVars
  BY <1>1 DEF syncVars, SyncInv, SyncTypeOK, HeldInv, Taken, OneWorkerPerRun
<1>2. apply' \in [Appliers -> Apply]
  BY ApplyIsTyped DEF SyncInv
<1>3. ASSUME NEW x \in Appliers, Applies(x) PROVE SyncInv'
  BY <1>2, <1>3, ApplyOnly DEF Applies, ReadInstalled, ReadMatch, ReadActive
<1>4. ASSUME NEW w \in Workers, Work(w) \/ WorkerStops(w) PROVE SyncInv'
  BY <1>2, <1>3, <1>4, LoopStep, ClaimStep, RunStep, EndStep DEF Work, Appliers
<1> QED
  BY <1>1, <1>2, <1>3, <1>4, QueueStep, WorldStep DEF SyncNext, Appliers

LEMMA SyncInvariant == SyncSpec => []SyncInv
<1> QED
  BY SyncInitially, SyncPreserved, PTL DEF SyncSpec

-----------------------------------------------------------------------------
(* Theorems *)

\* Runs, workers and matches are of their types.
THEOREM SyncTypeCorrect == SyncSpec => []SyncTypeOK
BY SyncInvariant, PTL DEF SyncInv

\* No run is worked on by two workers: its row is locked while it is claimed, and from its
\* start on it is not queued any more, although it may be given up or its worker may stop.
THEOREM RunsHaveOneWorker == SyncSpec => []OneWorkerPerRun
BY SyncInvariant, PTL DEF SyncInv

-----------------------------------------------------------------------------
(* The evidence for what is resolved *)

\* What an applier cannot tell of a package is due to the package's absence: it is not on
\* the host, was not asked about, or was found and not seen among the installed ones.
Sound(x) ==
    /\ Begun(x) => Packages \ installed \subseteq apply[x].missed
    /\ x \in Workers /\ HasAsked(x) => Packages \ worker[x].queried \subseteq apply[x].missed
    /\ apply[x].stage # "none" =>
          Results(x) /\ (Found(x) \intersect Packages) \ apply[x].present \subseteq apply[x].missed

SoundInv == \A x \in Appliers : Sound(x)

LEMMA AppliersAre ==
    /\ Import \in Appliers /\ Workers \subseteq Appliers
    /\ \A x \in Appliers : x = Import \/ (x \in Workers /\ x # Import)
BY ImportAssumption DEF Appliers

\* Who is not touched by a step knows as much as before.
LEMMA SoundStays ==
    ASSUME NEW x \in Appliers, Sound(x), apply'[x] = apply[x], installed' = installed,
           x \in Workers => worker'[x] = worker[x],
           x = Import => snapshot' = snapshot
    PROVE  Sound(x)'
<1>1. (x \in Workers /\ x # Import) \/ x = Import
  BY AppliersAre
<1>2. (Begun(x)' <=> Begun(x)) /\ (Results(x)' <=> Results(x)) /\ Found(x)' = Found(x)
  BY <1>1 DEF Begun, HasAsked, Results, Found
<1>3. x \in Workers => (HasAsked(x)' <=> HasAsked(x)) /\ worker'[x].queried = worker[x].queried
  BY DEF HasAsked
<1> QED
  BY <1>2, <1>3 DEF Sound

\* Who has nothing to apply need not know anything.
LEMMA SoundAnew ==
    ASSUME NEW x \in Appliers, ~Begun(x)', apply'[x].stage = "none"
    PROVE  Sound(x)'
<1>1. x \in Workers => ~HasAsked(x)'
  BY ImportAssumption DEF Begun
<1> QED
  BY <1>1 DEF Sound

\* A step of one worker.
LEMMA SoundWorker ==
    ASSUME SyncInv, SoundInv, NEW w \in Workers, Sound(w)',
           UNCHANGED <<snapshot, installed>>,
           \A x \in Workers \ {w} : worker'[x] = worker[x],
           \A x \in Appliers \ {w} : apply'[x] = apply[x]
    PROVE  SoundInv'
<1>1. ASSUME NEW x \in Appliers \ {w} PROVE Sound(x)'
  BY <1>1, SoundStays, AppliersAre DEF SoundInv
<1> QED
  BY <1>1 DEF SoundInv

LEMMA SoundLoop ==
    ASSUME SyncInv, SoundInv, NEW w \in Workers,
           \/ Schedule(w) \/ Enqueue(w) \/ Claim(w) \/ Start(w)
           \/ Succeed(w) \/ Fail(w) \/ WorkerStops(w)
    PROVE  SoundInv'
<1>1. w \in Appliers /\ w # Import /\ apply \in [Appliers -> Apply] /\ worker \in [Workers -> Worker]
  BY AppliersAre, ImportAssumption DEF SyncInv, SyncTypeOK
<1>2. worker[w] \in Worker
  BY <1>1
<1>3. /\ worker'[w].pc \notin {"asking", "answered"}
      /\ \A x \in Workers \ {w} : worker'[x] = worker[x]
  <2>1. CASE Schedule(w)
    <3>1. PICK over, due :
             worker' = [worker EXCEPT ![w] = [worker[w] EXCEPT !.pc = "swept", !.over = over, !.due = due]]
      BY <1>1, <2>1 DEF Schedule
    <3> QED
      BY <1>1, <1>2, <3>1 DEF Worker
  <2>2. CASE Claim(w)
    <3>1. CASE Waiting = {}
      BY <1>1, <2>2, <3>1 DEF Claim, Free
    <3>2. CASE Waiting # {}
      <4>1. worker' = [worker EXCEPT ![w] = [worker[w] EXCEPT !.pc = "claimed", !.run = Min(Waiting)]]
        BY <1>1, <2>2, <3>2 DEF Claim
      <4> QED
        BY <1>1, <1>2, <4>1 DEF Worker
    <3> QED
      BY <3>1, <3>2
  <2>3. CASE Start(w)
    <3>1. worker' = [worker EXCEPT ![w] = [worker[w] EXCEPT !.pc = "running"]]
      BY <1>1, <2>3 DEF Start
    <3> QED
      BY <1>1, <1>2, <3>1 DEF Worker
  <2>4. CASE Enqueue(w) \/ Succeed(w) \/ Fail(w)
    <3>1. worker' = [worker EXCEPT ![w] = [Free EXCEPT !.pc = "polling"]]
      BY <2>4 DEF Enqueue, Succeed, Fail, Ended
    <3> QED
      BY <1>1, <3>1 DEF Free
  <2>5. CASE WorkerStops(w)
    BY <1>1, <2>5 DEF WorkerStops, Free
  <2> QED
    BY <2>1, <2>2, <2>3, <2>4, <2>5
<1>4. ~Begun(w)'
  BY <1>1, <1>3 DEF Begun, HasAsked
<1>5. apply'[w].stage = "none" /\ \A x \in Appliers \ {w} : apply'[x] = apply[x]
  <2>1. CASE Schedule(w) \/ Enqueue(w) \/ Claim(w) \/ Start(w)
    <3>1. worker[w].pc # "answered"
      BY <2>1 DEF Schedule, Enqueue, Claim, Start
    <3>2. apply[w].stage = "none"
      BY <1>1, <3>1 DEF SoundInv, Sound, Results
    <3>3. apply' = apply
      BY <2>1 DEF Schedule, Enqueue, Claim, Start
    <3> QED
      BY <3>2, <3>3
  <2>2. CASE Succeed(w) \/ Fail(w) \/ WorkerStops(w)
    <3>1. apply' = [apply EXCEPT ![w] = NotApplying]
      BY <2>2 DEF Succeed, Committed, Fail, WorkerStops
    <3> QED
      BY <1>1, <3>1, NothingApplied
  <2> QED
    BY <2>1, <2>2
<1>6. UNCHANGED <<snapshot, installed>>
  BY DEF Schedule, Enqueue, Claim, Start, Succeed, Fail, WorkerStops
<1>7. Sound(w)'
  BY <1>1, <1>4, <1>5, SoundAnew
<1> QED
  BY <1>3, <1>5, <1>6, <1>7, SoundWorker

\* A run asks about the packages it has read, and is told about them.
LEMMA SoundAsking ==
    ASSUME SyncInv, SoundInv, NEW w \in Workers, ReadPackages(w) \/ Fetch(w)
    PROVE  SoundInv'
<1>1. /\ w \in Appliers /\ w # Import /\ apply \in [Appliers -> Apply]
      /\ worker[w] \in Worker /\ worker \in [Workers -> Worker] /\ apply[w] \in Apply
  BY AppliersAre, ImportAssumption DEF SyncInv, SyncTypeOK
<1>2. apply[w].stage = "none"
  <2>1. worker[w].pc # "answered"
    BY DEF ReadPackages, Fetch
  <2> QED
    BY <1>1, <2>1 DEF SoundInv, Sound, Results
<1>3. CASE ReadPackages(w)
  <2>1. PICK doing : /\ doing = [worker[w] EXCEPT !.pc = "asking", !.queried = installed]
                     /\ worker' = [worker EXCEPT ![w] = doing]
    BY <1>1, <1>3 DEF ReadPackages
  <2>2. worker'[w].queried = installed
    BY <1>1, <2>1 DEF Worker
  <2>3. apply' = [apply EXCEPT ![w] = [apply[w] EXCEPT !.missed = Packages \ installed]]
    BY <1>1, <1>3 DEF ReadPackages
  <2>4. apply'[w].missed = Packages \ installed /\ apply'[w].stage = "none"
    BY <1>1, <1>2, <2>3 DEF Apply
  <2>5. /\ UNCHANGED <<snapshot, installed>> /\ \A x \in Appliers \ {w} : apply'[x] = apply[x]
        /\ \A x \in Workers \ {w} : worker'[x] = worker[x]
    BY <1>1, <1>3, <2>1, <2>3 DEF ReadPackages
  <2>6. Sound(w)'
    BY <2>2, <2>4, <2>5 DEF Sound
  <2> QED
    BY <2>5, <2>6, SoundWorker
<1>4. CASE Fetch(w)
  <2>1. PICK doing : /\ doing = [worker[w] EXCEPT !.pc = "answered",
                                                  !.found = worker[w].queried \intersect affected]
                     /\ worker' = [worker EXCEPT ![w] = doing]
    BY <1>1, <1>4 DEF Fetch
  <2>2. worker'[w].queried = worker[w].queried /\ worker[w].pc = "asking"
    BY <1>1, <1>4, <2>1 DEF Worker, Fetch
  <2>3. UNCHANGED <<snapshot, installed, apply>> /\ \A x \in Workers \ {w} : worker'[x] = worker[x]
    BY <1>1, <1>4, <2>1 DEF Fetch
  <2>4. Begun(w) /\ HasAsked(w)
    BY <1>1, <2>2 DEF Begun, HasAsked
  <2>5. Sound(w)'
    BY <1>1, <1>2, <2>2, <2>3, <2>4 DEF SoundInv, Sound
  <2> QED
    BY <2>3, <2>5, SoundWorker
<1> QED
  BY <1>3, <1>4

\* What was found and is not seen as installed is off the host.
LEMMA SoundReading ==
    ASSUME SyncInv, SoundInv, NEW x \in Appliers, Applies(x)
    PROVE  SoundInv'
<1>1. UNCHANGED <<worker, snapshot, installed>>
  BY DEF Applies, ReadInstalled, ReadMatch, ReadActive
<1>2. \A y \in Appliers \ {x} : apply'[y] = apply[y]
  BY ReadsStep DEF SyncInv
<1>3. apply[x] \in Apply /\ apply \in [Appliers -> Apply]
  BY DEF SyncInv, SyncTypeOK
<1>4. apply'[x].missed = apply[x].missed /\ Results(x)
      /\ (Found(x) \intersect Packages) \ apply'[x].present \subseteq apply[x].missed
  <2>1. CASE ReadInstalled(x)
    <3>1. Results(x) /\ apply'[x].present = Found(x) \intersect installed
          /\ apply'[x].missed = apply[x].missed
      BY <1>3, <2>1 DEF ReadInstalled, Apply
    <3>2. Begun(x)
      BY <3>1 DEF Results, Begun, HasAsked
    <3>3. Packages \ installed \subseteq apply[x].missed
      BY <3>2 DEF SoundInv, Sound
    <3> QED
      BY <3>1, <3>3
  <2>2. CASE ~ReadInstalled(x)
    <3>1. apply[x].stage # "none"
      BY <2>2 DEF Applies, ReadMatch, ReadActive
    <3>2. apply'[x].present = apply[x].present /\ apply'[x].missed = apply[x].missed
      <4>1. ASSUME NEW p \in Packages, ReadMatch(x, p)
            PROVE  apply'[x].present = apply[x].present /\ apply'[x].missed = apply[x].missed
        BY <1>3, <4>1 DEF ReadMatch, Apply
      <4>2. CASE ReadActive(x)
        BY <1>3, <4>2 DEF ReadActive, Apply
      <4> QED
        BY <2>2, <4>1, <4>2 DEF Applies
    <3> QED
      BY <3>1, <3>2 DEF SoundInv, Sound
  <2> QED
    BY <2>1, <2>2
<1>5. Sound(x)'
  <2>1. Results(x)' /\ Found(x)' = Found(x) /\ (Begun(x)' <=> Begun(x))
    BY <1>1, <1>4 DEF Results, Found, Begun, HasAsked
  <2>2. x \in Workers => (HasAsked(x)' <=> HasAsked(x)) /\ worker'[x] = worker[x]
    BY <1>1 DEF HasAsked
  <2> QED
    BY <1>1, <1>4, <2>1, <2>2 DEF SoundInv, Sound
<1>6. ASSUME NEW y \in Appliers \ {x} PROVE Sound(y)'
  BY <1>1, <1>2, <1>6, SoundStays DEF SoundInv
<1> QED
  BY <1>5, <1>6 DEF SoundInv

\* A snapshot comes, is imported or refused.
LEMMA SoundImporting ==
    ASSUME SyncInv, SoundInv,
           \/ ImportSnapshot \/ RefuseSnapshot
           \/ \E listed \in SUBSET Packages : \E found \in SUBSET listed : UploadSnapshot(listed, found)
    PROVE  SoundInv'
<1>1. UNCHANGED <<worker, installed>>
  BY DEF ImportSnapshot, RefuseSnapshot, UploadSnapshot
<1>2. /\ Import \in Appliers /\ Import \notin Workers
      /\ apply[Import] \in Apply /\ apply \in [Appliers -> Apply]
  BY AppliersAre, ImportAssumption DEF SyncInv, SyncTypeOK
<1>3. Sound(Import)' /\ \A x \in Appliers \ {Import} : apply'[x] = apply[x]
  <2>1. CASE ImportSnapshot \/ RefuseSnapshot
    <3>1. apply' = [apply EXCEPT ![Import] = NotApplying] /\ snapshot' = NoSnapshot
      BY <2>1 DEF ImportSnapshot, Committed, RefuseSnapshot
    <3>2. ~Begun(Import)'
      BY <3>1 DEF Begun, NoSnapshot
    <3> QED
      BY <1>2, <3>1, <3>2, NothingApplied, SoundAnew
  <2>2. ASSUME NEW listed, NEW found, UploadSnapshot(listed, found)
        PROVE  Sound(Import)' /\ \A x \in Appliers \ {Import} : apply'[x] = apply[x]
    <3>1. apply' = [apply EXCEPT ![Import] = [apply[Import] EXCEPT !.missed = Packages \ installed]]
      BY <1>2, <2>2 DEF UploadSnapshot
    <3>2. apply[Import].stage = "none"
      BY <1>2, <2>2 DEF UploadSnapshot, SoundInv, Sound, Results
    <3>3. apply'[Import].stage = "none" /\ apply'[Import].missed = Packages \ installed
      BY <1>2, <3>1, <3>2 DEF Apply
    <3> QED
      BY <1>1, <1>2, <3>1, <3>3 DEF Sound
  <2> QED
    BY <2>1, <2>2
<1>4. ASSUME NEW x \in Appliers \ {Import} PROVE Sound(x)'
  BY <1>1, <1>3, <1>4, SoundStays DEF SoundInv
<1> QED
  BY <1>3, <1>4 DEF SoundInv

\* A package that goes off the host is missed by all who have begun.
LEMMA SoundInventory ==
    ASSUME SyncInv, SoundInv, NEW set \in SUBSET Packages, InventoryChanges(set)
    PROVE  SoundInv'
<1> SUFFICES ASSUME NEW x \in Appliers PROVE Sound(x)'
  BY DEF SoundInv
<1>1. apply[x] \in Apply
  BY DEF SyncInv, SyncTypeOK
<1>2. installed' = set /\ UNCHANGED <<worker, snapshot>>
  BY DEF InventoryChanges
<1>3. /\ (Begun(x)' <=> Begun(x)) /\ (Results(x)' <=> Results(x)) /\ Found(x)' = Found(x)
      /\ (HasAsked(x)' <=> HasAsked(x))
  BY <1>2 DEF Begun, HasAsked, Results, Found
<1>4. CASE Begun(x)
  <2>1. apply'[x] = [apply[x] EXCEPT !.missed = apply[x].missed \union (Packages \ set)]
    BY <1>4 DEF InventoryChanges
  <2>2. /\ apply'[x].missed = apply[x].missed \union (Packages \ set)
        /\ apply'[x].stage = apply[x].stage /\ apply'[x].present = apply[x].present
    BY <1>1, <2>1 DEF Apply
  <2>3. Sound(x)
    BY DEF SoundInv
  <2> QED
    BY <1>2, <1>3, <2>2, <2>3 DEF Sound
<1>5. CASE ~Begun(x)
  <2>1. apply'[x] = apply[x]
    BY <1>5 DEF InventoryChanges
  <2>2. apply[x].stage = "none"
    BY <1>5 DEF SoundInv, Sound, Results, Begun, HasAsked
  <2> QED
    BY <1>3, <1>5, <2>1, <2>2, SoundAnew
<1> QED
  BY <1>4, <1>5

LEMMA SoundPreserved == SyncInv /\ SoundInv /\ [SyncNext]_syncVars => SoundInv'
<1> SUFFICES ASSUME SyncInv, SoundInv, [SyncNext]_syncVars PROVE SoundInv'
  OBVIOUS
<1>1. ASSUME UNCHANGED <<worker, snapshot, installed, apply>> PROVE SoundInv'
  BY <1>1, SoundStays DEF SoundInv
<1>2. CASE UNCHANGED syncVars
  BY <1>1, <1>2 DEF syncVars
<1>3. CASE Ask \/ Queue \/ \E i \in Syncs : Ages(i) \/ Overruns(i)
  BY <1>1, <1>3 DEF Ask, Queue, Ages, Overruns
<1>4. ASSUME NEW set \in SUBSET Packages, OsvChanges(set) PROVE SoundInv'
  BY <1>1, <1>4 DEF OsvChanges
<1>5. ASSUME NEW w \in Workers, Work(w) \/ WorkerStops(w) PROVE SoundInv'
  BY <1>5, AppliersAre, SoundLoop, SoundAsking, SoundReading DEF Work
<1> QED
  BY <1>2, <1>3, <1>4, <1>5, AppliersAre, SoundReading, SoundImporting, SoundInventory DEF SyncNext

LEMMA SoundInvariant == SyncSpec => []SoundInv
<1>1. SyncInit => SoundInv
  <2> SUFFICES ASSUME SyncInit, NEW x \in Appliers PROVE Sound(x)
    BY DEF SoundInv
  <2>1. apply[x].stage = "none"
    BY NothingApplied DEF SyncInit
  <2>2. ~Begun(x)
    BY AppliersAre DEF SyncInit, Begun, HasAsked, Free, NoSnapshot
  <2>3. x \in Workers => ~HasAsked(x)
    BY <2>2, ImportAssumption DEF Begun
  <2> QED
    BY <2>1, <2>2, <2>3 DEF Sound
<1> QED
  BY <1>1, SyncInvariant, SoundPreserved, PTL DEF SyncSpec

\* The match of a package that is on the host all the time is resolved only by a run that
\* asked about it and was not told of it, or by a snapshot that lists it without the match;
\* in whatever order several appliers read and commit, and reports change the inventory.
THEOREM MatchesEndOnEvidence == SyncSpec => ResolvedOnEvidence
<1> DEFINE Evidence(p) ==
             \/ \E w \in Workers :
                   Answered(w) /\ p \in (worker[w].queried \ worker[w].found) \union apply[w].missed
             \/ /\ ImportSnapshot /\ p \in snapshot.listed
                /\ p \in snapshot.found => p \in apply[Import].missed
<1>1. ASSUME SyncInv, SoundInv, [SyncNext]_syncVars, NEW p \in Packages, Resolves(p) PROVE Evidence(p)
  <2>1. ASSUME NEW x, NEW covered, Committed(x, covered)
        PROVE  p \notin apply[x].present /\ p \in covered /\ apply[x].stage # "none"
    BY <1>1, <2>1 DEF Resolves, Committed, Applied
  <2>2. ASSUME NEW w \in Workers, Succeed(w) PROVE Evidence(p)
    <3>1. p \notin apply[w].present /\ apply[w].stage # "none" /\ worker[w].pc = "answered"
      BY <2>1, <2>2 DEF Succeed
    <3>2. p \in worker[w].found => p \in apply[w].missed
      BY <1>1, <3>1, AppliersAre, ImportAssumption DEF SoundInv, Sound, Found
    <3>3. p \notin worker[w].queried => p \in apply[w].missed
      BY <1>1, <3>1, AppliersAre DEF SoundInv, Sound, HasAsked
    <3>4. worker'[w].pc = "polling"
      BY <1>1, <2>2 DEF Succeed, Ended, SyncInv, SyncTypeOK, Free
    <3> QED
      BY <3>1, <3>2, <3>3, <3>4 DEF Answered
  <2>3. CASE ImportSnapshot
    <3>1. p \notin apply[Import].present /\ p \in snapshot.listed /\ apply[Import].stage # "none"
      BY <2>1, <2>3 DEF ImportSnapshot, Covered
    <3>2. p \in snapshot.found => p \in apply[Import].missed
      BY <1>1, <3>1, AppliersAre DEF SoundInv, Sound, Found
    <3> QED
      BY <2>3, <3>1, <3>2
  <2>4. match' # match
    BY <1>1 DEF Resolves
  <2> HIDE DEF Evidence
  <2> QED
    BY <1>1, <2>2, <2>3, <2>4 DEF SyncNext, Work, Applies, syncVars, Ask, Queue, Schedule, Enqueue,
       Claim, Start, ReadPackages, Fetch, ReadInstalled, ReadMatch, ReadActive, Fail, WorkerStops,
       UploadSnapshot, RefuseSnapshot, Ages, Overruns, InventoryChanges, OsvChanges
<1>2. SyncInv /\ SoundInv /\ [SyncNext]_syncVars =>
        [\A p \in Packages : Resolves(p) => Evidence(p)]_syncVars
  BY <1>1
<1> QED
  BY <1>2, SyncInvariant, SoundInvariant, PTL DEF SyncSpec, ResolvedOnEvidence
=============================================================================
