---------------------------- MODULE RecoveryJobs ----------------------------
(***************************************************************************)
(* The remediation jobs of one authorised change set and one target agent: *)
(* validation, encrypted checkpoint and recovery verification.             *)
(*                                                                         *)
(* An administrator queues a job, the agent polls for it, works on it over *)
(* several writes to its disk, keeps the signed receipt and posts it; the  *)
(* platform accepts one receipt per job.  The agent can crash between any  *)
(* two of its writes, an answer can be lost, a receipt can be lost or come *)
(* late, and the host, the platform key, the maintenance window and the    *)
(* change set can change under a job.                                      *)
(*                                                                         *)
(* A blob is what was encrypted and the run of the agent that did it: the  *)
(* nonce of a run is fresh and a run writes a blob once.  Digests and      *)
(* signatures are the values they are taken of.  A temporary file that a   *)
(* crash leaves beside a blob's path is not a blob, nor does the code's    *)
(* cap count it.                                                           *)
(***************************************************************************)
EXTENDS Naturals, FiniteSets

CONSTANTS
    NumEntries,     \* entries of a recovery plan, in its order
    Contents,       \* contents, with its metadata, a source file may have
    Absent,         \* a source that does not exist
    Unsafe,         \* a source the inspection refuses (a link, a directory, too large)
    Limit,          \* MAX_CHECKPOINT_STORE_BYTES, in blobs
    MaxJobs,        \* bound: jobs ever requested
    MaxKeys,        \* bound: platform command keys
    MaxRuns         \* bound: starts of the agent process

ASSUME RecoveryConstants ==
    /\ NumEntries \in Nat \ {0}
    /\ Limit \in Nat
    /\ MaxJobs \in Nat \ {0}
    /\ MaxKeys \in Nat \ {0}
    /\ MaxRuns \in Nat \ {0}
    /\ Absent \notin Contents
    /\ Unsafe \notin Contents \union {Absent}

VARIABLES
    jobs,           \* the three job tables of the platform
    changeSet,      \* the change set's status, "canceling" while a cancel is uncommitted
    doomed,         \* the open jobs that the cancel in progress has read
    windowOpen,     \* the maintenance window has not ended
    commandKey,     \* the platform command key in use by platform and agent
    source,         \* the configuration files of the host
    journal,        \* the agent's journal.json of each checkpoint job
    blobs,          \* its *.bin files
    cache,          \* the receipts in its state.json
    agent,          \* its process: step, kind it is at, job it works on, blob it has made
    run,            \* how often the process was started
    net             \* receipts on their way to the platform

vars == <<jobs, changeSet, doomed, windowOpen, commandKey, source, journal, blobs,
          cache, agent, run, net>>
platform == <<jobs, changeSet, doomed>>
setting  == <<windowOpen, commandKey, source>>
disk     == <<journal, blobs, cache>>

-----------------------------------------------------------------------------
Jobs    == 1..MaxJobs
Entries == 1..NumEntries
Runs    == 1..MaxRuns
NoJob   == 0
Kinds   == {"validation", "checkpoint", "verification"}

\* At the path of a blob: nothing yet, a blob, or what is left of a lost one.
NoBlob == [content |-> Absent, run |-> 0]
Gone   == [content |-> Unsafe, run |-> 0]
Blob   == [content : Contents, run : Runs] \union {NoBlob, Gone}

\* What a journal, or a receipt, says of an entry of the plan.
Result  == [status : {"pending", "ready", "blocked"}, blob : Blob]
Pending == [status |-> "pending", blob |-> NoBlob]
Refused == [status |-> "blocked", blob |-> NoBlob]

Journal   == [state : {"none", "checkpointing", "checkpointed", "blocked"},
              results : [Entries -> Result]]
NoJournal == [state |-> "none", results |-> [e \in Entries |-> Pending]]

\* A ready recovery plan is what the inspection found of every source.
Plan   == [Entries -> Contents \union {Absent}]
NoPlan == <<>>

\* "whole" says that journal_digest is the digest of a complete journal; "timely" that
\* the receipt was signed within the maintenance window.
Receipt   == [status : {"none", "ready", "blocked"}, plan : Plan \union {NoPlan},
              results : [Entries -> Result], whole : BOOLEAN, timely : BOOLEAN,
              run : Runs \union {0}]
NoReceipt == [status |-> "none", plan |-> NoPlan, results |-> NoJournal.results,
              whole |-> FALSE, timely |-> FALSE, run |-> 0]

Status == {"none", "queued", "delivered", "ready", "blocked", "expired", "canceled"}
Job    == [kind : Kinds, status : Status, basis : Jobs \union {NoJob}, key : 1..MaxKeys,
           plan : Plan \union {NoPlan}, receipt : Receipt]
NewJob == [kind |-> "validation", status |-> "none", basis |-> NoJob, key |-> 1,
           plan |-> NoPlan, receipt |-> NoReceipt]

Steps  == {"poll", "work", "copy", "copied", "sign", "post"}
Rested == [at |-> "poll", turn |-> "validation", job |-> NoJob, copy |-> NoBlob]

TypeOK ==
    /\ jobs \in [Jobs -> Job]
    /\ changeSet \in {"authorized", "canceling", "canceled"}
    /\ doomed \subseteq Jobs
    /\ windowOpen \in BOOLEAN
    /\ commandKey \in 1..MaxKeys
    /\ source \in [Entries -> Contents \union {Absent, Unsafe}]
    /\ journal \in [Jobs -> Journal]
    /\ blobs \in [Jobs -> [Entries -> Blob]]
    /\ cache \in [Jobs -> Receipt]
    /\ agent \in [at : Steps, turn : Kinds, job : Jobs \union {NoJob}, copy : Blob]
    /\ agent.at # "poll" => agent.job \in Jobs /\ jobs[agent.job].kind = agent.turn
    /\ run \in Runs
    /\ net \subseteq [job : Jobs, receipt : Receipt]

Init ==
    /\ jobs = [j \in Jobs |-> NewJob]
    /\ changeSet = "authorized"
    /\ doomed = {}
    /\ windowOpen = TRUE
    /\ commandKey = 1
    /\ source \in [Entries -> Contents \union {Absent}]
    /\ journal = [j \in Jobs |-> NoJournal]
    /\ blobs = [j \in Jobs |-> [e \in Entries |-> NoBlob]]
    /\ cache = [j \in Jobs |-> NoReceipt]
    /\ agent = Rested
    /\ run = 1
    /\ net = {}

-----------------------------------------------------------------------------
(* The administrator's requests *)

Open(j)    == jobs[j].status \in {"queued", "delivered"}
NextJob(j) == jobs[j].status = "none" /\ \A i \in Jobs : i < j => jobs[i].status # "none"

\* Mutant: the requests read the change set without its lock.
StillAuthorized == changeSet \in {"authorized", "canceling"}

\* The lock on the change set is free and its row says "authorized".
LockedAuthorized == changeSet = "authorized"

\* A contract is endorsed by the platform command key in use.
EndorsedJob == [NewJob EXCEPT !.status = "queued", !.key = commandKey]

\* A second request for what is open, or was successful, is answered with that job.
QueueValidation(j) ==
    /\ LockedAuthorized
    /\ NextJob(j)
    /\ \A i \in Jobs : jobs[i].kind = "validation" => ~ Open(i)
    /\ jobs' = [jobs EXCEPT ![j] = EndorsedJob]
    /\ UNCHANGED <<changeSet, doomed, setting, disk, agent, run, net>>

\* Mutant: it is enough that the job it rests on was answered.
Answered(b) == jobs[b].status \in {"ready", "blocked"}

Successful(b) == jobs[b].status = "ready"

Queue(j, k, b) ==
    /\ LockedAuthorized
    /\ windowOpen
    /\ NextJob(j)
    /\ Successful(b)
    /\ \A i \in Jobs : jobs[i].kind = k /\ jobs[i].basis = b
                          => ~ Open(i) /\ jobs[i].status # "ready"
    /\ UNCHANGED <<changeSet, doomed, setting, disk, agent, run, net>>

\* A checkpoint takes contract and recovery plan from a validation it follows.
QueueCheckpoint(j, v) ==
    /\ jobs[v].kind = "validation"
    /\ Queue(j, "checkpoint", v)
    /\ jobs' = [jobs EXCEPT ![j] =
                   [kind |-> "checkpoint", status |-> "queued", basis |-> v,
                    key |-> jobs[v].key, plan |-> jobs[v].receipt.plan,
                    receipt |-> NoReceipt]]

\* The checkpoint's journal digest goes with the job: its accepted receipt has it.
QueueVerification(j, c) ==
    /\ jobs[c].kind = "checkpoint"
    /\ Queue(j, "verification", c)
    /\ jobs' = [jobs EXCEPT ![j] =
                   [jobs[c] EXCEPT !.kind = "verification", !.status = "queued",
                                   !.basis = c, !.receipt = NoReceipt]]

\* Cancelling locks the change set and reads its open jobs without locking them ...
ReadOpenJobs ==
    /\ changeSet = "authorized"
    /\ changeSet' = "canceling"
    /\ doomed' = {j \in Jobs : Open(j)}
    /\ UNCHANGED <<jobs, setting, disk, agent, run, net>>

\* ... and its commit sets their status, whatever it has become since.
CommitCancel ==
    /\ changeSet = "canceling"
    /\ changeSet' = "canceled"
    /\ jobs' = [j \in Jobs |-> IF j \in doomed THEN [jobs[j] EXCEPT !.status = "canceled"]
                               ELSE jobs[j]]
    /\ doomed' = {}
    /\ UNCHANGED <<setting, disk, agent, run, net>>

-----------------------------------------------------------------------------
(* The agent polls for one kind of job after the other *)

NextTurn == [validation |-> "checkpoint", checkpoint |-> "verification",
             verification |-> "validation"]
Idle     == [Rested EXCEPT !.turn = NextTurn[agent.turn]]

\* Mutant: a job is delivered after its maintenance window has ended.
AnyTime == TRUE

InWindow == windowOpen

\* A validation made for a replaced key, and a verification of a checkpoint that is not
\* "ready" any more, are no longer eligible.
KeyStands(j)   == jobs[j].kind = "validation" => jobs[j].key = commandKey
BasisStands(j) == jobs[j].kind = "verification" => jobs[jobs[j].basis].status = "ready"

\* The conditions under which a job is delivered and without which it is expired.
Eligible(j) ==
    /\ changeSet # "canceled"
    /\ InWindow
    /\ KeyStands(j)
    /\ BasisStands(j)

\* Mutant: the open jobs of every kind are polled at once.
AnyOpenJobs == {j \in Jobs : Open(j)}

OpenJobs == {j \in Jobs : Open(j) /\ jobs[j].kind = agent.turn}
Offered  == {j \in OpenJobs : Eligible(j) /\ \A i \in OpenJobs : i < j => ~ Eligible(i)}
Passed   == {j \in OpenJobs : \A i \in OpenJobs : i <= j => ~ Eligible(i)}

\* The platform's part of a poll, one transaction that locks the kind's open jobs.
Serve ==
    jobs' = [j \in Jobs |-> CASE j \in Offered -> [jobs[j] EXCEPT !.status = "delivered"]
                              [] j \in Passed  -> [jobs[j] EXCEPT !.status = "expired"]
                              [] OTHER         -> jobs[j]]

Cached(j) == cache[j] # NoReceipt

Poll ==
    /\ agent.at = "poll"
    /\ Serve
    /\ IF Offered = {} THEN agent' = Idle
       ELSE \E j \in Offered :
              agent' = [agent EXCEPT !.at = IF Cached(j) THEN "post" ELSE "work", !.job = j]
    /\ UNCHANGED <<changeSet, doomed, setting, disk, run, net>>

\* The answer does not reach the agent, or is not valid for it.
PollUnanswered ==
    /\ agent.at = "poll"
    /\ Serve
    /\ agent' = Idle
    /\ UNCHANGED <<changeSet, doomed, setting, disk, run, net>>

-----------------------------------------------------------------------------
(* The agent works on a job *)

Current == jobs[agent.job]
At(step, k) == agent.at = step /\ agent.turn = k

\* The endorsement is the pinned key's and the window has not ended.
ContractHolds == Current.key = commandKey /\ windowOpen

\* Sign a receipt, save it in state.json and go on to post it.
Keep(receipt) ==
    /\ cache' = [cache EXCEPT ![agent.job] = receipt]
    /\ agent' = [agent EXCEPT !.at = "post"]

Signed(status) == [NoReceipt EXCEPT !.status = status, !.timely = windowOpen, !.run = run]
AllRefused     == [e \in Entries |-> Refused]
Recoverable    == \A e \in Entries : source[e] # Unsafe

\* The dry run checks platform, packages and paths of every action: any result is possible.
DryRun == {"ready", "blocked"}

\* A ready receipt has every action ready and a ready plan; either may be blocked.
Validate(status) ==
    /\ At("work", "validation")
    /\ status \in DryRun
    /\ status = "ready" => ContractHolds /\ Recoverable
    /\ Keep([Signed(status) EXCEPT !.plan = IF status = "ready" THEN source ELSE NoPlan])
    /\ UNCHANGED <<platform, setting, journal, blobs, run, net>>

\* A checkpoint of a contract that does not hold is refused without a journal.
RefuseContract ==
    /\ At("work", "checkpoint")
    /\ ~ ContractHolds
    /\ Keep([Signed("blocked") EXCEPT !.results = AllRefused])
    /\ UNCHANGED <<platform, setting, journal, blobs, run, net>>

Local == journal[agent.job]
WriteJournal(j) == journal' = [journal EXCEPT ![agent.job] = j]
Go(step) == agent' = [agent EXCEPT !.at = step]

\* Start a journal, resume one of an earlier run, or take one that is complete.
OpenJournal ==
    /\ At("work", "checkpoint")
    /\ ContractHolds
    /\ IF Local.state = "none"
       THEN WriteJournal([NoJournal EXCEPT !.state = "checkpointing"])
       ELSE UNCHANGED journal
    /\ Go(IF Local.state \in {"checkpointed", "blocked"} THEN "sign" ELSE "copy")
    /\ UNCHANGED <<platform, setting, blobs, cache, run, net>>

Incomplete == {e \in Entries : Local.results[e].status = "pending"}
Turn(e)    == e \in Incomplete /\ \A d \in Incomplete : e <= d

Stored(b) == {p \in Jobs \X Entries : b[p[1]][p[2]] \notin {NoBlob, Gone}}

\* Mutant: only the blobs of this job are counted.
RoomInJob == Cardinality({p \in Stored(blobs) : p[1] = agent.job}) < Limit

\* A blob that an earlier run left at this path is counted too.
Room == Cardinality(Stored(blobs)) < Limit

AsPlanned(e) == source[e] = Current.plan[e]

Copyable(e) == AsPlanned(e) /\ (Current.plan[e] # Absent => Room)

\* Mutant: the temporary file is not moved to the path of the blob.
WriteTemporary(e) ==
    /\ At("copy", "checkpoint")
    /\ Turn(e)
    /\ Current.plan[e] # Absent
    /\ Copyable(e)
    /\ agent' = [agent EXCEPT !.at = "copied", !.copy = [content |-> source[e], run |-> run]]
    /\ UNCHANGED <<platform, setting, disk, run, net>>

\* A regular file is read, encrypted, and written atomically as a blob ...
WriteBlob(e) ==
    /\ At("copy", "checkpoint")
    /\ Turn(e)
    /\ Current.plan[e] # Absent
    /\ Copyable(e)
    /\ LET blob == [content |-> source[e], run |-> run] IN
          /\ blobs' = [blobs EXCEPT ![agent.job][e] = blob]
          /\ agent' = [agent EXCEPT !.at = "copied", !.copy = blob]
    /\ UNCHANGED <<platform, setting, journal, cache, run, net>>

Record(e, blob) ==
    WriteJournal([Local EXCEPT !.results[e] = [status |-> "ready", blob |-> blob]])

\* ... and only then recorded in the journal; an absent file is recorded at once.
RecordEntry(e) ==
    /\ \/ /\ At("copied", "checkpoint")
          /\ Turn(e)
          /\ Record(e, agent.copy)
       \/ /\ At("copy", "checkpoint")
          /\ Turn(e)
          /\ Current.plan[e] = Absent
          /\ Copyable(e)
          /\ Record(e, NoBlob)
    /\ agent' = [agent EXCEPT !.at = "copy", !.copy = NoBlob]
    /\ UNCHANGED <<platform, setting, blobs, cache, run, net>>

\* The first entry that fails blocks the journal and every entry not yet recorded.
BlockJournal(e) ==
    /\ At("copy", "checkpoint")
    /\ Turn(e)
    /\ ~ Copyable(e)
    /\ WriteJournal([state |-> "blocked",
                     results |-> [d \in Entries |-> IF d \in Incomplete THEN Refused
                                                    ELSE Local.results[d]]])
    /\ Go("sign")
    /\ UNCHANGED <<platform, setting, blobs, cache, run, net>>

FinishJournal ==
    /\ At("copy", "checkpoint")
    /\ Incomplete = {}
    /\ WriteJournal([Local EXCEPT !.state = "checkpointed"])
    /\ Go("sign")
    /\ UNCHANGED <<platform, setting, blobs, cache, run, net>>

SignCheckpoint ==
    /\ At("sign", "checkpoint")
    /\ Keep([Signed(IF Local.state = "checkpointed" THEN "ready" ELSE "blocked")
             EXCEPT !.results = Local.results, !.whole = TRUE])
    /\ UNCHANGED <<platform, setting, journal, blobs, run, net>>

-----------------------------------------------------------------------------
(* Recovery verification *)

Accepted(c) == jobs[c].receipt

\* The local journal is the one whose digest the platform has accepted.
JournalMatches(c) ==
    /\ journal[c].state = "checkpointed"
    /\ journal[c].results = Accepted(c).results

\* Mutant: the blobs are not opened.
BlobNamed(c, e) == TRUE

\* The blob on disk has the digest the journal names; an absent source has none.
BlobIntact(c, e) == blobs[c][e] = journal[c].results[e].blob

Verify ==
    /\ At("work", "verification")
    /\ LET c    == Current.basis
           good == {e \in Entries : ContractHolds /\ JournalMatches(c) /\ BlobIntact(c, e)}
       IN  Keep([Signed(IF good = Entries THEN "ready" ELSE "blocked") EXCEPT !.results =
                    [e \in Entries |-> IF e \in good THEN journal[c].results[e] ELSE Refused]])
    /\ UNCHANGED <<platform, setting, journal, blobs, run, net>>

-----------------------------------------------------------------------------
(* Receipts *)

\* The agent waits for the answer or its timeout; the next cycle does not need it.
Post ==
    /\ agent.at = "post"
    /\ net' = net \union {[job |-> agent.job, receipt |-> cache[agent.job]]}
    /\ agent' = Idle
    /\ UNCHANGED <<platform, setting, disk, run>>

Lose(m) ==
    /\ m \in net
    /\ net' = net \ {m}
    /\ UNCHANGED <<platform, setting, disk, agent, run>>

\* Mutant: any job without a receipt takes one.
Unanswered(j) == jobs[j].receipt = NoReceipt

Awaiting(j) == jobs[j].status = "delivered"

\* A recovery plan has an entry for every backup the contract asks for, and no other.
CoversContract(plan) == DOMAIN plan = Entries

AllReady(receipt) == \A e \in Entries : receipt.results[e].status = "ready"

\* A ready receipt covers every entry with its evidence, a blocked one shows a failure.
CheckpointEvidence(j, receipt) ==
    /\ receipt.whole
    /\ receipt.status = "ready" <=> AllReady(receipt)
    /\ \A e \in Entries : receipt.results[e].status = "ready" =>
          (receipt.results[e].blob = NoBlob <=> jobs[j].plan[e] = Absent)

\* A verified entry has the digest that was accepted with the checkpoint.
VerificationEvidence(j, receipt) ==
    /\ receipt.status = "ready" <=> AllReady(receipt)
    /\ \A e \in Entries : receipt.results[e].status = "ready" =>
          receipt.results[e].blob = Accepted(jobs[j].basis).results[e].blob

Evidence(j, receipt) ==
    CASE jobs[j].kind = "validation"   -> receipt.status = "ready" => CoversContract(receipt.plan)
      [] jobs[j].kind = "checkpoint"   -> CheckpointEvidence(j, receipt)
      [] jobs[j].kind = "verification" -> VerificationEvidence(j, receipt)

Acceptable(m) == Awaiting(m.job) /\ m.receipt.timely /\ Evidence(m.job, m.receipt)

\* The receipt a job has is acknowledged again, every other one is refused.
Submit(m) ==
    /\ m \in net
    /\ net' = net \ {m}
    /\ jobs' = IF Acceptable(m)
               THEN [jobs EXCEPT ![m.job].status = m.receipt.status, ![m.job].receipt = m.receipt]
               ELSE jobs
    /\ UNCHANGED <<changeSet, doomed, setting, disk, agent, run>>

-----------------------------------------------------------------------------
(* The setting changes *)

Drift(e, s) ==
    /\ s # source[e]
    /\ source' = [source EXCEPT ![e] = s]
    /\ UNCHANGED <<platform, windowOpen, commandKey, disk, agent, run, net>>

\* The exchange of the platform key is in KeyRotation; it ends before a cycle polls.
Rotate ==
    /\ commandKey < MaxKeys
    /\ agent = Rested
    /\ commandKey' = commandKey + 1
    /\ UNCHANGED <<platform, windowOpen, source, disk, agent, run, net>>

WindowEnds ==
    /\ windowOpen
    /\ windowOpen' = FALSE
    /\ UNCHANGED <<platform, commandKey, source, disk, agent, run, net>>

\* A blob is deleted or damaged: it does not have its digest any more.
LoseBlob(j, e) ==
    /\ <<j, e>> \in Stored(blobs)
    /\ blobs' = [blobs EXCEPT ![j][e] = Gone]
    /\ UNCHANGED <<platform, setting, journal, cache, agent, run, net>>

\* The agent's process stops anywhere and is started again.
Crash ==
    /\ agent.at # "poll"
    /\ run < MaxRuns
    /\ agent' = Rested
    /\ run' = run + 1
    /\ UNCHANGED <<platform, setting, disk, net>>

-----------------------------------------------------------------------------
Work ==
    \/ Poll
    \/ \E status \in DryRun : Validate(status)
    \/ RefuseContract
    \/ OpenJournal
    \/ \E e \in Entries : WriteBlob(e) \/ RecordEntry(e) \/ BlockJournal(e)
    \/ FinishJournal
    \/ SignCheckpoint
    \/ Verify
    \/ Post

Next ==
    \/ \E j \in Jobs : QueueValidation(j)
    \/ \E j, b \in Jobs : QueueCheckpoint(j, b) \/ QueueVerification(j, b)
    \/ ReadOpenJobs
    \/ CommitCancel
    \/ PollUnanswered
    \/ Work
    \/ \E m \in net : Submit(m) \/ Lose(m)
    \/ \E e \in Entries, s \in Contents \union {Absent, Unsafe} : Drift(e, s)
    \/ Rotate
    \/ WindowEnds
    \/ \E j \in Jobs, e \in Entries : LoseBlob(j, e)
    \/ Crash

\* The daemon runs its cycle for ever, is restarted by systemd, and is not cut off from
\* the platform for ever.  Nobody has to queue or cancel anything, or close the window.
Fairness ==
    /\ WF_vars(Work)
    /\ \A k \in Kinds : SF_vars(agent.turn = k /\ Poll)
    /\ \A j \in Jobs : SF_vars(\E m \in net : m.job = j /\ Submit(m))

Spec == Init /\ [][Next]_vars /\ Fairness

-----------------------------------------------------------------------------
(* Properties *)

\* The checkpoint store stays within its cap, over jobs, crashes and resumed runs
\* (remediation_recovery.py: create_encrypted_checkpoints).
StoreBounded == Cardinality(Stored(blobs)) <= Limit

Succeeded(j, k) == jobs[j].kind = k /\ jobs[j].receipt.status = "ready"

\* What a journal records is what is stored: never a blob that is not written yet, nor one
\* that a later run has written again.  Only the loss of a blob comes between them.
RecordedIsStored(c) ==
    \A e \in Entries : journal[c].results[e].status = "ready" =>
        blobs[c][e] \in {journal[c].results[e].blob, Gone}

\* A checkpoint the platform accepted as ready is complete on the agent's disk: in the
\* journal, under the digest it accepted, with exactly the sources the accepted validation
\* recorded; and each entry's blob is the one the journal names, unless it was lost since
\* (create_encrypted_checkpoints, submit_remediation_checkpoint_receipt).
AcceptedIsOnDisk ==
    \A c \in Jobs :
        /\ RecordedIsStored(c)
        /\ Succeeded(c, "checkpoint") =>
              /\ JournalMatches(c)
              /\ Succeeded(jobs[c].basis, "validation")
              /\ \A e \in Entries :
                    journal[c].results[e].blob.content = jobs[jobs[c].basis].receipt.plan[e]

\* The agent signs a verification as ready only when every blob of the checkpoint is there
\* and decrypts to what the validation recorded (verify_encrypted_checkpoints).
VerifiesWhatIsThere ==
    [][\A j \in Jobs :
         jobs[j].kind = "verification" /\ ~ Cached(j) /\ cache'[j].status = "ready" =>
            \A e \in Entries : blobs[jobs[j].basis][e].content = jobs[j].plan[e]]_vars

\* What has ended stays as it ended, a late or repeated receipt changes nothing; only a
\* cancel that had read the job as open replaces its status, and keeps its receipt
\* (submit_*_receipt, cancel_change_set).
EndedStaysEnded ==
    [][\A j \in Jobs :
         jobs[j].status \in {"ready", "blocked", "expired", "canceled"} =>
            \/ jobs'[j] = jobs[j]
            \/ j \in doomed /\ jobs'[j] = [jobs[j] EXCEPT !.status = "canceled"]]_vars

\* No job of a canceled change set is open: none is queued behind a cancel's back
\* (cancel_change_set, queue_*_job).
NoneOpenAfterCancel == changeSet = "canceled" => \A j \in Jobs : ~ Open(j)

\* A job ends: at the latest when its maintenance window has ended, and before that as long
\* as the platform key is not replaced.  (The receipt of a checkpoint whose contract the agent
\* refuses is never accepted, and the job blocks those behind it until the window ends.)
OpenJobsEnd == \A j \in Jobs : Open(j) ~> ~ Open(j) \/ (windowOpen /\ commandKey > 1)

Ledger == INSTANCE RecoveryLedger WITH
    kind    <- [j \in Jobs |-> jobs[j].kind],
    outcome <- [j \in Jobs |-> IF jobs[j].receipt # NoReceipt THEN jobs[j].receipt.status
                               ELSE IF jobs[j].status = "none" THEN "none" ELSE "open"],
    basis   <- [j \in Jobs |-> jobs[j].basis],
    saved   <- [j \in Jobs |-> {e \in Entries : journal[j].results[e].status = "ready"}]

\* The jobs implement the ledger of RecoveryLedger: one outcome per job, each resting on a
\* ready one, and "ready" for a checkpoint only when all of it is saved.
LedgerSpec == Ledger!Spec
=============================================================================
