------------------------- MODULE RecoveryJobsProofs -------------------------
(***************************************************************************)
(* Proofs about RecoveryJobs, for any number of jobs, keys and runs of the *)
(* agent, any recovery plan and any cap of the checkpoint store.           *)
(***************************************************************************)
EXTENDS RecoveryJobs, FiniteSetTheorems, TLAPS

-----------------------------------------------------------------------------
(* The inductive invariant *)

\* What the platform has checked of a ready receipt.
Evident(j) ==
    /\ Succeeded(j, "validation") => jobs[j].receipt.plan \in Plan
    /\ Succeeded(j, "checkpoint") => jobs[j].receipt.whole /\ AllReady(jobs[j].receipt)

\* A job that was answered has its outcome in its receipt, an open one has none; a job
\* rests on a successful one and takes its recovery plan from it.
JobInv(j) ==
    /\ jobs[j].status = "none" => jobs[j] = NewJob
    /\ jobs[j].status \in {"ready", "blocked"} => jobs[j].receipt.status = jobs[j].status
    /\ jobs[j].status \in {"queued", "delivered", "expired"} => jobs[j].receipt = NoReceipt
    /\ jobs[j].kind = "checkpoint" =>
        /\ jobs[j].basis \in Jobs
        /\ Succeeded(jobs[j].basis, "validation")
        /\ jobs[j].plan = jobs[jobs[j].basis].receipt.plan
    /\ jobs[j].kind = "verification" =>
        /\ jobs[j].basis \in Jobs
        /\ Succeeded(jobs[j].basis, "checkpoint")
        /\ jobs[j].plan = jobs[jobs[j].basis].plan
    /\ Evident(j)

JobsInv == \A j \in Jobs : JobInv(j)

\* Once a cancel has begun, what is open is what it has read.
CancelInv ==
    /\ \A j \in Jobs : Open(j) => changeSet = "authorized" \/ j \in doomed
    /\ changeSet = "canceled" => doomed = {}
    /\ \A j \in doomed : jobs[j].status # "none"

\* The agent signs one receipt for a job, before it posts it; all copies are that one.
Working == {"work", "copy", "copied", "sign"}

ReceiptsInv ==
    /\ \A m \in net : m.receipt = cache[m.job] /\ Cached(m.job)
    /\ \A j \in Jobs :
        /\ jobs[j].receipt # NoReceipt => jobs[j].receipt = cache[j]
        /\ Cached(j) => cache[j].status # "none" /\ jobs[j].status # "none"
    /\ agent.at # "poll" => jobs[agent.job].status # "none"
    /\ agent.at \in Working => ~ Cached(agent.job)
    /\ agent.at = "post" => Cached(agent.job)

\* A journal belongs to a checkpoint job, holds what the plan says, and is what the
\* receipt that was signed for it says.
JournalInv ==
    /\ \A j \in Jobs :
        /\ journal[j].state = "none" => journal[j] = NoJournal
        /\ journal[j].state # "none" => jobs[j].kind = "checkpoint"
        /\ \A e \in Entries : journal[j].results[e].status = "ready" =>
              journal[j].results[e].blob.content = jobs[j].plan[e]
        /\ cache[j].whole =>
            /\ cache[j].results = journal[j].results
            /\ cache[j].status = "ready" => journal[j].state = "checkpointed"
    /\ agent.at \in {"copy", "copied", "sign"} => Local.state # "none"
    /\ agent.at = "copied" =>
        \A e \in Entries : Turn(e) => agent.copy.content = Current.plan[e]

IInv == TypeOK /\ JobsInv /\ CancelInv /\ ReceiptsInv /\ JournalInv

-----------------------------------------------------------------------------
(* Types *)

LEMMA Constants ==
    /\ Jobs \subseteq Nat /\ Entries \subseteq Nat /\ NoJob \notin Jobs
    /\ 1 \in Runs /\ 1 \in 1..MaxKeys /\ 0 \notin Runs
    /\ Unsafe \notin Contents /\ Unsafe # Absent /\ Absent \notin Contents
BY RecoveryConstants DEF Jobs, Entries, NoJob, Runs

LEMMA Blanks ==
    /\ NoBlob \in Blob /\ Gone \in Blob /\ Pending \in Result /\ Refused \in Result
    /\ NoJournal \in Journal /\ NoReceipt \in Receipt /\ NewJob \in Job
    /\ NoJournal.state = "none" /\ \A e \in Entries : NoJournal.results[e].status = "pending"
    /\ NoReceipt.status = "none" /\ NoReceipt.whole = FALSE
    /\ NewJob.status = "none" /\ NewJob.kind = "validation" /\ NewJob.receipt = NoReceipt
<1>1. NoBlob \in Blob /\ Gone \in Blob
  BY DEF NoBlob, Gone, Blob
<1>2. Pending \in Result /\ Refused \in Result
  BY <1>1 DEF Pending, Refused, Result
<1>3. NoJournal \in Journal
  BY <1>2 DEF NoJournal, Journal
<1>4. NoReceipt \in Receipt
  <2>1. NoJournal.results \in [Entries -> Result]
    BY <1>3 DEF Journal
  <2> QED
    BY <2>1 DEF NoReceipt, Receipt
<1>5. NewJob \in Job
  BY <1>4, Constants DEF NewJob, Job, Kinds, Status
<1> QED
  BY <1>1, <1>2, <1>3, <1>4, <1>5 DEF NoJournal, Pending, NoReceipt, NewJob

\* What the fields of well-typed state are.
LEMMA Fields ==
    ASSUME TypeOK
    PROVE  /\ \A j \in Jobs : jobs[j] \in Job /\ journal[j] \in Journal /\ cache[j] \in Receipt
           /\ \A j \in Jobs : /\ jobs[j].status \in Status /\ jobs[j].kind \in Kinds
                              /\ jobs[j].basis \in Jobs \union {NoJob}
                              /\ jobs[j].plan \in Plan \union {NoPlan}
                              /\ jobs[j].receipt \in Receipt
                              /\ journal[j].results \in [Entries -> Result]
           /\ agent.at \in Steps /\ agent.turn \in Kinds /\ agent.copy \in Blob
           /\ agent.job \in Jobs \union {NoJob}
           /\ \A m \in net : m.job \in Jobs /\ m.receipt \in Receipt
<1>1. \A j \in Jobs : jobs[j] \in Job /\ journal[j] \in Journal /\ cache[j] \in Receipt
  BY DEF TypeOK
<1>2. \A j \in Jobs : /\ jobs[j].status \in Status /\ jobs[j].kind \in Kinds
                      /\ jobs[j].basis \in Jobs \union {NoJob}
                      /\ jobs[j].plan \in Plan \union {NoPlan} /\ jobs[j].receipt \in Receipt
  BY <1>1 DEF Job
<1>3. \A j \in Jobs : journal[j].results \in [Entries -> Result]
  BY <1>1 DEF Journal
<1> QED
  BY <1>1, <1>2, <1>3 DEF TypeOK

-----------------------------------------------------------------------------
(* What a step does to a job *)

Queued(j) ==
    /\ changeSet = "authorized" /\ changeSet' = changeSet
    /\ jobs[j].status = "none"
    /\ jobs'[j].status = "queued"
    /\ jobs'[j].receipt = NoReceipt
    /\ \/ jobs'[j].kind = "validation"
       \/ \E b \in Jobs :
            /\ jobs'[j].basis = b
            /\ jobs[b].status = "ready" /\ jobs[b].kind = "validation"
            /\ jobs'[j].kind = "checkpoint" /\ jobs'[j].plan = jobs[b].receipt.plan
       \/ \E b \in Jobs :
            /\ jobs'[j].basis = b
            /\ jobs[b].status = "ready" /\ jobs[b].kind = "checkpoint"
            /\ jobs'[j].kind = "verification" /\ jobs'[j].plan = jobs[b].plan

Served(j) == Open(j) /\ \E s \in {"delivered", "expired"} : jobs'[j] = [jobs[j] EXCEPT !.status = s]

Submitted(j) ==
    \E m \in net :
        /\ m.job = j /\ Acceptable(m)
        /\ jobs'[j] = [jobs[j] EXCEPT !.status = m.receipt.status, !.receipt = m.receipt]

Canceled(j) == j \in doomed /\ jobs'[j] = [jobs[j] EXCEPT !.status = "canceled"]

JobStep(j) == \/ jobs'[j] = jobs[j]
              \/ Queued(j)
              \/ Served(j) /\ changeSet' = changeSet /\ doomed' = doomed
              \/ Submitted(j) /\ changeSet' = changeSet /\ doomed' = doomed
              \/ Canceled(j)

JobsStep == /\ \A j \in Jobs : JobStep(j)
            /\ jobs' \in [Jobs -> Job]

LEMMA QueueSteps ==
    ASSUME TypeOK, NEW j \in Jobs,
           \/ QueueValidation(j)
           \/ \E b \in Jobs : QueueCheckpoint(j, b) \/ QueueVerification(j, b)
    PROVE  JobsStep
<1>1. PICK new \in Job :
        /\ jobs' = [jobs EXCEPT ![j] = new]
        /\ new.status = "queued" /\ new.receipt = NoReceipt
        /\ \/ new.kind = "validation"
           \/ \E b \in Jobs :
                /\ new.basis = b
                /\ jobs[b].status = "ready" /\ jobs[b].kind = "validation"
                /\ new.kind = "checkpoint" /\ new.plan = jobs[b].receipt.plan
           \/ \E b \in Jobs :
                /\ new.basis = b
                /\ jobs[b].status = "ready" /\ jobs[b].kind = "checkpoint"
                /\ new.kind = "verification" /\ new.plan = jobs[b].plan
  <2>1. CASE QueueValidation(j)
    <3>1. EndorsedJob \in Job /\ EndorsedJob.status = "queued" /\ EndorsedJob.receipt = NoReceipt
          /\ EndorsedJob.kind = "validation"
      BY Blanks DEF EndorsedJob, Job, NewJob, Status, TypeOK
    <3> QED
      BY <2>1, <3>1 DEF QueueValidation
  <2>2. ASSUME NEW b \in Jobs, QueueCheckpoint(j, b)
        PROVE  \E new \in Job :
                /\ jobs' = [jobs EXCEPT ![j] = new]
                /\ new.status = "queued" /\ new.receipt = NoReceipt
                /\ new.basis = b
                /\ jobs[b].status = "ready" /\ jobs[b].kind = "validation"
                /\ new.kind = "checkpoint" /\ new.plan = jobs[b].receipt.plan
    <3> DEFINE new == [kind |-> "checkpoint", status |-> "queued", basis |-> b, key |-> jobs[b].key,
                       plan |-> jobs[b].receipt.plan, receipt |-> NoReceipt]
    <3>1. jobs[b].receipt.plan \in Plan \union {NoPlan} /\ jobs[b].key \in 1..MaxKeys
      BY Fields DEF Job, Receipt
    <3>2. new \in Job
      BY <3>1, Blanks DEF Job, Kinds, Status
    <3> QED
      BY <2>2, <3>2 DEF QueueCheckpoint, Queue, Successful
  <2>3. ASSUME NEW b \in Jobs, QueueVerification(j, b)
        PROVE  \E new \in Job :
                /\ jobs' = [jobs EXCEPT ![j] = new]
                /\ new.status = "queued" /\ new.receipt = NoReceipt
                /\ new.basis = b
                /\ jobs[b].status = "ready" /\ jobs[b].kind = "checkpoint"
                /\ new.kind = "verification" /\ new.plan = jobs[b].plan
    <3> DEFINE new == [jobs[b] EXCEPT !.kind = "verification", !.status = "queued",
                                      !.basis = b, !.receipt = NoReceipt]
    <3>1. jobs[b] \in Job
      BY Fields
    <3>2. /\ new \in Job /\ new.status = "queued" /\ new.receipt = NoReceipt /\ new.basis = b
          /\ new.kind = "verification" /\ new.plan = jobs[b].plan
      BY <3>1, Blanks DEF Job, Kinds, Status
    <3> QED
      BY <2>3, <3>2 DEF QueueVerification, Queue, Successful
  <2> QED
    BY <2>1, <2>2, <2>3
<1>2. /\ changeSet = "authorized" /\ changeSet' = changeSet /\ jobs[j].status = "none"
  BY DEF QueueValidation, QueueCheckpoint, QueueVerification, Queue, LockedAuthorized, NextJob
<1>3. jobs \in [Jobs -> Job]
  BY DEF TypeOK
<1> QED
  BY <1>1, <1>2, <1>3 DEF JobsStep, JobStep, Queued

LEMMA ServeSteps ==
    ASSUME TypeOK, Serve, UNCHANGED <<changeSet, doomed>>
    PROVE  JobsStep
<1>1. \A j \in Jobs : jobs[j] \in Job
  BY Fields
<1>2. \A j \in Jobs : \/ jobs'[j] = jobs[j]
                      \/ /\ Open(j)
                         /\ \E s \in {"delivered", "expired"} : jobs'[j] = [jobs[j] EXCEPT !.status = s]
  BY DEF Serve, Offered, Passed, OpenJobs
<1>3. \A j \in Jobs : jobs'[j] \in Job
  BY <1>1, <1>2, ZenonT(60) DEF Job, Status
<1>4. jobs' = [j \in Jobs |-> jobs'[j]]
  BY DEF Serve
<1> QED
  BY <1>2, <1>3, <1>4 DEF JobsStep, JobStep, Served

LEMMA SubmitSteps ==
    ASSUME TypeOK, NEW m \in net, Submit(m)
    PROVE  JobsStep
<1>1. m.job \in Jobs /\ m.receipt \in Receipt /\ jobs \in [Jobs -> Job]
  BY Fields DEF TypeOK
<1>2. CASE Acceptable(m)
  <2>1. jobs' = [jobs EXCEPT ![m.job].status = m.receipt.status, ![m.job].receipt = m.receipt]
    BY <1>2 DEF Submit
  <2>2. jobs[m.job] \in Job
    BY <1>1
  <2>3. jobs'[m.job] = [jobs[m.job] EXCEPT !.status = m.receipt.status, !.receipt = m.receipt]
    BY <1>1, <2>1, <2>2 DEF Job
  <2>4. jobs'[m.job] \in Job
    BY <1>1, <2>2, <2>3 DEF Job, Receipt, Status
  <2>5. \A j \in Jobs \ {m.job} : jobs'[j] = jobs[j]
    BY <1>1, <2>1
  <2>6. jobs' = [j \in Jobs |-> jobs'[j]]
    BY <1>1, <2>1
  <2>7. \A j \in Jobs : jobs'[j] \in Job
    BY <1>1, <2>4, <2>5
  <2>8. jobs' \in [Jobs -> Job]
    BY <2>6, <2>7
  <2>9. changeSet' = changeSet /\ doomed' = doomed
    BY DEF Submit
  <2> QED
    BY <1>2, <2>3, <2>5, <2>8, <2>9 DEF JobsStep, JobStep, Submitted
<1>3. CASE ~ Acceptable(m)
  BY <1>1, <1>3 DEF Submit, JobsStep, JobStep
<1> QED
  BY <1>2, <1>3

LEMMA CancelSteps ==
    ASSUME TypeOK, CommitCancel
    PROVE  JobsStep
<1>1. \A j \in Jobs : jobs[j] \in Job
  BY Fields
<1>2. \A j \in Jobs : jobs'[j] = jobs[j] \/ Canceled(j)
  BY DEF CommitCancel, Canceled
<1>3. \A j \in Jobs : jobs'[j] \in Job
  BY <1>1, <1>2, ZenonT(60) DEF Job, Status, Canceled
<1>4. jobs' = [j \in Jobs |-> jobs'[j]]
  BY DEF CommitCancel
<1> QED
  BY <1>2, <1>3, <1>4 DEF JobsStep, JobStep

LEMMA OtherSteps ==
    ASSUME TypeOK, UNCHANGED jobs
    PROVE  JobsStep
BY DEF TypeOK, JobsStep, JobStep

LEMMA JobSteps ==
    ASSUME TypeOK, [Next]_vars
    PROVE  JobsStep
<1>1. CASE \E j \in Jobs : \/ QueueValidation(j)
                           \/ \E b \in Jobs : QueueCheckpoint(j, b) \/ QueueVerification(j, b)
  BY <1>1, QueueSteps
<1>2. CASE Poll \/ PollUnanswered
  BY <1>2, ServeSteps DEF Poll, PollUnanswered
<1>3. CASE \E m \in net : Submit(m)
  BY <1>3, SubmitSteps
<1>4. CASE CommitCancel
  BY <1>4, CancelSteps
<1>5. CASE UNCHANGED jobs
  BY <1>5, OtherSteps
<1> QED
  BY <1>1, <1>2, <1>3, <1>4, <1>5 DEF Next, Work, vars, platform, ReadOpenJobs, Validate,
     RefuseContract, OpenJournal, WriteBlob, RecordEntry, BlockJournal, FinishJournal,
     SignCheckpoint, Verify, Post, Lose, Drift, Rotate, WindowEnds, LoseBlob, Crash

\* A requested job keeps what was requested, an answered one its answer.
LEMMA SettledJobs ==
    ASSUME TypeOK, JobsInv, ReceiptsInv, JobsStep
    PROVE  \A j \in Jobs :
              /\ jobs[j].status # "none" =>
                    /\ jobs'[j].status # "none" /\ jobs'[j].kind = jobs[j].kind
                    /\ jobs'[j].basis = jobs[j].basis /\ jobs'[j].plan = jobs[j].plan
              /\ jobs[j].receipt # NoReceipt =>
                    jobs[j].status # "none" /\ jobs'[j].receipt = jobs[j].receipt
              /\ \A k \in Kinds : Succeeded(j, k) => Succeeded(j, k)'
<1> SUFFICES ASSUME NEW j \in Jobs
             PROVE  /\ jobs[j].status # "none" =>
                          /\ jobs'[j].status # "none" /\ jobs'[j].kind = jobs[j].kind
                          /\ jobs'[j].basis = jobs[j].basis /\ jobs'[j].plan = jobs[j].plan
                    /\ jobs[j].receipt # NoReceipt =>
                          jobs[j].status # "none" /\ jobs'[j].receipt = jobs[j].receipt
  BY Blanks DEF Succeeded
<1>1. jobs[j] \in Job /\ JobInv(j)
  BY Fields DEF JobsInv
<1>2. jobs[j].status = "none" => jobs[j].receipt = NoReceipt
  BY <1>1, Blanks DEF JobInv
<1>3. CASE jobs'[j] = jobs[j]
  BY <1>2, <1>3
<1>4. CASE Queued(j)
  BY <1>2, <1>4 DEF Queued
<1>5. CASE Served(j)
  BY <1>1, <1>2, <1>5 DEF Served, Job
<1>6. CASE Submitted(j)
  <2>1. PICK m \in net : /\ m.job = j /\ Acceptable(m)
                         /\ jobs'[j] = [jobs[j] EXCEPT !.status = m.receipt.status, !.receipt = m.receipt]
    BY <1>6 DEF Submitted
  <2>2. m.receipt.status # "none" /\ jobs[j].receipt = NoReceipt
    BY <1>1, <2>1 DEF ReceiptsInv, Acceptable, Awaiting, JobInv
  <2> QED
    BY <1>1, <2>1, <2>2 DEF Job
<1>7. CASE Canceled(j)
  BY <1>1, <1>2, <1>7 DEF Canceled, Job
<1> QED
  BY <1>3, <1>4, <1>5, <1>6, <1>7 DEF JobsStep, JobStep

LEMMA JobsKept ==
    ASSUME TypeOK, JobsInv, ReceiptsInv, JobsStep
    PROVE  JobsInv'
<1> SUFFICES ASSUME NEW j \in Jobs PROVE JobInv(j)'
  BY DEF JobsInv
<1>1. jobs[j] \in Job /\ JobInv(j)
  BY Fields DEF JobsInv
\* What a job rests on stands.
<1>2. \A b \in Jobs, k \in Kinds : Succeeded(b, k) =>
        /\ Succeeded(b, k)' /\ jobs'[b].receipt = jobs[b].receipt /\ jobs'[b].plan = jobs[b].plan
  <2>1. \A b \in Jobs, k \in Kinds : Succeeded(b, k) => jobs[b].receipt # NoReceipt
    BY Blanks DEF Succeeded
  <2> QED
    BY <2>1, SettledJobs
<1>3. \A b \in Jobs : jobs[b].status = "ready" => Succeeded(b, jobs[b].kind)
  BY DEF JobsInv, JobInv, Succeeded
<1>4. {"validation", "checkpoint", "verification"} = Kinds
  BY DEF Kinds
<1>5. CASE jobs'[j] = jobs[j]
  <2>1. Evident(j)'
    BY <1>1, <1>5 DEF JobInv, Evident, Succeeded, AllReady
  <2> QED
    BY <1>1, <1>2, <1>4, <1>5, <2>1, Fields DEF JobInv, Succeeded
<1>6. CASE Queued(j)
  <2>1. /\ jobs'[j].status = "queued" /\ jobs'[j].receipt = NoReceipt
        /\ Evident(j)'
    BY <1>6, Blanks DEF Queued, Succeeded, Evident
  <2>2. jobs'[j].kind = "checkpoint" =>
            /\ jobs'[j].basis \in Jobs /\ Succeeded(jobs[j].basis, "validation")'
            /\ jobs'[j].plan = jobs'[jobs'[j].basis].receipt.plan
    BY <1>2, <1>3, <1>4, <1>6 DEF Queued, Succeeded
  <2>3. jobs'[j].kind = "verification" =>
            /\ jobs'[j].basis \in Jobs /\ Succeeded(jobs[j].basis, "checkpoint")'
            /\ jobs'[j].plan = jobs'[jobs'[j].basis].plan
    BY <1>2, <1>3, <1>4, <1>6 DEF Queued, Succeeded
  <2> QED
    BY <2>1, <2>2, <2>3 DEF JobInv
\* The other steps change the status and the receipt of a requested job.
<1>7. ASSUME jobs[j].status # "none",
             jobs'[j].status # "none",
             jobs'[j].status \in {"ready", "blocked"} => jobs'[j].receipt.status = jobs'[j].status,
             jobs'[j].status \in {"queued", "delivered", "expired"} => jobs'[j].receipt = NoReceipt,
             Evident(j)'
      PROVE  JobInv(j)'
  <2>1. /\ jobs'[j].kind = jobs[j].kind /\ jobs'[j].basis = jobs[j].basis
        /\ jobs'[j].plan = jobs[j].plan
    BY <1>7, SettledJobs
  <2>2. jobs'[j].kind = "checkpoint" =>
            /\ jobs'[j].basis \in Jobs /\ Succeeded(jobs[j].basis, "validation")'
            /\ jobs'[j].plan = jobs'[jobs'[j].basis].receipt.plan
    BY <1>1, <1>2, <1>4, <2>1 DEF JobInv, Succeeded
  <2>3. jobs'[j].kind = "verification" =>
            /\ jobs'[j].basis \in Jobs /\ Succeeded(jobs[j].basis, "checkpoint")'
            /\ jobs'[j].plan = jobs'[jobs'[j].basis].plan
    BY <1>1, <1>2, <1>4, <2>1 DEF JobInv, Succeeded
  <2> QED
    BY <1>7, <2>2, <2>3 DEF JobInv
<1>8. CASE Served(j)
  <2>1. /\ jobs[j].status \in {"queued", "delivered"} /\ jobs[j].receipt = NoReceipt
        /\ jobs'[j].status \in {"delivered", "expired"} /\ jobs'[j].receipt = NoReceipt
    BY <1>1, <1>8 DEF Served, Open, Job, JobInv
  <2> QED
    BY <1>7, <2>1, Blanks DEF Succeeded, Evident
<1>9. CASE Submitted(j)
  <2>1. PICK m \in net : /\ m.job = j /\ Acceptable(m)
                         /\ jobs'[j] = [jobs[j] EXCEPT !.status = m.receipt.status, !.receipt = m.receipt]
    BY <1>9 DEF Submitted
  <2>2. /\ jobs[j].status = "delivered" /\ m.receipt.status \in {"ready", "blocked"}
        /\ jobs'[j].status = m.receipt.status /\ jobs'[j].receipt = m.receipt
        /\ jobs'[j].kind = jobs[j].kind
    BY <1>1, <2>1, Fields DEF ReceiptsInv, Acceptable, Awaiting, Job, Receipt
  <2>3. Succeeded(j, "checkpoint")' => jobs'[j].receipt.whole /\ AllReady(jobs[j].receipt)'
    BY <2>1, <2>2 DEF Succeeded, Acceptable, Evidence, CheckpointEvidence, AllReady
  <2>4. Succeeded(j, "validation")' => jobs'[j].receipt.plan \in Plan
    <3>1. DOMAIN NoPlan # Entries
      BY RecoveryConstants DEF NoPlan, Entries
    <3>2. m.receipt.plan \in Plan \union {NoPlan}
      BY Fields DEF Receipt
    <3>3. Succeeded(j, "validation")' => CoversContract(m.receipt.plan)
      BY <2>1, <2>2 DEF Succeeded, Acceptable, Evidence
    <3> QED
      BY <2>2, <3>1, <3>2, <3>3 DEF CoversContract
  <2> QED
    BY <1>7, <2>2, <2>3, <2>4 DEF Evident
<1>10. CASE Canceled(j)
  <2>1. jobs'[j].status = "canceled" /\ jobs'[j].receipt = jobs[j].receipt /\ jobs'[j].kind = jobs[j].kind
    BY <1>1, <1>10 DEF Canceled, Job
  <2>2. jobs[j].status # "none" => JobInv(j)'
    BY <1>1, <1>7, <2>1 DEF JobInv, Succeeded, AllReady, Evident
  <2>3. jobs[j].status = "none" => JobInv(j)'
    BY <1>1, <1>10, <2>1, Blanks DEF JobInv, Succeeded, Canceled, Evident
  <2> QED
    BY <2>2, <2>3
<1> QED
  BY <1>5, <1>6, <1>8, <1>9, <1>10 DEF JobsStep, JobStep

LEMMA CancelKept ==
    ASSUME TypeOK, JobsInv, ReceiptsInv, CancelInv, [Next]_vars
    PROVE  CancelInv'
<1>1. JobsStep
  BY JobSteps
<1>2. \A j \in Jobs : Open(j)' => \/ jobs'[j].status = jobs[j].status
                                  \/ changeSet' = "authorized"
                                  \/ Open(j) /\ changeSet' = changeSet /\ doomed' = doomed
  <2> SUFFICES ASSUME NEW j \in Jobs, Open(j)'
               PROVE  \/ jobs'[j].status = jobs[j].status
                      \/ changeSet' = "authorized"
                      \/ Open(j) /\ changeSet' = changeSet /\ doomed' = doomed
    OBVIOUS
  <2>1. jobs[j] \in Job /\ JobStep(j)
    BY <1>1, Fields DEF JobsStep
  <2>2. CASE Submitted(j) /\ changeSet' = changeSet /\ doomed' = doomed
    BY <2>2 DEF Submitted, Acceptable, Awaiting, Open
  <2>3. ~ Canceled(j)
    BY <2>1 DEF Canceled, Open, Job
  <2> QED
    BY <2>1, <2>2, <2>3 DEF JobStep, Queued, Served
<1>3. CASE ReadOpenJobs
  <2>1. changeSet' = "canceling" /\ doomed' = {j \in Jobs : Open(j)} /\ jobs' = jobs
    BY <1>3 DEF ReadOpenJobs
  <2> QED
    BY <2>1 DEF CancelInv, Open
<1>4. CASE CommitCancel
  <2>1. \A j \in Jobs : ~ Open(j)'
    <3> SUFFICES ASSUME NEW j \in Jobs, Open(j)' PROVE FALSE
      OBVIOUS
    <3>1. jobs[j] \in Job
      BY Fields
    <3>2. j \notin doomed /\ jobs'[j] = jobs[j]
      BY <1>4, <3>1 DEF CommitCancel, Open, Job
    <3> QED
      BY <1>4, <3>2 DEF CommitCancel, CancelInv, Open
  <2> QED
    BY <1>4, <2>1 DEF CommitCancel, CancelInv
<1>5. CASE changeSet' = changeSet /\ doomed' = doomed
  <2>1. \A j \in doomed : jobs'[j].status # "none"
    BY <1>1, SettledJobs DEF CancelInv, TypeOK
  <2> QED
    BY <1>2, <1>5, <2>1 DEF CancelInv, Open
<1> QED
  BY <1>3, <1>4, <1>5 DEF Next, Work, vars, platform, QueueValidation, QueueCheckpoint,
     QueueVerification, Queue, Poll, PollUnanswered, Submit, Validate, RefuseContract, OpenJournal,
     WriteBlob, RecordEntry, BlockJournal, FinishJournal, SignCheckpoint, Verify, Post, Lose,
     Drift, Rotate, WindowEnds, LoseBlob, Crash

-----------------------------------------------------------------------------
(* What a step does on the agent *)

\* The platform's steps, and those of the setting, leave journals and receipts alone.
LEMMA PlatformStep ==
    ASSUME TypeOK, JobsInv, ReceiptsInv, JournalInv, JobsStep,
           UNCHANGED <<journal, cache>>, net' \subseteq net,
           \/ agent' = agent
           \/ agent'.at = "poll"
           \/ /\ agent'.job \in Jobs /\ Open(agent'.job)
              /\ agent'.at = IF Cached(agent'.job) THEN "post" ELSE "work",
           \A j \in Jobs : jobs'[j].receipt = jobs[j].receipt \/ jobs'[j].receipt = cache[j]
    PROVE  ReceiptsInv' /\ JournalInv'
<1>1. \A j \in Jobs : /\ jobs[j].status # "none" =>
                            /\ jobs'[j].status # "none" /\ jobs'[j].kind = jobs[j].kind
                            /\ jobs'[j].plan = jobs[j].plan
                      /\ jobs[j].status = "none" => jobs[j].kind = "validation"
                      /\ Cached(j)' <=> Cached(j)
                      /\ Open(j) => jobs[j].status # "none"
  BY SettledJobs, Blanks DEF JobsInv, JobInv, Cached, Open
<1>2. agent.at # "poll" => agent.job \in Jobs
  BY DEF TypeOK
<1>3. \A m \in net' : m.receipt = cache'[m.job] /\ Cached(m.job)'
  BY DEF ReceiptsInv, Cached
<1>4. \A j \in Jobs : /\ jobs'[j].receipt # NoReceipt => jobs'[j].receipt = cache'[j]
                      /\ Cached(j)' => cache'[j].status # "none" /\ jobs'[j].status # "none"
  BY <1>1 DEF ReceiptsInv, Cached
<1>5. /\ agent'.at # "poll" => jobs'[agent'.job].status # "none"
      /\ agent'.at \in Working => ~ Cached(agent.job)'
      /\ agent'.at = "post" => Cached(agent.job)'
  <2>1. CASE agent' = agent
    BY <1>1, <1>2, <2>1 DEF ReceiptsInv, Cached, Working
  <2>2. CASE agent'.at = "poll"
    BY <2>2 DEF Working
  <2>3. CASE /\ agent'.job \in Jobs /\ Open(agent'.job)
             /\ agent'.at = IF Cached(agent'.job) THEN "post" ELSE "work"
    BY <1>1, <2>3 DEF Cached, Working
  <2> QED
    BY <2>1, <2>2, <2>3
<1>6. ReceiptsInv'
  BY <1>3, <1>4, <1>5 DEF ReceiptsInv
<1>7. \A j \in Jobs : journal[j].state # "none" => jobs[j].status # "none"
  BY <1>1 DEF JournalInv
<1>8. ASSUME NEW j \in Jobs
      PROVE  /\ journal'[j].state = "none" => journal'[j] = NoJournal
             /\ journal'[j].state # "none" => jobs'[j].kind = "checkpoint"
             /\ \A e \in Entries : journal'[j].results[e].status = "ready" =>
                    journal'[j].results[e].blob.content = jobs'[j].plan[e]
             /\ cache'[j].whole =>
                  /\ cache'[j].results = journal'[j].results
                  /\ cache'[j].status = "ready" => journal'[j].state = "checkpointed"
  <2>1. CASE journal[j].state = "none"
    <3>1. \A e \in Entries : journal[j].results[e].status # "ready"
      BY <2>1, Blanks DEF JournalInv
    <3> QED
      BY <2>1, <3>1 DEF JournalInv
  <2>2. CASE journal[j].state # "none"
    BY <1>1, <1>7, <2>2 DEF JournalInv
  <2> QED
    BY <2>1, <2>2
<1>9. /\ agent'.at \in {"copy", "copied", "sign"} => journal'[agent'.job].state # "none"
      /\ agent'.at = "copied" => \A e \in Entries : Turn(e)' => agent'.copy.content = jobs'[agent'.job].plan[e]
  <2>1. CASE agent' = agent
    <3>1. \A e : Turn(e)' <=> Turn(e)
      BY <2>1 DEF Turn, Incomplete, Local
    <3>2. agent.at = "copied" => jobs'[agent.job].plan = jobs[agent.job].plan
      BY <1>1, <1>2 DEF ReceiptsInv
    <3> QED
      BY <2>1, <3>1, <3>2 DEF JournalInv, Local, Current
  <2>2. CASE agent'.at \in {"poll", "post", "work"}
    BY <2>2
  <2> QED
    BY <2>1, <2>2
<1> QED
  BY <1>6, <1>8, <1>9 DEF JournalInv, Local, Current

\* Signing and keeping a receipt for the job the agent works on.
LEMMA KeepStep ==
    ASSUME TypeOK, JobsInv, ReceiptsInv, JournalInv, NEW receipt, Keep(receipt),
           receipt.status \in {"ready", "blocked"}, agent.at \in Working,
           receipt.whole =>
                /\ receipt.results = Local.results
                /\ receipt.status = "ready" => Local.state = "checkpointed",
           UNCHANGED <<jobs, journal, net>>
    PROVE  ReceiptsInv' /\ JournalInv'
<1>1. agent.job \in Jobs /\ ~ Cached(agent.job) /\ jobs[agent.job].status # "none"
  BY DEF TypeOK, ReceiptsInv, Working
<1>2. /\ cache'[agent.job] = receipt /\ \A j \in Jobs \ {agent.job} : cache'[j] = cache[j]
      /\ agent'.at = "post" /\ agent'.job = agent.job
  BY <1>1 DEF Keep, TypeOK
<1>3. receipt # NoReceipt
  BY Blanks
<1>4. \A m \in net : m.job \in Jobs \ {agent.job}
  BY <1>1, Fields DEF ReceiptsInv
<1>5. jobs[agent.job].receipt = NoReceipt
  BY <1>1 DEF ReceiptsInv, Cached
<1>6. \A m \in net' : m.receipt = cache'[m.job] /\ Cached(m.job)'
  BY <1>2, <1>4 DEF ReceiptsInv, Cached
<1>7. \A j \in Jobs : /\ jobs'[j].receipt # NoReceipt => jobs'[j].receipt = cache'[j]
                      /\ Cached(j)' => cache'[j].status # "none" /\ jobs'[j].status # "none"
  BY <1>1, <1>2, <1>5 DEF ReceiptsInv, Cached
<1>8. ReceiptsInv'
  BY <1>1, <1>2, <1>3, <1>6, <1>7 DEF ReceiptsInv, Cached, Working
<1>9. JournalInv'
  BY <1>1, <1>2 DEF JournalInv, Local
<1> QED
  BY <1>8, <1>9

\* A write of the journal of the job the agent works on, or of one of its blobs.
LEMMA JournalStep ==
    ASSUME TypeOK, JobsInv, ReceiptsInv, JournalInv, agent.at \in Working, agent.turn = "checkpoint",
           UNCHANGED <<jobs, cache, net>>, journal' \in [Jobs -> Journal],
           \A j \in Jobs : j # agent.job => journal'[j] = journal[j],
           agent'.job = agent.job, agent'.at \in {"copy", "copied", "sign"},
           journal'[agent.job].state # "none",
           \A e \in Entries : journal'[agent.job].results[e].status = "ready" =>
                journal'[agent.job].results[e].blob.content = Current.plan[e],
           agent'.at = "copied" => \A e \in Entries : Turn(e)' => agent'.copy.content = Current.plan[e]
    PROVE  ReceiptsInv' /\ JournalInv'
<1>1. /\ agent.job \in Jobs /\ ~ Cached(agent.job) /\ jobs[agent.job].status # "none"
      /\ jobs[agent.job].kind = "checkpoint"
  BY DEF TypeOK, ReceiptsInv, Working
<1>2. ReceiptsInv'
  BY <1>1 DEF ReceiptsInv, Cached, Working
<1>3. cache[agent.job].whole = FALSE
  BY <1>1, Blanks DEF Cached
<1>4. JournalInv'
  BY <1>1, <1>3 DEF JournalInv, Local, Current
<1> QED
  BY <1>2, <1>4

LEMMA PostStep ==
    ASSUME TypeOK, ReceiptsInv, JournalInv, Post
    PROVE  ReceiptsInv' /\ JournalInv'
<1>1. agent.job \in Jobs /\ Cached(agent.job)
  BY DEF Post, TypeOK, ReceiptsInv
<1>2. /\ net' = net \union {[job |-> agent.job, receipt |-> cache[agent.job]]}
      /\ agent'.at = "poll" /\ UNCHANGED <<jobs, journal, cache>>
  BY DEF Post, Idle, Rested, platform, disk
<1>3. ReceiptsInv'
  BY <1>1, <1>2 DEF ReceiptsInv, Cached, Working
<1>4. JournalInv'
  BY <1>2 DEF JournalInv
<1> QED
  BY <1>3, <1>4

-----------------------------------------------------------------------------
(* The agent's steps, one by one *)

LEMMA Signing ==
    ASSUME TypeOK, NEW status \in {"ready", "blocked"}
    PROVE  /\ Signed(status) \in Receipt /\ Signed(status).status = status
           /\ Signed(status).whole = FALSE
<1>1. NoReceipt \in Receipt
  BY Blanks
<1> QED
  BY <1>1, Blanks DEF Signed, Receipt, TypeOK

LEMMA KeepTypes ==
    ASSUME TypeOK, NEW receipt \in Receipt, Keep(receipt), agent.at \in Working,
           UNCHANGED <<platform, setting, journal, blobs, run, net>>
    PROVE  TypeOK'
<1>1. agent.job \in Jobs
  BY DEF TypeOK, Working
<1>2. UNCHANGED <<jobs, changeSet, doomed, windowOpen, commandKey, source, journal, blobs, run, net>>
  BY DEF platform, setting
<1>3. cache' \in [Jobs -> Receipt]
  BY <1>1 DEF Keep, TypeOK
<1>4. agent' = [agent EXCEPT !.at = "post"]
  BY DEF Keep
<1>5. agent' \in [at : Steps, turn : Kinds, job : Jobs \union {NoJob}, copy : Blob]
  BY <1>4 DEF TypeOK, Steps
<1>6. agent'.job \in Jobs /\ jobs[agent'.job].kind = agent'.turn
  BY <1>1, <1>4 DEF TypeOK, Working
<1> QED
  BY <1>2, <1>3, <1>5, <1>6 DEF TypeOK

\* The receipts of refused contracts, dry runs and verifications have no journal.
LEMMA Keeping ==
    ASSUME IInv,
           \/ \E status \in DryRun : Validate(status)
           \/ RefuseContract \/ SignCheckpoint \/ Verify
    PROVE  TypeOK' /\ ReceiptsInv' /\ JournalInv'
<1>1. UNCHANGED <<platform, setting, journal, blobs, run, net>> /\ agent.at \in Working
  BY DEF Validate, RefuseContract, SignCheckpoint, Verify, At, Working
<1>2. UNCHANGED <<jobs, journal, net>>
  BY <1>1 DEF platform
<1>3. ASSUME NEW receipt \in Receipt, Keep(receipt), receipt.status \in {"ready", "blocked"},
             receipt.whole => /\ receipt.results = Local.results
                              /\ receipt.status = "ready" => Local.state = "checkpointed"
      PROVE  TypeOK' /\ ReceiptsInv' /\ JournalInv'
  BY <1>1, <1>2, <1>3, KeepTypes, KeepStep DEF IInv
<1>4. ASSUME NEW status \in DryRun, Validate(status) PROVE TypeOK' /\ ReceiptsInv' /\ JournalInv'
  <2>1. (IF status = "ready" THEN source ELSE NoPlan) \in Plan \union {NoPlan}
    BY <1>4, Constants DEF Validate, Recoverable, Plan, IInv, TypeOK
  <2>2. PICK plan \in Plan \union {NoPlan} : Keep([Signed(status) EXCEPT !.plan = plan])
    BY <1>4, <2>1 DEF Validate
  <2>3. Signed(status) \in Receipt /\ Signed(status).status = status /\ Signed(status).whole = FALSE
        /\ status \in {"ready", "blocked"}
    BY Signing DEF IInv, DryRun
  <2>4. /\ [Signed(status) EXCEPT !.plan = plan] \in Receipt
        /\ [Signed(status) EXCEPT !.plan = plan].status = status
        /\ [Signed(status) EXCEPT !.plan = plan].whole = FALSE
    BY <2>2, <2>3 DEF Receipt
  <2> QED
    BY <1>3, <2>2, <2>3, <2>4
<1>5. ASSUME NEW status \in {"ready", "blocked"}, NEW results \in [Entries -> Result],
             Keep([Signed(status) EXCEPT !.results = results])
      PROVE  TypeOK' /\ ReceiptsInv' /\ JournalInv'
  <2>1. Signed(status) \in Receipt /\ Signed(status).status = status /\ Signed(status).whole = FALSE
    BY Signing DEF IInv
  <2>2. /\ [Signed(status) EXCEPT !.results = results] \in Receipt
        /\ [Signed(status) EXCEPT !.results = results].status = status
        /\ [Signed(status) EXCEPT !.results = results].whole = FALSE
    BY <1>5, <2>1 DEF Receipt
  <2> QED
    BY <1>3, <1>5, <2>2
<1>6. CASE RefuseContract
  <2>1. AllRefused \in [Entries -> Result]
    BY Blanks DEF AllRefused
  <2> QED
    BY <1>5, <1>6, <2>1 DEF RefuseContract
<1>7. CASE SignCheckpoint
  <2>1. agent.job \in Jobs /\ Local.results \in [Entries -> Result]
    BY <1>7, Fields DEF SignCheckpoint, At, IInv, TypeOK, Local
  <2>2. PICK status \in {"ready", "blocked"} :
            /\ status = "ready" => Local.state = "checkpointed"
            /\ Keep([Signed(status) EXCEPT !.results = Local.results, !.whole = TRUE])
    BY <1>7 DEF SignCheckpoint
  <2>3. Signed(status) \in Receipt /\ Signed(status).status = status
    BY Signing DEF IInv
  <2>4. PICK receipt : receipt = [Signed(status) EXCEPT !.results = Local.results, !.whole = TRUE]
    OBVIOUS
  <2>5. receipt \in Receipt /\ receipt.status = status /\ receipt.results = Local.results
    BY <2>1, <2>3, <2>4 DEF Receipt
  <2> QED
    BY <1>3, <2>2, <2>4, <2>5
<1>8. CASE Verify
  <2>1. PICK good \in SUBSET Entries :
          /\ good # {} => JournalMatches(Current.basis)
          /\ Keep([Signed(IF good = Entries THEN "ready" ELSE "blocked") EXCEPT !.results =
                    [e \in Entries |-> IF e \in good THEN journal[Current.basis].results[e] ELSE Refused]])
    BY <1>8 DEF Verify
  <2>2. agent.job \in Jobs /\ Current.kind = "verification"
    BY <1>8 DEF Verify, At, IInv, TypeOK, Current
  <2>3. Current.basis \in Jobs
    BY <2>2 DEF IInv, JobsInv, JobInv, Current
  <2>4. [e \in Entries |-> IF e \in good THEN journal[Current.basis].results[e] ELSE Refused]
            \in [Entries -> Result]
    BY <2>3, Fields, Blanks DEF IInv
  <2>5. (IF good = Entries THEN "ready" ELSE "blocked") \in {"ready", "blocked"}
    OBVIOUS
  <2> QED
    BY <1>5, <2>1, <2>4, <2>5
<1> QED
  BY <1>4, <1>6, <1>7, <1>8

LEMMA JournalTypes ==
    ASSUME TypeOK, agent.at \in Working, journal' \in [Jobs -> Journal],
           blobs' \in [Jobs -> [Entries -> Blob]],
           NEW step \in Steps, NEW copy \in Blob,
           agent' = [agent EXCEPT !.at = step, !.copy = copy],
           UNCHANGED <<platform, setting, cache, run, net>>
    PROVE  TypeOK'
<1>1. agent.job \in Jobs /\ jobs[agent.job].kind = agent.turn
  BY DEF TypeOK, Working
<1>2. /\ agent' \in [at : Steps, turn : Kinds, job : Jobs \union {NoJob}, copy : Blob]
      /\ agent'.job = agent.job /\ agent'.turn = agent.turn
  BY DEF TypeOK
<1> QED
  BY <1>1, <1>2 DEF TypeOK, platform, setting

LEMMA Journalling ==
    ASSUME IInv, OpenJournal \/ (\E e \in Entries : RecordEntry(e) \/ BlockJournal(e)) \/ FinishJournal
    PROVE  TypeOK' /\ ReceiptsInv' /\ JournalInv'
<1>1. /\ UNCHANGED <<platform, setting, blobs, cache, run, net>> /\ agent.at \in Working
      /\ agent.turn = "checkpoint"
  BY DEF OpenJournal, RecordEntry, BlockJournal, FinishJournal, At, Working
<1>2. UNCHANGED <<jobs, cache, net>>
  BY <1>1 DEF platform
<1>3. /\ agent.job \in Jobs /\ Local \in Journal /\ Local.results \in [Entries -> Result]
      /\ journal \in [Jobs -> Journal] /\ agent.copy \in Blob
      /\ blobs \in [Jobs -> [Entries -> Blob]]
      /\ agent \in [at : Steps, turn : Kinds, job : Jobs \union {NoJob}, copy : Blob]
  BY <1>1, Fields DEF IInv, TypeOK, Local, Working
<1>4. /\ Local.state = "none" => Local = NoJournal
      /\ \A e \in Entries : Local.results[e].status = "ready" => Local.results[e].blob.content = Current.plan[e]
      /\ agent.at \in {"copy", "copied", "sign"} => Local.state # "none"
      /\ agent.at = "copied" => \A e \in Entries : Turn(e) => agent.copy.content = Current.plan[e]
  BY <1>3 DEF IInv, JournalInv, Local, Current
\* What every write of a journal has in common.
<1>5. ASSUME NEW new \in Journal, NEW step \in {"copy", "sign"}, NEW copy \in Blob,
             journal' = [journal EXCEPT ![agent.job] = new],
             agent' = [agent EXCEPT !.at = step, !.copy = copy],
             new.state # "none",
             \A e \in Entries : new.results[e].status = "ready" =>
                new.results[e].blob.content = Current.plan[e]
      PROVE  TypeOK' /\ ReceiptsInv' /\ JournalInv'
  <2>1. /\ journal' \in [Jobs -> Journal] /\ journal'[agent.job] = new
        /\ \A j \in Jobs : j # agent.job => journal'[j] = journal[j]
    BY <1>3, <1>5
  <2>2. agent'.job = agent.job /\ agent'.at = step /\ step \in Steps /\ blobs' = blobs
    BY <1>1, <1>3, <1>5 DEF Steps
  <2>3. TypeOK'
    BY <1>1, <1>3, <1>5, <2>1, <2>2, JournalTypes DEF IInv
  <2>4. ReceiptsInv' /\ JournalInv'
    BY <1>1, <1>2, <1>5, <2>1, <2>2, JournalStep DEF IInv
  <2> QED
    BY <2>3, <2>4
<1>6. ASSUME NEW step \in {"copy", "sign"}, Go(step)
      PROVE  agent' = [agent EXCEPT !.at = step, !.copy = agent.copy]
  BY <1>3, <1>6 DEF Go
<1>7. CASE OpenJournal
  <2>1. PICK step \in {"copy", "sign"} : Go(step)
    BY <1>7 DEF OpenJournal
  <2>2. CASE Local.state = "none"
    <3>1. PICK new : new = [NoJournal EXCEPT !.state = "checkpointing"]
      OBVIOUS
    <3>2. /\ new \in Journal /\ new.state = "checkpointing"
          /\ \A e \in Entries : new.results[e].status # "ready"
      BY <3>1, Blanks DEF Journal
    <3>3. journal' = [journal EXCEPT ![agent.job] = new]
      BY <1>7, <2>2, <3>1 DEF OpenJournal, WriteJournal
    <3> QED
      BY <1>3, <1>5, <1>6, <2>1, <3>2, <3>3
  <2>3. CASE Local.state # "none"
    <3>1. journal' = [journal EXCEPT ![agent.job] = Local]
      BY <1>3, <1>7, <2>3 DEF OpenJournal, Local
    <3> QED
      BY <1>3, <1>4, <1>5, <1>6, <2>1, <2>3, <3>1
  <2> QED
    BY <2>2, <2>3
<1>8. ASSUME NEW e \in Entries, RecordEntry(e) PROVE TypeOK' /\ ReceiptsInv' /\ JournalInv'
  <2>1. PICK blob \in Blob : Record(e, blob) /\ blob.content = Current.plan[e] /\ Local.state # "none"
    <3>1. CASE At("copied", "checkpoint") /\ Turn(e) /\ Record(e, agent.copy)
      BY <1>3, <1>4, <3>1 DEF At
    <3>2. CASE At("copy", "checkpoint") /\ Current.plan[e] = Absent /\ Record(e, NoBlob)
      BY <1>4, <3>2, Blanks DEF At, NoBlob
    <3> QED
      BY <1>8, <3>1, <3>2 DEF RecordEntry
  <2>2. PICK new : new = [Local EXCEPT !.results[e] = [status |-> "ready", blob |-> blob]]
    OBVIOUS
  <2>3. [status |-> "ready", blob |-> blob] \in Result
    BY DEF Result
  <2>4. /\ new \in Journal /\ new.state = Local.state
        /\ new.results = [Local.results EXCEPT ![e] = [status |-> "ready", blob |-> blob]]
    BY <1>3, <2>2, <2>3 DEF Journal
  <2>5. \A d \in Entries : new.results[d].status = "ready" => new.results[d].blob.content = Current.plan[d]
    BY <1>3, <1>4, <2>1, <2>4
  <2>6. journal' = [journal EXCEPT ![agent.job] = new]
    BY <2>1, <2>2 DEF Record, WriteJournal
  <2>7. agent' = [agent EXCEPT !.at = "copy", !.copy = NoBlob] /\ NoBlob \in Blob
    BY <1>8, Blanks DEF RecordEntry
  <2> QED
    BY <1>5, <2>1, <2>4, <2>5, <2>6, <2>7
<1>9. ASSUME NEW e \in Entries, BlockJournal(e) PROVE TypeOK' /\ ReceiptsInv' /\ JournalInv'
  <2>1. PICK new : new = [state |-> "blocked",
                          results |-> [d \in Entries |-> IF d \in Incomplete THEN Refused
                                                         ELSE Local.results[d]]]
    OBVIOUS
  <2>2. new \in Journal /\ new.state = "blocked"
    BY <1>3, <2>1, Blanks DEF Journal
  <2>3. \A d \in Entries : new.results[d].status = "ready" => new.results[d].blob.content = Current.plan[d]
    BY <1>4, <2>1 DEF Refused
  <2>4. journal' = [journal EXCEPT ![agent.job] = new] /\ Go("sign")
    BY <1>9, <2>1 DEF BlockJournal, WriteJournal
  <2> QED
    BY <1>3, <1>5, <1>6, <2>2, <2>3, <2>4
<1>10. CASE FinishJournal
  <2>1. PICK new : new = [Local EXCEPT !.state = "checkpointed"]
    OBVIOUS
  <2>2. new \in Journal /\ new.state = "checkpointed" /\ new.results = Local.results
    BY <1>3, <2>1 DEF Journal
  <2>3. journal' = [journal EXCEPT ![agent.job] = new] /\ Go("sign")
    BY <1>10, <2>1 DEF FinishJournal, WriteJournal
  <2>4. \A e \in Entries : new.results[e].status = "ready" => new.results[e].blob.content = Current.plan[e]
    BY <1>4, <2>2
  <2>5. PICK step \in {"copy", "sign"} : Go(step)
    BY <2>3
  <2> QED
    BY <1>3, <1>5, <1>6, <2>2, <2>3, <2>4, <2>5
<1> QED
  BY <1>7, <1>8, <1>9, <1>10

LEMMA Copying ==
    ASSUME IInv, NEW e \in Entries, WriteBlob(e)
    PROVE  TypeOK' /\ ReceiptsInv' /\ JournalInv'
<1>1. /\ UNCHANGED <<platform, setting, journal, cache, run, net>>
      /\ agent.at = "copy" /\ agent.turn = "checkpoint" /\ agent.at \in Working
      /\ Turn(e) /\ Current.plan[e] # Absent /\ source[e] = Current.plan[e]
  BY DEF WriteBlob, At, Working, Copyable, AsPlanned
<1>2. PICK blob : /\ blob = [content |-> source[e], run |-> run]
                  /\ blobs' = [blobs EXCEPT ![agent.job][e] = blob]
                  /\ agent' = [agent EXCEPT !.at = "copied", !.copy = blob]
  BY DEF WriteBlob
<1>3. agent.job \in Jobs /\ jobs[agent.job].plan \in Plan \union {NoPlan}
  BY <1>1, Fields DEF IInv, TypeOK
<1>4. source[e] \in Contents
  <2>1. jobs[agent.job].kind = "checkpoint"
    BY <1>1 DEF IInv, TypeOK
  <2>2. source[e] \in Contents \union {Absent, Unsafe}
    BY DEF IInv, TypeOK
  <2>3. Current.plan \in Plan
    BY <1>3, <2>1 DEF IInv, JobsInv, JobInv, Evident, Current
  <2>4. source[e] # Unsafe
    BY <1>1, <2>3, Constants DEF Plan
  <2> QED
    BY <1>1, <2>2, <2>4
<1>5. blob \in Blob /\ blob.content = Current.plan[e]
  BY <1>1, <1>2, <1>4 DEF Blob, IInv, TypeOK
<1>6. TypeOK'
  <2>1. blobs' \in [Jobs -> [Entries -> Blob]] /\ journal' \in [Jobs -> Journal]
    BY <1>1, <1>2, <1>3, <1>5 DEF IInv, TypeOK
  <2> QED
    BY <1>1, <1>2, <1>5, <2>1, JournalTypes DEF IInv, Steps
<1>7. /\ agent'.job = agent.job /\ agent'.at = "copied" /\ agent'.copy = blob
      /\ \A d : Turn(d)' <=> Turn(d)
  BY <1>1, <1>2 DEF Turn, Incomplete, Local, IInv, TypeOK
<1>8. \A d \in Entries : Turn(d) => d = e
  BY <1>1, Constants DEF Turn, Incomplete
<1>9. ReceiptsInv' /\ JournalInv'
  <2>1. Local.state # "none"
    BY <1>1 DEF IInv, JournalInv
  <2>2. \A d \in Entries : Turn(d)' => agent'.copy.content = Current.plan[d]
    BY <1>5, <1>7, <1>8
  <2>3. \A d \in Entries : journal'[agent.job].results[d].status = "ready" =>
            journal'[agent.job].results[d].blob.content = Current.plan[d]
    BY <1>1, <1>3 DEF IInv, JournalInv, Current
  <2>4. journal' = journal /\ journal' \in [Jobs -> Journal] /\ UNCHANGED <<jobs, cache, net>>
    BY <1>1 DEF IInv, TypeOK, platform
  <2> QED
    BY <1>1, <1>7, <2>1, <2>2, <2>3, <2>4, JournalStep DEF IInv, Local
<1> QED
  BY <1>6, <1>9

-----------------------------------------------------------------------------
(* The other steps *)

LEMMA ReceiptsMove ==
    ASSUME TypeOK, JobsInv, ReceiptsInv, JobsStep
    PROVE  \A j \in Jobs : jobs'[j].receipt = jobs[j].receipt \/ jobs'[j].receipt = cache[j]
<1> SUFFICES ASSUME NEW j \in Jobs
             PROVE  jobs'[j].receipt = jobs[j].receipt \/ jobs'[j].receipt = cache[j]
  OBVIOUS
<1>1. jobs[j] \in Job /\ JobStep(j) /\ JobInv(j)
  BY Fields DEF JobsInv, JobsStep
<1>2. CASE Queued(j)
  BY <1>1, <1>2, Blanks DEF Queued, JobInv
<1>3. CASE Submitted(j)
  BY <1>1, <1>3, Fields DEF Submitted, ReceiptsInv, Job
<1> QED
  BY <1>1, <1>2, <1>3 DEF JobStep, Served, Canceled, Job

Agents == [at : Steps, turn : Kinds, job : Jobs \union {NoJob}, copy : Blob]

\* A step of the platform or of the setting that keeps the types keeps the rest.
LEMMA PlatformKeeps ==
    ASSUME IInv, JobsStep,
           changeSet' \in {"authorized", "canceling", "canceled"}, doomed' \subseteq Jobs,
           windowOpen' \in BOOLEAN, commandKey' \in 1..MaxKeys,
           source' \in [Entries -> Contents \union {Absent, Unsafe}],
           blobs' \in [Jobs -> [Entries -> Blob]], run' \in Runs,
           UNCHANGED <<journal, cache>>, net' \subseteq net, agent' \in Agents,
           \/ agent' = agent
           \/ agent'.at = "poll"
           \/ /\ agent'.job \in Jobs /\ Open(agent'.job)
              /\ jobs[agent'.job].kind = agent'.turn
              /\ agent'.at = IF Cached(agent'.job) THEN "post" ELSE "work"
    PROVE  TypeOK' /\ ReceiptsInv' /\ JournalInv'
<1>1. ReceiptsInv' /\ JournalInv'
  BY ReceiptsMove, PlatformStep DEF IInv
<1>2. agent'.at # "poll" => agent'.job \in Jobs /\ jobs'[agent'.job].kind = agent'.turn
  <2>1. agent'.at # "poll" => /\ agent'.job \in Jobs /\ jobs[agent'.job].kind = agent'.turn
                              /\ jobs[agent'.job].status # "none"
    BY DEF IInv, TypeOK, ReceiptsInv, Open
  <2> QED
    BY <2>1, SettledJobs DEF IInv
<1>3. TypeOK'
  BY <1>2 DEF IInv, TypeOK, Agents, JobsStep
<1> QED
  BY <1>1, <1>3

LEMMA IdleAgent ==
    ASSUME TypeOK
    PROVE  Rested \in Agents /\ Idle \in Agents /\ Rested.at = "poll" /\ Idle.at = "poll"
<1>1. Rested \in Agents
  BY Blanks DEF Rested, Agents, Steps, Kinds
<1>2. NextTurn[agent.turn] \in Kinds
  BY Fields DEF NextTurn, Kinds
<1> QED
  BY <1>1, <1>2 DEF Idle, Rested, Agents

LEMMA Requesting ==
    ASSUME IInv, JobsStep, UNCHANGED <<setting, disk, agent, run>>, net' \subseteq net,
           \/ \E j \in Jobs : \/ QueueValidation(j)
                             \/ \E b \in Jobs : QueueCheckpoint(j, b) \/ QueueVerification(j, b)
           \/ ReadOpenJobs \/ CommitCancel
           \/ \E m \in net : Submit(m) \/ Lose(m)
    PROVE  TypeOK' /\ ReceiptsInv' /\ JournalInv'
<1>1. /\ windowOpen' \in BOOLEAN /\ commandKey' \in 1..MaxKeys
      /\ source' \in [Entries -> Contents \union {Absent, Unsafe}]
      /\ blobs' \in [Jobs -> [Entries -> Blob]] /\ run' \in Runs
      /\ UNCHANGED <<journal, cache, agent>> /\ agent' \in Agents
  BY DEF IInv, TypeOK, setting, disk, Agents
<1>2. changeSet' \in {"authorized", "canceling", "canceled"} /\ doomed' \subseteq Jobs
  <2>1. CASE ReadOpenJobs \/ CommitCancel
    BY <2>1 DEF ReadOpenJobs, CommitCancel
  <2>2. CASE UNCHANGED <<changeSet, doomed>>
    BY <2>2 DEF IInv, TypeOK
  <2> QED
    BY <2>1, <2>2 DEF QueueValidation, QueueCheckpoint, QueueVerification, Queue, Submit, Lose, platform
<1> QED
  BY <1>1, <1>2, PlatformKeeps

LEMMA Polling ==
    ASSUME IInv, JobsStep, Poll \/ PollUnanswered
    PROVE  TypeOK' /\ ReceiptsInv' /\ JournalInv'
<1>1. UNCHANGED <<changeSet, doomed, setting, disk, run, net>>
  BY DEF Poll, PollUnanswered
<1>2. UNCHANGED <<changeSet, doomed, windowOpen, commandKey, source, journal, blobs, cache, run, net>>
  BY <1>1 DEF setting, disk
<1>3. /\ agent' \in Agents
      /\ \/ agent'.at = "poll"
         \/ /\ agent'.job \in Jobs /\ Open(agent'.job)
            /\ jobs[agent'.job].kind = agent'.turn
            /\ agent'.at = IF Cached(agent'.job) THEN "post" ELSE "work"
  <2>1. CASE agent' = Idle
    BY <2>1, IdleAgent DEF IInv
  <2>2. ASSUME NEW j \in Offered, agent' = [agent EXCEPT !.at = IF Cached(j) THEN "post" ELSE "work", !.job = j]
        PROVE  /\ agent' \in Agents /\ agent'.job \in Jobs /\ Open(agent'.job)
               /\ jobs[agent'.job].kind = agent'.turn
               /\ agent'.at = IF Cached(agent'.job) THEN "post" ELSE "work"
    <3>1. agent \in Agents /\ j \in Jobs /\ Open(j) /\ jobs[j].kind = agent.turn
      BY DEF IInv, TypeOK, Agents, Offered, OpenJobs
    <3> QED
      BY <2>2, <3>1 DEF Agents, Steps
  <2> QED
    BY <2>1, <2>2 DEF Poll, PollUnanswered
<1> QED
  BY <1>2, <1>3, PlatformKeeps DEF IInv, TypeOK

LEMMA Changing ==
    ASSUME IInv, JobsStep,
           \/ \E e \in Entries, s \in Contents \union {Absent, Unsafe} : Drift(e, s)
           \/ Rotate \/ WindowEnds \/ Crash
           \/ \E j \in Jobs, e \in Entries : LoseBlob(j, e)
           \/ UNCHANGED vars
    PROVE  TypeOK' /\ ReceiptsInv' /\ JournalInv'
<1>1. UNCHANGED <<jobs, changeSet, doomed, journal, cache, net>>
  BY DEF Drift, Rotate, WindowEnds, Crash, LoseBlob, vars, platform, disk
<1>2. agent' \in Agents /\ (agent' = agent \/ agent'.at = "poll")
  <2>1. agent' \in {agent, Rested}
    BY DEF Drift, Rotate, WindowEnds, Crash, LoseBlob, vars
  <2> QED
    BY <2>1, IdleAgent DEF IInv, TypeOK, Agents
<1>3. source' \in [Entries -> Contents \union {Absent, Unsafe}] /\ windowOpen' \in BOOLEAN
  BY DEF Drift, Rotate, WindowEnds, Crash, LoseBlob, vars, setting, IInv, TypeOK
<1>4. commandKey' \in 1..MaxKeys /\ run' \in Runs
  <2>1. commandKey \in 1..MaxKeys /\ run \in Runs
    BY DEF IInv, TypeOK
  <2>2. commandKey' = commandKey \/ (commandKey < MaxKeys /\ commandKey' = commandKey + 1)
    BY DEF Drift, Rotate, WindowEnds, Crash, LoseBlob, vars, setting
  <2>3. run' = run \/ (run < MaxRuns /\ run' = run + 1)
    BY DEF Drift, Rotate, WindowEnds, Crash, LoseBlob, vars
  <2> QED
    BY <2>1, <2>2, <2>3, RecoveryConstants DEF Runs
<1>5. blobs' \in [Jobs -> [Entries -> Blob]]
  <2>1. CASE blobs' = blobs
    BY <2>1 DEF IInv, TypeOK
  <2>2. ASSUME NEW j \in Jobs, NEW e \in Entries, LoseBlob(j, e) PROVE blobs' \in [Jobs -> [Entries -> Blob]]
    BY <2>2, Blanks DEF LoseBlob, IInv, TypeOK
  <2> QED
    BY <2>1, <2>2 DEF Drift, Rotate, WindowEnds, Crash, vars, disk
<1> QED
  BY <1>1, <1>2, <1>3, <1>4, <1>5, PlatformKeeps DEF IInv, TypeOK

LEMMA Posting ==
    ASSUME IInv, Post
    PROVE  TypeOK' /\ ReceiptsInv' /\ JournalInv'
<1>1. ReceiptsInv' /\ JournalInv'
  BY PostStep DEF IInv
<1>2. UNCHANGED <<jobs, changeSet, doomed, windowOpen, commandKey, source, journal, blobs, cache, run>>
  BY DEF Post, platform, setting, disk
<1>3. [job |-> agent.job, receipt |-> cache[agent.job]] \in [job : Jobs, receipt : Receipt]
  BY DEF Post, IInv, TypeOK
<1>4. agent' \in Agents /\ agent'.at = "poll"
  BY IdleAgent DEF Post, IInv
<1>5. net' \subseteq [job : Jobs, receipt : Receipt]
  BY <1>3 DEF Post, IInv, TypeOK
<1>6. TypeOK'
  BY <1>2, <1>4, <1>5 DEF IInv, TypeOK, Agents
<1> QED
  BY <1>1, <1>6

LEMMA Initially == Init => IInv
<1> SUFFICES ASSUME Init PROVE IInv
  OBVIOUS
<1>1. TypeOK
  <2>1. agent \in Agents /\ agent.at = "poll"
    BY Blanks DEF Init, Rested, Agents, Steps, Kinds
  <2> QED
    BY <2>1, Blanks, Constants DEF Init, TypeOK, Agents
<1>2. \A j \in Jobs : /\ jobs[j] = NewJob /\ journal[j] = NoJournal /\ cache[j] = NoReceipt
  BY DEF Init
<1>3. JobsInv
  BY <1>2, Blanks DEF JobsInv, JobInv, Evident, Succeeded
<1>4. CancelInv
  BY <1>2, Blanks DEF CancelInv, Open, Init
<1>5. ReceiptsInv
  BY <1>2, Blanks DEF ReceiptsInv, Init, Rested, Working, Cached
<1>6. JournalInv
  BY <1>2, Blanks DEF JournalInv, Init, Rested
<1> QED
  BY <1>1, <1>3, <1>4, <1>5, <1>6 DEF IInv

LEMMA Inductive == IInv /\ [Next]_vars => IInv' /\ JobsStep
<1> SUFFICES ASSUME IInv, [Next]_vars PROVE IInv' /\ JobsStep
  OBVIOUS
<1>1. JobsStep
  BY JobSteps DEF IInv
<1>2. JobsInv' /\ CancelInv'
  BY <1>1, JobsKept, CancelKept DEF IInv
<1>3. TypeOK' /\ ReceiptsInv' /\ JournalInv'
  <2>1. CASE \/ \E j \in Jobs : \/ QueueValidation(j)
                                \/ \E b \in Jobs : QueueCheckpoint(j, b) \/ QueueVerification(j, b)
             \/ ReadOpenJobs \/ CommitCancel
             \/ \E m \in net : Submit(m) \/ Lose(m)
    <3>1. UNCHANGED <<setting, disk, agent, run>> /\ net' \subseteq net
      BY <2>1 DEF QueueValidation, QueueCheckpoint, QueueVerification, Queue, ReadOpenJobs,
         CommitCancel, Submit, Lose
    <3> QED
      BY <1>1, <2>1, <3>1, Requesting
  <2>2. CASE Poll \/ PollUnanswered
    BY <1>1, <2>2, Polling
  <2>3. CASE \/ \E e \in Entries, s \in Contents \union {Absent, Unsafe} : Drift(e, s)
             \/ Rotate \/ WindowEnds \/ Crash
             \/ \E j \in Jobs, e \in Entries : LoseBlob(j, e)
             \/ UNCHANGED vars
    BY <1>1, <2>3, Changing
  <2>4. CASE (\E status \in DryRun : Validate(status)) \/ RefuseContract \/ SignCheckpoint \/ Verify
    BY <2>4, Keeping
  <2>5. CASE OpenJournal \/ (\E e \in Entries : RecordEntry(e) \/ BlockJournal(e)) \/ FinishJournal
    BY <2>5, Journalling
  <2>6. CASE \E e \in Entries : WriteBlob(e)
    BY <2>6, Copying
  <2>7. CASE Post
    BY <2>7, Posting
  <2> QED
    BY <2>1, <2>2, <2>3, <2>4, <2>5, <2>6, <2>7 DEF Next, Work
<1> QED
  BY <1>1, <1>2, <1>3 DEF IInv

LEMMA Invariance == Spec => []IInv
<1>1. IInv /\ [Next]_vars => IInv'
  BY Inductive
<1> QED
  BY <1>1, Initially, PTL DEF Spec

-----------------------------------------------------------------------------
(* Theorems *)

\* Every reachable state is well typed, what an agent writes to its disk included.
THEOREM TypeCorrect == Spec => []TypeOK
<1>1. IInv => TypeOK
  BY DEF IInv
<1> QED
  BY <1>1, Invariance, PTL

\* No job of a canceled change set is open, although a cancel reads the jobs before it commits.
THEOREM CancelEndsAll == Spec => []NoneOpenAfterCancel
<1>1. IInv => NoneOpenAfterCancel
  BY DEF IInv, CancelInv, NoneOpenAfterCancel
<1> QED
  BY <1>1, Invariance, PTL

\* Only a cancel that had read a job as open changes it once it has ended.
THEOREM OutcomesStand == Spec => EndedStaysEnded
<1>1. ASSUME IInv, [Next]_vars, NEW j \in Jobs,
             jobs[j].status \in {"ready", "blocked", "expired", "canceled"}
      PROVE  \/ jobs'[j] = jobs[j]
             \/ j \in doomed /\ jobs'[j] = [jobs[j] EXCEPT !.status = "canceled"]
  <2>1. JobStep(j)
    BY <1>1, Inductive DEF JobsStep
  <2> QED
    BY <1>1, <2>1 DEF JobStep, Queued, Served, Open, Submitted, Acceptable, Awaiting, Canceled
<1>2. IInv /\ [Next]_vars =>
        [\A j \in Jobs : jobs[j].status \in {"ready", "blocked", "expired", "canceled"} =>
            \/ jobs'[j] = jobs[j]
            \/ j \in doomed /\ jobs'[j] = [jobs[j] EXCEPT !.status = "canceled"]]_vars
  BY <1>1
<1> QED
  BY <1>2, Invariance, PTL DEF Spec, EndedStaysEnded

\* What a journal names is stored or lost; the same of a blob that is about to be named;
\* and a blob is one that the plan of a requested job asks for.
StoreInv ==
    /\ \A c \in Jobs : RecordedIsStored(c)
    /\ agent.at = "copied" =>
          \A e \in Entries : Turn(e) => blobs[agent.job][e] \in {agent.copy, Gone}
    /\ \A c \in Jobs, e \in Entries :
          blobs[c][e] \notin {NoBlob, Gone} => jobs[c].status # "none" /\ jobs[c].plan[e] # Absent

LEMMA StoreInitially == Init => StoreInv
BY DEF Init, StoreInv, RecordedIsStored, NoJournal, Pending, Rested

\* A requested job keeps its plan, so that its blobs are still asked for.
LEMMA StillAskedFor ==
    ASSUME IInv, StoreInv, [Next]_vars, NEW c \in Jobs, NEW e \in Entries,
           blobs[c][e] \notin {NoBlob, Gone}
    PROVE  jobs'[c].status # "none" /\ jobs'[c].plan[e] # Absent
<1>1. JobsStep
  BY Inductive
<1>2. jobs[c].status # "none" /\ jobs[c].plan[e] # Absent
  BY DEF StoreInv
<1> QED
  BY <1>1, <1>2, SettledJobs DEF IInv

\* The agent writes to its journal: only what it has stored is recorded.
LEMMA StoreJournalling ==
    ASSUME IInv, StoreInv, [Next]_vars,
           OpenJournal \/ (\E e \in Entries : RecordEntry(e) \/ BlockJournal(e)) \/ FinishJournal
    PROVE  StoreInv'
<1>1. /\ blobs' = blobs /\ agent'.at # "copied" /\ agent.job \in Jobs
      /\ agent.at \in {"work", "copy", "copied"}
  BY DEF OpenJournal, RecordEntry, BlockJournal, FinishJournal, Go, At, IInv, TypeOK
<1>2. \A c \in Jobs, e \in Entries :
         blobs'[c][e] \notin {NoBlob, Gone} => jobs'[c].status # "none" /\ jobs'[c].plan[e] # Absent
  BY <1>1, StillAskedFor
<1>3. \A c \in Jobs : journal[c] \in Journal /\ journal[c].results \in [Entries -> Result]
  BY Fields DEF IInv
<1>4. \A c \in Jobs : c # agent.job => journal'[c] = journal[c]
  BY DEF OpenJournal, RecordEntry, BlockJournal, FinishJournal, Record, WriteJournal, IInv, TypeOK
<1>5. ASSUME NEW e \in Entries, journal'[agent.job].results[e].status = "ready"
      PROVE  blobs[agent.job][e] \in {journal'[agent.job].results[e].blob, Gone}
  <2> DEFINE job == agent.job
  <2>1. \A d \in Entries : Local.results[d].status = "ready" =>
            blobs[job][d] \in {Local.results[d].blob, Gone}
    BY <1>1 DEF StoreInv, RecordedIsStored, Local
  <2>2. CASE OpenJournal
    <3>1. \/ journal' = journal
          \/ journal'[job].results = NoJournal.results
      BY <1>1, <1>3, <2>2 DEF OpenJournal, WriteJournal, NoJournal, IInv, TypeOK
    <3> QED
      BY <1>5, <2>1, <3>1, Blanks DEF Local
  <2>3. ASSUME NEW d \in Entries, RecordEntry(d) PROVE blobs[job][e] \in {journal'[job].results[e].blob, Gone}
    <3>1. PICK blob \in {agent.copy, NoBlob} :
             Record(d, blob) /\ blobs[job][d] \in {blob, Gone}
      <4>1. CASE At("copied", "checkpoint")
        BY <2>3, <4>1 DEF RecordEntry, StoreInv, At
      <4>2. CASE At("copy", "checkpoint")
        <5>1. Current.plan[d] = Absent /\ Record(d, NoBlob)
          BY <2>3, <4>2 DEF RecordEntry, At
        <5>2. blobs[job][d] \in {NoBlob, Gone}
          BY <1>1, <5>1 DEF StoreInv, Current
        <5> QED
          BY <5>1, <5>2
      <4> QED
        BY <2>3, <4>1, <4>2 DEF RecordEntry
    <3>2. journal'[job].results = [Local.results EXCEPT ![d] = [status |-> "ready", blob |-> blob]]
      BY <1>1, <1>3, <3>1 DEF Record, WriteJournal, Local, Journal, IInv, TypeOK
    <3>3. Local.results \in [Entries -> Result]
      BY <1>1, <1>3 DEF Local
    <3>4. CASE e = d
      BY <3>1, <3>2, <3>3, <3>4
    <3>5. CASE e # d
      BY <1>5, <2>1, <3>2, <3>3, <3>5
    <3> QED
      BY <3>4, <3>5
  <2>4. ASSUME NEW d \in Entries, BlockJournal(d) PROVE blobs[job][e] \in {journal'[job].results[e].blob, Gone}
    <3>1. journal'[job].results = [x \in Entries |-> IF x \in Incomplete THEN Refused ELSE Local.results[x]]
      BY <1>1, <2>4 DEF BlockJournal, WriteJournal, Local, IInv, TypeOK
    <3>2. Refused.status # "ready"
      BY DEF Refused
    <3> QED
      BY <1>5, <2>1, <3>1, <3>2
  <2>5. CASE FinishJournal
    <3>1. journal'[job].results = Local.results
      BY <1>1, <1>3, <2>5 DEF FinishJournal, WriteJournal, Local, Journal, IInv, TypeOK
    <3> QED
      BY <1>5, <2>1, <3>1
  <2> QED
    BY <2>2, <2>3, <2>4, <2>5
<1>6. \A c \in Jobs : RecordedIsStored(c)'
  <2> SUFFICES ASSUME NEW c \in Jobs, NEW e \in Entries, journal'[c].results[e].status = "ready"
               PROVE  blobs'[c][e] \in {journal'[c].results[e].blob, Gone}
    BY DEF RecordedIsStored
  <2>1. CASE c = agent.job
    BY <1>1, <1>5, <2>1
  <2>2. CASE c # agent.job
    BY <1>1, <1>4, <2>2 DEF StoreInv, RecordedIsStored
  <2> QED
    BY <2>1, <2>2
<1> QED
  BY <1>1, <1>2, <1>6 DEF StoreInv

\* The agent writes a blob: of an entry that it has not recorded.
LEMMA StoreWriting ==
    ASSUME IInv, StoreInv, [Next]_vars, NEW e \in Entries, WriteBlob(e)
    PROVE  StoreInv'
<1> DEFINE job == agent.job
           blob == [content |-> source[e], run |-> run]
<1>1. /\ UNCHANGED <<jobs, journal>> /\ blobs' = [blobs EXCEPT ![job][e] = blob]
      /\ agent'.job = job /\ agent'.at = "copied" /\ agent'.copy = blob
      /\ job \in Jobs /\ Turn(e) /\ jobs[job].plan[e] # Absent /\ jobs[job].status # "none"
  BY DEF WriteBlob, At, Current, platform, IInv, TypeOK, ReceiptsInv
<1>2. \A c \in Jobs, d \in Entries : blobs'[c][d] = IF c = job /\ d = e THEN blob ELSE blobs[c][d]
  BY <1>1 DEF IInv, TypeOK
<1>3. \A c \in Jobs : RecordedIsStored(c)'
  <2>1. journal[job].results[e].status # "ready"
    BY <1>1 DEF Turn, Incomplete, Local
  <2> QED
    BY <1>1, <1>2, <2>1 DEF StoreInv, RecordedIsStored
<1>4. \A d \in Entries : Turn(d)' => blobs'[job][d] = blob
  <2> SUFFICES ASSUME NEW d \in Entries, Turn(d)' PROVE d = e
    BY <1>1, <1>2
  <2>1. Turn(d)
    BY <1>1 DEF Turn, Incomplete, Local
  <2> QED
    BY <1>1, <2>1, Constants DEF Turn
<1>5. \A c \in Jobs, d \in Entries :
         blobs'[c][d] \notin {NoBlob, Gone} => jobs'[c].status # "none" /\ jobs'[c].plan[d] # Absent
  BY <1>1, <1>2 DEF StoreInv
<1> QED
  BY <1>1, <1>3, <1>4, <1>5 DEF StoreInv

\* A blob is lost: the journal still names it.
LEMMA StoreLosing ==
    ASSUME IInv, StoreInv, [Next]_vars, NEW j \in Jobs, NEW e \in Entries, LoseBlob(j, e)
    PROVE  StoreInv'
<1>1. UNCHANGED <<jobs, journal, agent>>
  BY DEF LoseBlob, platform
<1>2. \A c \in Jobs, d \in Entries : blobs'[c][d] \in {blobs[c][d], Gone}
  BY DEF LoseBlob, IInv, TypeOK
<1>3. \A c \in Jobs : RecordedIsStored(c)'
  BY <1>1, <1>2 DEF StoreInv, RecordedIsStored
<1>4. agent'.at = "copied" => \A d \in Entries : Turn(d)' => blobs'[agent'.job][d] \in {agent'.copy, Gone}
  <2> SUFFICES ASSUME agent.at = "copied", NEW d \in Entries, Turn(d)'
               PROVE  blobs'[agent.job][d] \in {agent.copy, Gone}
    BY <1>1
  <2>1. Turn(d)
    BY <1>1 DEF Turn, Incomplete, Local
  <2>2. agent.job \in Jobs
    BY DEF IInv, TypeOK
  <2> QED
    BY <1>2, <2>1, <2>2 DEF StoreInv
<1> QED
  BY <1>1, <1>2, <1>3, <1>4 DEF StoreInv

\* Every other step leaves journals and blobs alone.
LEMMA StoreResting ==
    ASSUME IInv, StoreInv, [Next]_vars, UNCHANGED <<journal, blobs>>,
           agent' = agent \/ agent'.at # "copied"
    PROVE  StoreInv'
<1>1. \A c \in Jobs : RecordedIsStored(c)'
  BY DEF StoreInv, RecordedIsStored
<1>2. agent'.at = "copied" => \A d \in Entries : Turn(d)' => blobs'[agent'.job][d] \in {agent'.copy, Gone}
  BY DEF StoreInv, Turn, Incomplete, Local
<1>3. \A c \in Jobs, d \in Entries :
         blobs'[c][d] \notin {NoBlob, Gone} => jobs'[c].status # "none" /\ jobs'[c].plan[d] # Absent
  BY StillAskedFor
<1> QED
  BY <1>1, <1>2, <1>3 DEF StoreInv

LEMMA StoreInductive == IInv /\ StoreInv /\ [Next]_vars => StoreInv'
<1> SUFFICES ASSUME IInv, StoreInv, [Next]_vars PROVE StoreInv'
  OBVIOUS
<1>1. CASE OpenJournal \/ (\E e \in Entries : RecordEntry(e) \/ BlockJournal(e)) \/ FinishJournal
  BY <1>1, StoreJournalling
<1>2. CASE \E e \in Entries : WriteBlob(e)
  BY <1>2, StoreWriting
<1>3. CASE \E j \in Jobs, e \in Entries : LoseBlob(j, e)
  BY <1>3, StoreLosing
<1>4. CASE Poll \/ PollUnanswered
  <2>1. UNCHANGED <<journal, blobs>>
    BY <1>4 DEF Poll, PollUnanswered, disk
  <2>2. agent' = agent \/ agent'.at # "copied"
    BY <1>4, IdleAgent DEF Poll, PollUnanswered, IInv, TypeOK
  <2> QED
    BY <2>1, <2>2, StoreResting
<1>5. CASE \/ \E status \in DryRun : Validate(status)
           \/ RefuseContract \/ SignCheckpoint \/ Verify \/ Post
  <2>1. UNCHANGED <<journal, blobs>>
    BY <1>5 DEF Validate, RefuseContract, SignCheckpoint, Verify, Post, disk
  <2>2. agent'.at # "copied"
    <3>1. CASE Post
      BY <3>1, IdleAgent DEF Post, IInv, TypeOK
    <3>2. CASE agent' = [agent EXCEPT !.at = "post"]
      BY <3>2 DEF IInv, TypeOK
    <3> QED
      BY <1>5, <3>1, <3>2 DEF Validate, RefuseContract, SignCheckpoint, Verify, Keep
  <2> QED
    BY <2>1, <2>2, StoreResting
<1>6. CASE \/ \E j \in Jobs : \/ QueueValidation(j)
                            \/ \E b \in Jobs : QueueCheckpoint(j, b) \/ QueueVerification(j, b)
           \/ ReadOpenJobs \/ CommitCancel
           \/ \E m \in net : Submit(m) \/ Lose(m)
           \/ UNCHANGED vars
  <2>1. UNCHANGED <<journal, blobs, agent>>
    BY <1>6 DEF QueueValidation, QueueCheckpoint, QueueVerification, Queue, ReadOpenJobs,
       CommitCancel, Submit, Lose, vars, disk
  <2> QED
    BY <2>1, StoreResting
<1>7. CASE \/ \E e \in Entries, s \in Contents \union {Absent, Unsafe} : Drift(e, s)
           \/ Rotate \/ WindowEnds \/ Crash
  <2>1. UNCHANGED <<journal, blobs>> /\ agent' \in {agent, Rested}
    BY <1>7 DEF Drift, Rotate, WindowEnds, Crash, disk
  <2> QED
    BY <2>1, StoreResting DEF Rested
<1> QED
  BY <1>1, <1>2, <1>3, <1>4, <1>5, <1>6, <1>7 DEF Next, Work

LEMMA StoreInvariance == Spec => []StoreInv
<1> QED
  BY StoreInitially, StoreInductive, Invariance, PTL DEF Spec

\* An accepted checkpoint is complete on the agent's disk, journal and blobs, whatever
\* crashed on the way, unless a blob was lost since.
THEOREM CheckpointsAreThere == Spec => []AcceptedIsOnDisk
<1>1. ASSUME IInv, NEW c \in Jobs, Succeeded(c, "checkpoint")
      PROVE  /\ JournalMatches(c)
             /\ Succeeded(jobs[c].basis, "validation")
             /\ \A e \in Entries :
                  journal[c].results[e].blob.content = jobs[jobs[c].basis].receipt.plan[e]
  <2>1. /\ jobs[c].receipt.whole /\ AllReady(jobs[c].receipt) /\ jobs[c].receipt.status = "ready"
        /\ jobs[c].kind = "checkpoint"
    <3>1. Evident(c)
      BY <1>1 DEF IInv, JobsInv, JobInv
    <3> QED
      BY <1>1, <3>1 DEF Evident, Succeeded
  <2>2. /\ jobs[c].receipt = cache[c]
        /\ cache[c].whole =>
            /\ cache[c].results = journal[c].results
            /\ cache[c].status = "ready" => journal[c].state = "checkpointed"
    <3>1. jobs[c].receipt # NoReceipt
      BY <2>1, Blanks
    <3> QED
      BY <1>1, <3>1 DEF IInv, ReceiptsInv, JournalInv
  <2>3. JournalMatches(c)
    BY <2>1, <2>2 DEF JournalMatches, Accepted
  <2>4. Succeeded(jobs[c].basis, "validation") /\ jobs[c].plan = jobs[jobs[c].basis].receipt.plan
    BY <1>1, <2>1 DEF IInv, JobsInv, JobInv
  <2>5. \A e \in Entries : journal[c].results[e].blob.content = jobs[c].plan[e]
    <3>1. \A e \in Entries : journal[c].results[e].status = "ready" =>
              journal[c].results[e].blob.content = jobs[c].plan[e]
      BY <1>1 DEF IInv, JournalInv
    <3> QED
      BY <2>1, <2>3, <3>1 DEF JournalMatches, Accepted, AllReady
  <2> QED
    BY <2>3, <2>4, <2>5
<1>2. IInv /\ StoreInv => AcceptedIsOnDisk
  BY <1>1 DEF AcceptedIsOnDisk, StoreInv
<1> QED
  BY <1>2, Invariance, StoreInvariance, PTL

\* A verification that is signed as ready found every blob, with what was validated.
THEOREM VerificationsAreTrue == Spec => VerifiesWhatIsThere
<1>1. ASSUME IInv, [Next]_vars, NEW j \in Jobs,
             jobs[j].kind = "verification", ~ Cached(j), cache'[j].status = "ready"
      PROVE  \A e \in Entries : blobs[jobs[j].basis][e].content = jobs[j].plan[e]
  <2>1. cache'[j] # cache[j]
    BY <1>1, Blanks DEF Cached
  <2>2. /\ Verify \/ (\E status \in DryRun : Validate(status)) \/ RefuseContract \/ SignCheckpoint
        /\ \E receipt : Keep(receipt)
    BY <1>1, <2>1 DEF Next, Work, vars, disk, QueueValidation, QueueCheckpoint, QueueVerification, Queue,
       ReadOpenJobs, CommitCancel, Poll, PollUnanswered, Submit, Lose, OpenJournal, WriteBlob,
       RecordEntry, BlockJournal, FinishJournal, Post, Drift, Rotate, WindowEnds, LoseBlob, Crash,
       Validate, RefuseContract, SignCheckpoint, Verify
  <2>3. j = agent.job
    BY <2>1, <2>2 DEF Keep, IInv, TypeOK
  <2>4. Verify
    BY <1>1, <2>2, <2>3 DEF Validate, RefuseContract, SignCheckpoint, At, IInv, TypeOK
  <2>5. PICK c \in Jobs : c = jobs[j].basis
    BY <1>1 DEF IInv, JobsInv, JobInv
  <2>6. \A e \in Entries : JournalMatches(c) /\ BlobIntact(c, e)
    <3>1. PICK good, results :
            /\ good \in SUBSET Entries
            /\ \A e \in good : JournalMatches(c) /\ BlobIntact(c, e)
            /\ Keep([Signed(IF good = Entries THEN "ready" ELSE "blocked") EXCEPT !.results = results])
      BY <2>3, <2>4, <2>5 DEF Verify, Current
    <3>2. PICK status \in {"ready", "blocked"} : status = IF good = Entries THEN "ready" ELSE "blocked"
      OBVIOUS
    <3>3. Signed(status) \in Receipt /\ Signed(status).status = status
      BY <1>1, Signing DEF IInv
    <3>4. cache'[j] = [Signed(status) EXCEPT !.results = results]
      BY <1>1, <2>3, <3>1, <3>2 DEF Keep, IInv, TypeOK
    <3>5. cache'[j].status = status
      BY <3>3, <3>4 DEF Receipt
    <3> QED
      BY <1>1, <3>1, <3>2, <3>5
  <2>7. /\ Succeeded(c, "checkpoint") /\ jobs[j].plan = jobs[c].plan /\ AllReady(Accepted(c))
    BY <1>1, <2>5 DEF IInv, JobsInv, JobInv, Evident, Accepted
  <2>8. \A e \in Entries : journal[c].results[e].blob.content = jobs[c].plan[e]
    <3>1. \A e \in Entries : journal[c].results[e].status = "ready" =>
              journal[c].results[e].blob.content = jobs[c].plan[e]
      BY <1>1 DEF IInv, JournalInv
    <3> QED
      BY <2>6, <2>7, <3>1 DEF JournalMatches, AllReady
  <2> QED
    BY <2>5, <2>6, <2>7, <2>8 DEF BlobIntact
<1>2. IInv /\ [Next]_vars =>
        [\A j \in Jobs : jobs[j].kind = "verification" /\ ~ Cached(j) /\ cache'[j].status = "ready" =>
            \A e \in Entries : blobs[jobs[j].basis][e].content = jobs[j].plan[e]]_vars
  BY <1>1
<1> QED
  BY <1>2, Invariance, PTL DEF Spec, VerifiesWhatIsThere

LEMMA StoredFinite ==
    ASSUME NEW b
    PROVE  IsFiniteSet(Stored(b)) /\ Cardinality(Stored(b)) \in Nat
<1>1. IsFiniteSet(Jobs) /\ IsFiniteSet(Entries)
  BY FS_Interval, RecoveryConstants DEF Jobs, Entries
<1>2. IsFiniteSet(Jobs \X Entries)
  BY <1>1, FS_Product
<1>3. Stored(b) \in SUBSET (Jobs \X Entries)
  BY DEF Stored
<1>4. IsFiniteSet(Stored(b))
  BY <1>2, <1>3, FS_Subset
<1> QED
  BY <1>4, FS_CardinalityType

\* The checkpoint store stays within its cap: a blob is only written where there is room
\* beside all that is stored, the blobs of crashed runs included.
THEOREM StoreStaysBounded == Spec => []StoreBounded
<1>1. Init => StoreBounded
  <2> SUFFICES ASSUME Init PROVE StoreBounded
    OBVIOUS
  <2>1. Stored(blobs) = {}
    BY DEF Init, Stored
  <2> QED
    BY <2>1, FS_EmptySet, RecoveryConstants DEF StoreBounded
<1>2. ASSUME IInv, StoreBounded, [Next]_vars PROVE StoreBounded'
  <2>1. /\ Cardinality(Stored(blobs)) \in Nat /\ Cardinality(Stored(blobs')) \in Nat
        /\ Cardinality(Stored(blobs)) <= Limit /\ Limit \in Nat
    BY <1>2, StoredFinite, RecoveryConstants DEF StoreBounded
  <2>2. CASE Stored(blobs') \subseteq Stored(blobs)
    <3>1. Cardinality(Stored(blobs')) <= Cardinality(Stored(blobs))
      BY <2>2, StoredFinite, FS_Subset
    <3> QED
      BY <2>1, <3>1 DEF StoreBounded
  <2>3. ASSUME NEW e \in Entries, WriteBlob(e) PROVE StoreBounded'
    <3>1. Room
      BY <2>3 DEF WriteBlob, Copyable
    <3>2. Stored(blobs') \subseteq Stored(blobs) \union {<<agent.job, e>>}
      <4>1. PICK blob : blobs' = [blobs EXCEPT ![agent.job][e] = blob]
        BY <2>3 DEF WriteBlob
      <4>2. \A p \in Jobs \X Entries : p # <<agent.job, e>> => blobs'[p[1]][p[2]] = blobs[p[1]][p[2]]
        BY <1>2, <4>1 DEF IInv, TypeOK
      <4>3. ASSUME NEW p \in Jobs \X Entries, p # <<agent.job, e>>, blobs'[p[1]][p[2]] # NoBlob
            PROVE  blobs'[p[1]][p[2]] = Gone \/ p \in Stored(blobs)
        BY <4>2, <4>3 DEF Stored
      <4>4. ASSUME NEW p \in Stored(blobs') PROVE p \in Stored(blobs) \union {<<agent.job, e>>}
        <5>1. p \in Jobs \X Entries /\ blobs'[p[1]][p[2]] \notin {NoBlob, Gone}
          BY <4>4 DEF Stored
        <5> QED
          BY <4>3, <5>1
      <4> QED
        BY <4>4, Zenon
    <3>3. PICK x : x = <<agent.job, e>>
      OBVIOUS
    <3>4. /\ IsFiniteSet(Stored(blobs) \union {x})
          /\ Cardinality(Stored(blobs) \union {x}) <= Cardinality(Stored(blobs)) + 1
      <4>1. IsFiniteSet(Stored(blobs))
        BY StoredFinite
      <4>2. /\ IsFiniteSet(Stored(blobs) \union {x})
            /\ Cardinality(Stored(blobs) \union {x}) =
                 IF x \in Stored(blobs) THEN Cardinality(Stored(blobs))
                 ELSE Cardinality(Stored(blobs)) + 1
        BY <4>1, FS_AddElement
      <4> QED
        BY <2>1, <4>2
    <3>5. Cardinality(Stored(blobs')) <= Cardinality(Stored(blobs) \union {x})
      BY <3>2, <3>3, <3>4, FS_Subset
    <3>6. Cardinality(Stored(blobs) \union {x}) \in Nat
      BY <3>4, FS_CardinalityType
    <3> QED
      BY <2>1, <3>1, <3>4, <3>5, <3>6 DEF Room, StoreBounded
  <2>4. ASSUME NEW j \in Jobs, NEW e \in Entries, LoseBlob(j, e)
        PROVE  Stored(blobs') \subseteq Stored(blobs)
    <3>1. \A p \in Jobs \X Entries : \/ blobs'[p[1]][p[2]] = blobs[p[1]][p[2]]
                                    \/ blobs'[p[1]][p[2]] = Gone
      BY <1>2, <2>4 DEF LoseBlob, IInv, TypeOK
    <3> QED
      BY <3>1 DEF Stored
  <2>5. CASE UNCHANGED blobs
    BY <2>2, <2>5
  <2> QED
    BY <1>2, <2>2, <2>3, <2>4, <2>5 DEF Next, Work, vars, disk, QueueValidation, QueueCheckpoint,
       QueueVerification, Queue, ReadOpenJobs, CommitCancel, Poll, PollUnanswered, Submit, Lose,
       Validate, RefuseContract, OpenJournal, RecordEntry, BlockJournal, FinishJournal,
       SignCheckpoint, Verify, Post, Drift, Rotate, WindowEnds, Crash
<1> QED
  BY <1>1, <1>2, Invariance, PTL DEF Spec

-----------------------------------------------------------------------------
(* The refinement of RecoveryLedger *)

Outcome(j) == IF jobs[j].receipt # NoReceipt THEN jobs[j].receipt.status
              ELSE IF jobs[j].status = "none" THEN "none" ELSE "open"
Saved(j)   == {e \in Entries : journal[j].results[e].status = "ready"}

\* A step that changes nothing the ledger shows.
LEMMA LedgerStutters ==
    ASSUME \A j \in Jobs : /\ jobs'[j].kind = jobs[j].kind /\ jobs'[j].basis = jobs[j].basis
                           /\ Outcome(j)' = Outcome(j) /\ Saved(j)' = Saved(j)
    PROVE  UNCHANGED Ledger!ledger
BY DEF Ledger!ledger, Outcome, Saved

LEMMA LedgerInitially == Init => Ledger!Init
<1> SUFFICES ASSUME Init PROVE Ledger!Init
  OBVIOUS
<1>1. \A j \in Jobs : jobs[j] = NewJob /\ journal[j] = NoJournal
  BY DEF Init
<1>2. NewJob.kind = "validation" /\ NewJob.basis = NoJob
  BY DEF NewJob
<1> QED
  BY <1>1, <1>2, Blanks DEF Ledger!Init, Ledger!NoJob, NoJob

\* A queued job is a request of the ledger.
LEMMA QueueRefines ==
    ASSUME IInv, NEW j \in Jobs, NEW new \in Job, jobs' = [jobs EXCEPT ![j] = new],
           jobs[j].status = "none", new.status = "queued", new.receipt = NoReceipt,
           UNCHANGED journal,
           \/ new.kind = "validation" /\ new.basis = NoJob
           \/ /\ new.basis \in Jobs /\ jobs[new.basis].status = "ready"
              /\ \/ new.kind = "checkpoint" /\ jobs[new.basis].kind = "validation"
                 \/ new.kind = "verification" /\ jobs[new.basis].kind = "checkpoint"
    PROVE  Ledger!Next
<1>1. jobs'[j] = new /\ \A i \in Jobs \ {j} : jobs'[i] = jobs[i]
  BY DEF IInv, TypeOK
<1>2. Outcome(j) = "none" /\ Outcome(j)' = "open"
  BY <1>1, Blanks DEF IInv, JobsInv, JobInv, Outcome
<1>3. \A i \in Jobs \ {j} : Outcome(i)' = Outcome(i)
  BY <1>1 DEF Outcome
<1>4. \A b \in Jobs : jobs[b].status = "ready" => Outcome(b) = "ready"
  BY Blanks DEF IInv, JobsInv, JobInv, Outcome
<1>5. new.kind \in Kinds /\ new.basis \in Jobs \union {NoJob}
  BY DEF Job
<1>6. IF new.kind = "validation" THEN new.basis = Ledger!NoJob
      ELSE /\ new.basis \in Jobs /\ Outcome(new.basis) = "ready"
           /\ jobs[new.basis].kind = Ledger!RestsOn[new.kind]
  BY <1>4 DEF Ledger!RestsOn, Ledger!NoJob, NoJob
<1>7. /\ [i \in Jobs |-> Outcome(i)'] = [[i \in Jobs |-> Outcome(i)] EXCEPT ![j] = "open"]
      /\ [i \in Jobs |-> jobs'[i].kind] = [[i \in Jobs |-> jobs[i].kind] EXCEPT ![j] = new.kind]
      /\ [i \in Jobs |-> jobs'[i].basis] = [[i \in Jobs |-> jobs[i].basis] EXCEPT ![j] = new.basis]
  <2>1. /\ \A i \in Jobs : jobs'[i].kind = IF i = j THEN new.kind ELSE jobs[i].kind
        /\ \A i \in Jobs : jobs'[i].basis = IF i = j THEN new.basis ELSE jobs[i].basis
        /\ \A i \in Jobs : Outcome(i)' = IF i = j THEN "open" ELSE Outcome(i)
    BY <1>1, <1>2, <1>3
  <2>2. [i \in Jobs |-> jobs'[i].kind] = [[i \in Jobs |-> jobs[i].kind] EXCEPT ![j] = new.kind]
    BY <2>1
  <2>3. [i \in Jobs |-> jobs'[i].basis] = [[i \in Jobs |-> jobs[i].basis] EXCEPT ![j] = new.basis]
    BY <2>1
  <2>4. [i \in Jobs |-> Outcome(i)'] = [[i \in Jobs |-> Outcome(i)] EXCEPT ![j] = "open"]
    BY <2>1, Zenon
  <2> QED
    BY <2>2, <2>3, <2>4
<1>8. Ledger!Request(j, new.kind, new.basis)
  BY <1>2, <1>6, <1>7 DEF Ledger!Request, Outcome
<1> QED
  BY <1>5, <1>8 DEF Ledger!Next, Ledger!Kinds, Ledger!NoJob, Kinds, NoJob

LEMMA Refines == IInv /\ [Next]_vars => [Ledger!Next]_(Ledger!ledger)
<1> SUFFICES ASSUME IInv, [Next]_vars PROVE Ledger!Next \/ UNCHANGED Ledger!ledger
  OBVIOUS
<1>1. ASSUME NEW j \in Jobs, \/ QueueValidation(j)
                             \/ \E b \in Jobs : QueueCheckpoint(j, b) \/ QueueVerification(j, b)
      PROVE  Ledger!Next
  <2>1. jobs[j].status = "none" /\ UNCHANGED journal
    BY <1>1 DEF QueueValidation, QueueCheckpoint, QueueVerification, Queue, NextJob, disk
  <2>2. CASE QueueValidation(j)
    <3>1. EndorsedJob \in Job /\ EndorsedJob.status = "queued" /\ EndorsedJob.receipt = NoReceipt
          /\ EndorsedJob.kind = "validation" /\ EndorsedJob.basis = NoJob
      BY Blanks DEF EndorsedJob, Job, NewJob, Status, IInv, TypeOK
    <3> QED
      BY <2>1, <2>2, <3>1, QueueRefines DEF QueueValidation
  <2>3. ASSUME NEW b \in Jobs, QueueCheckpoint(j, b) PROVE Ledger!Next
    <3>1. PICK new : /\ new = [kind |-> "checkpoint", status |-> "queued", basis |-> b,
                                key |-> jobs[b].key, plan |-> jobs[b].receipt.plan, receipt |-> NoReceipt]
                     /\ jobs' = [jobs EXCEPT ![j] = new]
      BY <2>3 DEF QueueCheckpoint
    <3>2. jobs[b].receipt.plan \in Plan \union {NoPlan} /\ jobs[b].key \in 1..MaxKeys
      BY Fields DEF Job, Receipt, IInv
    <3>3. new \in Job
      BY <3>1, <3>2, Blanks DEF Job, Kinds, Status
    <3> QED
      BY <2>1, <2>3, <3>1, <3>3, QueueRefines DEF QueueCheckpoint, Queue, Successful
  <2>4. ASSUME NEW b \in Jobs, QueueVerification(j, b) PROVE Ledger!Next
    <3>1. PICK new : /\ new = [jobs[b] EXCEPT !.kind = "verification", !.status = "queued",
                                              !.basis = b, !.receipt = NoReceipt]
                     /\ jobs' = [jobs EXCEPT ![j] = new]
      BY <2>4 DEF QueueVerification
    <3>2. jobs[b] \in Job
      BY Fields DEF IInv
    <3>3. /\ new \in Job /\ new.status = "queued" /\ new.receipt = NoReceipt /\ new.basis = b
          /\ new.kind = "verification"
      BY <3>1, <3>2, Blanks DEF Job, Kinds, Status
    <3>4. jobs[b].status = "ready" /\ jobs[b].kind = "checkpoint"
      BY <2>4 DEF QueueVerification, Queue, Successful
    <3> QED
      BY <2>1, <2>4, <3>1, <3>3, <3>4, QueueRefines
  <2> QED
    BY <1>1, <2>2, <2>3, <2>4
<1>2. ASSUME Poll \/ PollUnanswered \/ CommitCancel
      PROVE  UNCHANGED Ledger!ledger
  <2>1. ASSUME NEW j \in Jobs
        PROVE  /\ jobs'[j].kind = jobs[j].kind /\ jobs'[j].basis = jobs[j].basis
               /\ Outcome(j)' = Outcome(j) /\ Saved(j)' = Saved(j)
    <3>1. jobs[j] \in Job /\ journal' = journal /\ (j \in doomed => jobs[j].status # "none")
      BY <1>2, Fields DEF Poll, PollUnanswered, CommitCancel, disk, IInv, CancelInv
    <3>2. \/ jobs'[j] = jobs[j]
          \/ /\ jobs[j].status # "none"
             /\ \E s \in {"delivered", "expired", "canceled"} : jobs'[j] = [jobs[j] EXCEPT !.status = s]
      BY <1>2, <3>1 DEF Poll, PollUnanswered, Serve, Offered, Passed, OpenJobs, Open, CommitCancel
    <3> QED
      BY <3>1, <3>2 DEF Outcome, Saved, Job
  <2> QED
    BY <2>1, LedgerStutters
<1>3. ASSUME NEW m \in net, Submit(m)
      PROVE  Ledger!Next \/ UNCHANGED Ledger!ledger
  <2>1. UNCHANGED journal
    BY <1>3 DEF Submit, disk
  <2>2. CASE ~ Acceptable(m)
    <3>1. UNCHANGED jobs
      BY <1>3, <2>2 DEF Submit
    <3> QED
      BY <2>1, <3>1, LedgerStutters DEF Outcome, Saved
  <2>3. CASE Acceptable(m)
    <3>1. PICK j \in Jobs : j = m.job
      BY Fields DEF IInv
    <3>2. jobs[j] \in Job /\ m.receipt \in Receipt /\ m.receipt # NoReceipt /\ m.receipt = cache[j]
          /\ m.receipt.status \in {"ready", "blocked"}
      BY <3>1, Fields DEF IInv, ReceiptsInv, Cached, Receipt
    <3>3. /\ jobs'[j].status = m.receipt.status /\ jobs'[j].receipt = m.receipt
          /\ jobs'[j].kind = jobs[j].kind /\ jobs'[j].basis = jobs[j].basis
          /\ \A i \in Jobs \ {j} : jobs'[i] = jobs[i]
      BY <1>3, <2>3, <3>1, <3>2 DEF Submit, IInv, TypeOK, Job
    <3>4. jobs[j].status = "delivered" /\ jobs[j].receipt = NoReceipt
      BY <2>3, <3>1 DEF Acceptable, Awaiting, IInv, JobsInv, JobInv
    <3>5. /\ Outcome(j) = "open" /\ Outcome(j)' = m.receipt.status
          /\ \A i \in Jobs \ {j} : Outcome(i)' = Outcome(i)
      BY <3>2, <3>3, <3>4 DEF Outcome
    <3>6. m.receipt.status = "ready" /\ jobs[j].kind = "checkpoint" => Saved(j) = Entries
      <4> SUFFICES ASSUME m.receipt.status = "ready", jobs[j].kind = "checkpoint"
                   PROVE  Saved(j) = Entries
        OBVIOUS
      <4>1. m.receipt.whole /\ AllReady(m.receipt)
        BY <2>3, <3>1 DEF Acceptable, Evidence, CheckpointEvidence
      <4>2. m.receipt.results = journal[j].results
        BY <3>2, <4>1 DEF IInv, JournalInv
      <4> QED
        BY <4>1, <4>2 DEF AllReady, Saved
    <3>7. Ledger!Accept(j, m.receipt.status)
      BY <2>1, <3>3, <3>5, <3>6 DEF Ledger!Accept, Outcome, Saved
    <3> QED
      BY <3>2, <3>7 DEF Ledger!Next
  <2> QED
    BY <2>2, <2>3
\* The agent's writes of a journal, of which the record of an entry is a save.
<1>4. ASSUME NEW new \in Journal, NEW e \in Entries, UNCHANGED jobs, agent.at \in Working,
             journal' = [journal EXCEPT ![agent.job] = new], agent.turn = "checkpoint",
             \A d \in Entries : new.results[d].status = "ready" <=> Local.results[d].status = "ready" \/ d = e
      PROVE  Ledger!Next
  <2>1. PICK j \in Jobs : j = agent.job
    BY <1>4 DEF IInv, TypeOK, Working
  <2>2. /\ Saved(j)' = Saved(j) \union {e} /\ \A i \in Jobs \ {j} : Saved(i)' = Saved(i)
        /\ \A i \in Jobs : Outcome(i)' = Outcome(i)
    BY <1>4, <2>1 DEF IInv, TypeOK, Saved, Local, Outcome
  <2>3. jobs[j].kind = "checkpoint" /\ Outcome(j) = "open"
    BY <1>4, <2>1 DEF IInv, TypeOK, ReceiptsInv, Cached, Outcome, Working
  <2>4. Ledger!Save(j, e)
    BY <1>4, <2>2, <2>3, ZenonT(60) DEF Ledger!Save, Outcome, Saved
  <2> QED
    BY <2>4 DEF Ledger!Next
<1>5. ASSUME NEW new \in Journal, UNCHANGED jobs, agent.at \in Working,
             journal' = [journal EXCEPT ![agent.job] = new],
             \A e \in Entries : new.results[e].status = "ready" <=> Local.results[e].status = "ready"
      PROVE  UNCHANGED Ledger!ledger
  <2>1. PICK j \in Jobs : j = agent.job
    BY <1>5 DEF IInv, TypeOK, Working
  <2>2. \A i \in Jobs : Saved(i)' = Saved(i) /\ Outcome(i)' = Outcome(i)
    BY <1>5, <2>1 DEF IInv, TypeOK, Saved, Local, Outcome
  <2> QED
    BY <1>5, <2>2, LedgerStutters
<1>6. CASE OpenJournal \/ (\E e \in Entries : RecordEntry(e) \/ BlockJournal(e)) \/ FinishJournal
  <2>1. UNCHANGED jobs /\ agent.at \in Working /\ agent.turn = "checkpoint"
    BY <1>6 DEF OpenJournal, RecordEntry, BlockJournal, FinishJournal, At, Working, platform
  <2>2. /\ agent.job \in Jobs /\ Local \in Journal /\ Local.results \in [Entries -> Result]
        /\ journal \in [Jobs -> Journal] /\ agent.copy \in Blob
        /\ (Local.state = "none" => Local = NoJournal)
    BY <2>1, Fields DEF IInv, TypeOK, Local, Working, JournalInv
  <2>3. CASE OpenJournal
    <3>1. CASE Local.state = "none"
      <4>1. PICK new : new = [NoJournal EXCEPT !.state = "checkpointing"]
        OBVIOUS
      <4>2. new \in Journal /\ new.results = Local.results
        BY <2>2, <3>1, <4>1, Blanks DEF Journal
      <4>3. journal' = [journal EXCEPT ![agent.job] = new]
        BY <2>3, <3>1, <4>1 DEF OpenJournal, WriteJournal
      <4> QED
        BY <1>5, <2>1, <4>2, <4>3
    <3>2. CASE Local.state # "none"
      <4>1. journal' = [journal EXCEPT ![agent.job] = Local]
        BY <2>2, <2>3, <3>2 DEF OpenJournal, Local
      <4> QED
        BY <1>5, <2>1, <2>2, <4>1
    <3> QED
      BY <3>1, <3>2
  <2>4. ASSUME NEW e \in Entries, RecordEntry(e) PROVE Ledger!Next \/ UNCHANGED Ledger!ledger
    <3>1. PICK blob \in Blob : Record(e, blob)
      BY <2>2, <2>4, Blanks DEF RecordEntry
    <3>2. PICK new : new = [Local EXCEPT !.results[e] = [status |-> "ready", blob |-> blob]]
      OBVIOUS
    <3>3. [status |-> "ready", blob |-> blob] \in Result
      BY DEF Result
    <3>4. /\ new \in Journal
          /\ new.results = [Local.results EXCEPT ![e] = [status |-> "ready", blob |-> blob]]
      BY <2>2, <3>2, <3>3 DEF Journal
    <3>5. \A d \in Entries : new.results[d].status = "ready" <=> Local.results[d].status = "ready" \/ d = e
      BY <2>2, <3>4
    <3>6. journal' = [journal EXCEPT ![agent.job] = new]
      BY <3>1, <3>2 DEF Record, WriteJournal
    <3> QED
      BY <1>4, <2>1, <3>4, <3>5, <3>6
  <2>5. ASSUME NEW e \in Entries, BlockJournal(e) PROVE Ledger!Next \/ UNCHANGED Ledger!ledger
    <3>1. PICK new : new = [state |-> "blocked",
                            results |-> [d \in Entries |-> IF d \in Incomplete THEN Refused
                                                           ELSE Local.results[d]]]
      OBVIOUS
    <3>2. new \in Journal
      BY <2>2, <3>1, Blanks DEF Journal
    <3>3. \A d \in Entries : new.results[d].status = "ready" <=> Local.results[d].status = "ready"
      BY <3>1 DEF Refused, Incomplete
    <3>4. journal' = [journal EXCEPT ![agent.job] = new]
      BY <2>5, <3>1 DEF BlockJournal, WriteJournal
    <3> QED
      BY <1>5, <2>1, <3>2, <3>3, <3>4
  <2>6. CASE FinishJournal
    <3>1. PICK new : new = [Local EXCEPT !.state = "checkpointed"]
      OBVIOUS
    <3>2. new \in Journal /\ new.results = Local.results
      BY <2>2, <3>1 DEF Journal
    <3>3. journal' = [journal EXCEPT ![agent.job] = new]
      BY <2>6, <3>1 DEF FinishJournal, WriteJournal
    <3> QED
      BY <1>5, <2>1, <3>2, <3>3
  <2> QED
    BY <1>6, <2>3, <2>4, <2>5, <2>6
<1>7. CASE UNCHANGED <<jobs, journal>>
  BY <1>7, LedgerStutters DEF Outcome, Saved
<1> QED
  BY <1>1, <1>2, <1>3, <1>6, <1>7 DEF Next, Work, vars, platform, disk, ReadOpenJobs, Validate,
     RefuseContract, WriteBlob, SignCheckpoint, Verify, Post, Lose, Drift, Rotate, WindowEnds,
     LoseBlob, Crash

\* The jobs, with crashes, lost receipts and a cancel under way, implement the ledger.
THEOREM ImplementsLedger == Spec => LedgerSpec
<1>1. Init => Ledger!Init
  BY LedgerInitially
<1>2. IInv /\ [Next]_vars => [Ledger!Next]_(Ledger!ledger)
  BY Refines
<1> QED
  BY <1>1, <1>2, Invariance, PTL DEF Spec, LedgerSpec, Ledger!Spec
=============================================================================
