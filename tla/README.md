# LSA: specifications, model checking and proofs

LSA manages the security audits of a fleet of Linux hosts. A platform (FastAPI on
PostgreSQL) holds policies, hosts and findings; an agent on every host polls it over
HTTP, runs an Ansible scanner, and uploads signed reports. This directory holds TLA+
modules of the protocols between the two and of the platform's own services, the TLC
configurations that check them, and proofs that TLAPS checks. Paths below are relative to
the repository's root.

| file | content |
|---|---|
| `KeyRotation.tla` | rotation of the platform's command signing key, enrollment and re-enrollment |
| `MCKeyRotation.tla`, `KeyRotation_*.cfg` | its instances for TLC |
| `KeyHandover.tla` | what a rotation promises the enrolled agents; `KeyRotation` implements it |
| `KeyRotationProofs.tla` | its inductive invariant, the refinement of `KeyHandover` and the theorems |
| `AgentCycle.tla` | the agent's cycle: policy, heartbeat, audit task queue, revocation |
| `MCAgentCycle.tla`, `AgentCycle_*.cfg` | its instances for TLC |
| `AgentCycleProofs.tla` | its inductive invariant and four theorems |
| `ChangeSets.tla`, `MCChangeSets.tla`, `ChangeSets_governance.cfg`, `ChangeSetsProofs.tla` | governance of remediation: plans, change sets, gates, four-eyes, signed authorisation |
| `Governance.tla` | the same as if every request were atomic; `ChangeSets` implements it |
| `RecoveryJobs.tla`, `MCRecoveryJobs.tla`, `RecoveryJobs_recovery.cfg`, `RecoveryJobsProofs.tla` | the jobs of an authorised change set at one agent: validation, encrypted checkpoint, recovery verification |
| `RecoveryLedger.tla` | what the jobs promise; `RecoveryJobs` implements it |
| `Evidence.tla`, `EvidenceProofs.tla` | report ingestion, the evidence vault, a host's identity and inventory |
| `EvidenceArchive.tla` | the life of a piece of evidence; `Evidence` implements it |
| `VulnerabilitySync.tla`, `VulnerabilitySyncProofs.tla` | the vulnerability synchronisation worker and its queue |
| `Access.tla` | accounts, roles, sessions, single sign-on |
| `Certificates.tla` | the TLS certificate and key files that all processes share |
| `AdministrationProofs.tla` | the proofs about `Access` and `Certificates` |
| `MCServices.tla`, `Services.cfg` | the instance of the last four services for TLC |
| `ServicesProofs.tla` | the theorems about that instance, which rest on those about each service |
| `PROJECT.json` | components, runs, mutants, the map from definitions to source lines, findings, hazards, theorems |

To check: for example `tlc -config KeyRotation_fleet.cfg MCKeyRotation.tla`, and `tlapm
KeyRotationProofs.tla`. `PROJECT.json` names module and configuration of every run.

## Inventory

**Platform** (`apps/api/lsa`). Request handlers on PostgreSQL at READ COMMITTED; the state
is in the tables.

| component | state | operations | what is hard | what makes it correct |
|---|---|---|---|---|
| command signing keys (`api/agent_packages.py`, `services/platform_command_trust.py`) | key rows: staged, active, retired, revoked, version | stage, activate, abort; signing of every control response | activation switches the signer of the whole fleet at once | every agent can verify the key that signs for it; one signer |
| enrollment and credentials (`api/agents.py`) | tokens, `linux_agents` rows | create, revoke and spend a token; enroll; revive a revoked row; revoke | lost replies; enrollments the agent gives up after the platform recorded them; a token written while keys rotate; rows with a former life | an acknowledgement counted is one that was given; a lost host comes back, on the platform and on its own disk |
| policies and groups (`api/agents.py`) | versions per policy; group to policy; agent to group | publish, restore, move | versions of different policies are compared | the agent runs the policy it is assigned |
| audit task queue (`api/agents.py`) | task status, lease time | queue, lease, complete, cancel | expired leases, lost answers, unlocked revocation | one open audit; one outcome; every audit ends |
| remediation plans (`api/remediations.py`) | plan status, active finding | create, approve, reject, cancel | a duplicate check that locks nothing | at most one active plan per finding |
| change sets (`api/change_sets.py`, `services/change_set_signing.py`) | status, plans and targets, authoriser, signature | compile, authorise, cancel, queue jobs | locks on several plans; gates read one after the other while plans, reports and agents change | one active set per plan; an independent authoriser; a signed payload that stays true |
| remediation jobs (`api/agents.py`, `api/change_sets.py`, `services/remediation_receipts.py`) | three job tables: status, lease, receipt | queue, deliver, expire, accept a receipt, cancel | lost answers, repeated receipts, a cancel racing a receipt, a window that ends | one outcome per job, each resting on a ready one |
| ingestion (`api/ingest.py`, `services/ingestion.py`) | reports, host identity, last scan, rows of the inventory | accept a report | overlapping, repeated and late reports; rows that change between their read and the commit | the newest report's inventory is shown; a report is ingested once |
| evidence vault (`services/artifacts.py`, `api/artifacts.py`) | object store and rows | put, delete, purge | two stores and one transaction; commits in doubt | accepted evidence is kept, deleted evidence is gone |
| vulnerability worker (`jobs/vulnerability_sync.py`, `services/vulnerability_intelligence.py`) | synchronisation runs, matches | queue, schedule, claim, run, give up; import of a snapshot | stopped and slow workers; an inventory and matches that change between the reads of a run and its commit | one worker per run; matches end on evidence; a run ends |
| accounts (`api/auth.py`, `api/admin.py`, `services/identity.py`, `dependencies.py`) | users, roles, sessions, identity provider | log in, log out, change role, status and provider | administrators acting on each other at once; logins that set roles | somebody can still administer the platform |
| certificates (`api/settings.py`, `services/certificates.py`) | certificate rows, two files | upload, bootstrap of every process | two files, several processes, no common lock | certificate and key belong together |
| fleet, dashboards, other settings | tables | queries and single-row updates | nothing concurrent | - |

**Agent** (`agent/`). `lsa_agent.py` keeps `state.json`, the pinned key
`/etc/lsa-agent/platform-command-key.pub` and its own key; its daemon repeats a cycle (policy,
heartbeat, three remediation polls, task, scan). `remediation_recovery.py` keeps an
encrypted checkpoint journal that survives a crash. `lsa-agent-enroll` is the console's
enrollment command. What is hard is that files are written one at a time, that processes
can crash and be run twice, and that a request may be handled although its client saw an error.

**Interaction.** Only the agent calls; the platform answers. `signed_agent_principal` takes
`FOR UPDATE` on the agent's row for the whole request, so requests of one agent are
serialised with each other and with `queue_agent_audits`, `bulk_revoke_agents` and (via the
tenant's lock, then the rows) `stage`, `activate` and `abort`. A handler that reads what it
has not locked and writes later is split into steps wherever another one can commit in
between and make a difference: among others `create_enrollment_token`, `revoke_agent`,
`create_remediation_plan`, `cancel_change_set`, `queue_vulnerability_sync`, `ingest_report`,
`synchronize_applications`, `apply_package_results`, `bootstrap_tls` and the requests of
administrators. What is left in one step although it reads more than once is named with its
reason under the component. The API runs two worker processes by default (`LSA_WEB_CONCURRENCY`), so
such handlers do overlap. An approved plan goes into a change set; an authorised change set
is what jobs are queued for; the jobs work with what the agent and its host are at that
time. A report is what a finding, a plan and the inventory of a host start from.

Scanner, console, package builders, migrations and the other settings pages have no
protocol state and are not modelled; `PROJECT.json` lists every component with its reason,
and every hazard at its line.

## KeyRotation

One action is one transaction of the platform, or one step of an agent process between two
points where it can crash. `status`, `row` and `token` are tables; `file` and `disk` the two
files on a host; `run` the processes, each with its own memory of `state.json` and the
answer it is handling; `reply` an enrollment response in flight; `late` heartbeats whose
client gave up. A key is its version number.

Of an agent's capabilities two decide anything here. Without *signed control* in the enrollment
request the platform answers that it is not required, and the agent gives its enrollment up
(`FinishEnrollment`, `lsa_agent.py:557`) after the row and the token's use were committed.
Without *key rotation* in the row (`able`) an acknowledgement is not counted
(`agent_packages.py:59-69`). A row has what the enrollment named (`NamedAtEnrollment`) until a
heartbeat, in time or late, names both. The agent as shipped names neither when it enrolls
(`lsa_agent.py:462`): then no host is ever enrolled, which `rotation_shipped` shows. The other
runs name signed control, and the runs about the handover both, as the API's own tests do; the
proofs are for every value.

| code | actions |
|---|---|
| `stage_/activate_/abort_platform_command_key_rotation` | `Stage`, `Activate`, `Abort` |
| `create_enrollment_token` (no lock) | `BeginToken`, `CommitToken`; also `RevokeToken`, `ExpireToken` |
| `revoke_agent`, `prepare_agent_reenrollment` | `Revoke`, `PrepareReenrollment` |
| `lsa-agent-enroll`, `enroll`, `enroll_agent` | `RunEnrollCommand` (pin, then `EnrollAgent`), `FinishEnrollment`, `LoseEnrollmentReply` |
| `agent_cycle` | `BeginCycle`, `Call`, `Refused`, `EndCycle`, `Fail` |
| `verify_control_response`, `apply_platform_key_rotation` | `Trusts`; `Learn`, `PinKey`, `SaveState`, `RejectAnswer` |
| a heartbeat that outlives its client | `LateHeartbeat` |

`KeyHandover` keeps the ring of keys and, of an enrolled agent, the key that signs for it and the
two it accepts (`View`): `Stage`, `Abort`, `Activate` (for the whole fleet, when everybody has the
new key durably), `Join`, `Leave`, `Remember`, `Pin` (only the signing key, and only a newer one).
The handler of an activation, two writes of an agent that may crash between them, late heartbeats
and lost replies all map to one of these steps or to none.

Operators are assumed to enroll only a host without state or with a revoked agent, and to
remove `state.json` while no agent process is running.

| run | question | instance |
|---|---|---|
| `rotation_fleet` | safety: `AgentCanVerify`, `AcknowledgedIsHeld`, `OnlyMissedActivationDisconnects`, `OneSigner`; the refinement `HandoverSpec` | 2 hosts, 3 keys, a reusable token; 1.8 million states |
| `rotation_progress` | liveness: `EventuallyAcknowledged`, `EventuallyPinned`, `ReenrollmentSucceeds` | 1 host, 3 keys |
| `rotation_staging` | finding: staging can disconnect an agent | `StagingKeepsAgentsConnected` is violated |
| `rotation_twoprocs` | finding: a manual `once` beside the daemon strands the agent | `AgentCanVerify` is violated |
| `rotation_readonly` | finding: the shipped systemd unit forbids pinning | `EventuallyPinned` is violated |
| `rotation_keptfiles` | finding: the console's advice blocks re-enrollment | `ReenrollmentSucceeds` is violated |
| `rotation_shipped` | finding: the agent as shipped gives up every enrollment | `ReenrollmentSucceeds` is violated |

`ReenrollmentSucceeds` is about both sides: infinitely often the row is live *and* `state.json`
is on the host, whatever answers are lost, proofs refused and rows revoked on the way.

*Bounds.* Three keys give a retired, an active and a staged or aborted one, which is what a
missed activation followed by another staging needs. Two hosts are the least for which
activation waits for somebody else. The staged key's acknowledgement involves one host
only, so liveness is checked with one, and there with an enrollment that names signed control alone,
so that `able` is gained by the first heartbeat. A late heartbeat that acknowledges nothing is kept
only where it can change `able` (`Matters`). The proofs are for all values.

*Fairness.* The daemon's loop and systemd restart a cycle for ever (`WF` on `BeginCycle`,
and on the refusals that end a cycle). A request repeated for ever is answered and its
answer kept infinitely often (`SF` per phase): crashes and losses may recur for ever, but
not in every cycle at the same step. `PersistentOperator` repeats the console's command, removes
the state of a revoked agent, and has a row without a host behind it revoked: that is what the
agent's message for a refused enrollment asks for ("revoke the stale agent, then run this
enrollment command again", `lsa_agent.py:505`). A live row's answer is handled sooner or later (`SF` on `FinishEnrollment`):
not every enrollment is lost or revoked before the host has its answer. Otherwise administrators and
expiry are under no fairness.

## AgentCycle

`agent`, `version`, `task` are tables; `revocation` is a `revoke_agent` transaction between
its reads and its commit; `late` are requests whose client gave up; `highest` is
`highest_policy_version` in `state.json`; `run` are the processes. Groups appear only as the
policy they point to. Since a request holds the agent's row lock, a request and the
handling of its answer are one action; `LoseAnswer`, `TimeOut` with `HandleLate`, and `Crash`
are the ways in which the two sides come apart.

| code | actions |
|---|---|
| `update_policy`, `restore_policy_version`; group changes | `PublishPolicy`; `AssignPolicy` |
| `queue_agent_audits` | `QueueAudit` |
| `bulk_revoke_agents`, `prepare_agent_reenrollment` (locked) | `RevokeLocked` |
| `revoke_agent` (unlocked) | `BeginRevoke`, `CommitRevoke`, `RollBackRevoke` (the victim of a deadlock) |
| `enroll_agent` | `Reenroll` |
| the lease of `next_agent_task` | `ExpireLease`, `Offered`, `Dispatch` |
| `complete_agent_task` | `Complete` |
| `agent_cycle` | `BeginCycle`, `AcceptPolicy`, `RejectPolicy`, `Heartbeat`, `NextTask`, `Scan`, `ReportOutcome`, `Refused` |

| run | question | instance |
|---|---|---|
| `agent_audits` | `AtMostOneOpenTask`, `OutcomeStands`, `HighestNeverFalls`; liveness `EveryAuditEnds`, `PolicyReachesAgent` | 2 policies of 2 versions, 2 audits, 1 late request; 152 thousand states |
| `agent_newpolicy` | finding: an agent moved to a policy with fewer versions refuses it for ever | `AssignedPolicyReachesAgent` is violated |

*Bounds.* Two audits, because the second exists only after the first ended: that is where a
late report of the first can meet the second. Two versions of two policies give every
comparison (less, equal, greater) that `accept_policy_version` makes. No symmetry is used
where liveness is checked.

*Fairness.* As above for the daemon. `ExpireLease` is weakly fair: time passes. `NextTask` is
strongly fair for an empty and for a filled queue, `Scan` and `ReportOutcome` strongly fair:
they may fail infinitely often, but not every time. Nobody revokes, moves or publishes
under fairness, so the liveness properties name the escapes (a revoked agent, a policy the
agent must refuse).

The console's "synced" (`api/agents.py:302`) compares the same numbers, without asking of which
policy they are, so an agent moved to another policy with the same version number is shown as
synced at once. It is what the console displays, nothing else is decided by it, and it is not modelled.

## ChangeSets

`plans` and `sets` are tables; `latest`, `agent` and `assigned` what the gates look at;
`request` is the one request each administrator has open, with what it has read and the
plans it has locked. A plan's row lock is `held` by the request.

| code | actions |
|---|---|
| `create_remediation_plan` (the check, then the insert) | `BeginPlan`, `CommitPlan`, `RefusePlan` |
| `approve_`, `reject_`, `cancel_remediation_plan` | `Approve`, `Reject`, `CancelPlan` |
| `create_change_set` (locks in id order, then checks, then insert) | `BeginCompile`, `LockPlan`, `CheckPlans`, `RefuseCompile`, `InsertSet` |
| `authorize_change_set`, `_readiness_gates`, `active_change_signing_key` | `BeginAuthorize` (plans and agents), `PassGates` (reports, window, four-eyes, key), `RefuseAuthorize`, `Sign` |
| `cancel_change_set` | `CancelSet` |
| reports, policies, heartbeats, time | `AcceptReport`, `Reassign`, `AgentChanges`, `EvidenceAges`, `WindowBegins` |

`Governance` has the same two tables and atomic requests: `Request`, `Approve`, `Reject`,
`Withdraw`, `Compile`, `Authorize`, `Cancel`, each with all of its conditions at the moment it takes
effect. Here the conditions are read in other statements than the write, partly without a lock.
`ChangeSets!Abstract` forgets the requests under way, and the write of each is the abstract step.

| run | question | instance |
|---|---|---|
| `change_governance` | `OnePlanPerFinding`, `OneActiveSetPerPlan`, `IndependentAuthorizer`, `EnvelopeStaysTrue`, `NoLockCycle`, `BlockedSetsStayBlocked`; the refinement `GovernanceSpec` | 2 administrators, 2 hosts, 2 plans, 2 change sets, 2 reports |

*Bounds.* Two administrators, plans and sets are what a race for a finding, for a plan and
for two locks needs; two reports give a newer one. The product of two sets and a moving
fleet is out of reach, so a scenario is chosen initially: "races" has two sets and a fleet at
rest, "fleet" one set and at most one thing at a time that is not as it was. Administrators
and hosts are symmetric (there is no liveness property). Deadlock is not checked: plans and
sets are used up, and nobody has to act.

*Reads in one step.* `Approve` holds the plan's lock, reads the host's latest report and commits in one
step: a report between the two has the same outcome as one right after the commit, since nobody can
do anything to the plan meanwhile and nothing that reads it while it is pending gets further for it.
`FirstGates` and `LaterGates` each read several tables (plans, agents and the time; reports
and assignments) at once: what changes one of the tables never looks at another, so a change
between two of these reads can be moved before the first or after the last with the same outcome.
What matters, that the first ones may have changed by the time of the later ones and of the signature, is kept.

*What the model brought out, none of it contradicted by a document.* A plan may be canceled
under an active change set and the set's jobs can still be queued: `EnvelopeStaysTrue` says
"approved or canceled". The requester of a plan may approve it. The first two authorisations
of a tenant, at the same time, may create two signing keys; both remain valid.

## RecoveryJobs and RecoveryLedger

One authorised change set and one target agent. `jobs` stands for the three job tables;
`journal`, `blobs` and `cache` are the agent's disk (`journal.json`, `*.bin`, the receipts in
`state.json`); `agent` is its process between two writes, `run` counts its starts, `net`
holds receipts on their way. Digests and signatures are the values they are taken of.

| code | actions |
|---|---|
| `queue_validation_`, `queue_checkpoint_`, `queue_recovery_verification_job` | `QueueValidation`, `QueueCheckpoint`, `QueueVerification` |
| `cancel_change_set` (reads open jobs, then commits) | `ReadOpenJobs`, `CommitCancel` |
| `next_remediation_validation`, `_checkpoint`, `next_recovery_verification` | `Poll`, `PollUnanswered` (with `Serve`: delivers one job, expires those it passes) |
| `process_remediation_validation`, `dry_run_remediation_contract` | `Validate` |
| `process_remediation_checkpoint`, `create_encrypted_checkpoints` | `RefuseContract`, `OpenJournal`, `WriteBlob`, `RecordEntry`, `BlockJournal`, `FinishJournal`, `SignCheckpoint` |
| `process_recovery_verification`, `verify_encrypted_checkpoints` | `Verify` |
| sending, and the three `submit_*_receipt` | `Post`, `Lose`, `Submit` |
| the host, the key, the window, the disk, the process | `Drift`, `Rotate`, `WindowEnds`, `LoseBlob`, `Crash` |

`RecoveryLedger` keeps only kind, outcome, basis and saved entries of a job: `Request`, `Save`,
`Accept`. `RecoveryJobs!Ledger` is the refinement mapping: a job's outcome is that of its
accepted receipt, whatever a cancel does to its status; what is saved are the entries its
journal calls ready.

| run | question | instance |
|---|---|---|
| `recovery_jobs` | `StoreBounded`, `AcceptedIsOnDisk`, `NoneOpenAfterCancel`, `VerifiesWhatIsThere`, `EndedStaysEnded`; the refinement `LedgerSpec`; liveness `OpenJobsEnd` | 2 entries, one of which may be absent; room for 3 blobs; 2 keys, 3 runs |

*Bounds.* "chain" is a validation, a checkpoint and a verification with at most two
troubles (a lost answer or receipt, a crash, drift, a new key, the end of the window, a
cancel, a lost blob, a receipt that is late) in any combination; "again" a fourth job, for a
second checkpoint that meets the first one's blobs, with at most one. Room for three blobs is
less than two checkpoints of two entries need.

*The disk.* `AcceptedIsOnDisk` ties the three files together: whatever a journal records as ready
is the blob at its path, unless `LoseBlob` took it since (`Gone`), and an accepted checkpoint is
complete in the journal the platform accepted. A crash between the temporary file and its
move to the path (`remediation_recovery.py:272-289`) leaves a file that neither the cap's count of
`*.bin` (478) nor the model's `Stored` contains; such files are never removed, and
`StoreBounded` says nothing about them.

*Fairness.* `Fairness` is that of the code: the daemon works for ever and is restarted, and
is not cut off for ever (`SF` of a poll of each kind and of a job's receipt). In the instance
losses are troubles, and so bounded; weak fairness of `Work` and `Submit` then says the same.
Nobody has to queue, cancel or close the window.

*What the model brought out.* (a) A checkpoint job whose contract the agent refuses is
answered with a cached receipt whose `journal_digest` the platform never accepts; the job is
delivered and refused in every cycle until its window ends. (b) It holds up the checkpoints
behind it. `OpenJobsEnd` therefore excuses an open window after a key rotation. (c) A cancel
that read a job as open may replace the status of a receipt accepted meanwhile by "canceled";
the receipt remains (`EndedStaysEnded` says so).

## Evidence

`upload` is a request of a host with its report; `vault` the objects stored; `report` the rows;
`host` the host's row; `removal` a request that deletes, or the worker that purges;
`deployment` the kind of store (object lock on S3, or a directory) and whether there is a
retention period.

| code | actions |
|---|---|
| `submit_report`, `submit_bundle` | `Receive`, `Store`, `Discard`, `CommitFails` (also in doubt), `UploadStops` |
| `ingest_report`, `synchronize_applications` | `ReadHost`, `ReadInventory`, `Commit` |
| `delete_artifact`, `purge_expired_artifacts` | `DeleteArtifact`, `PurgeExpired`, `RemoveObject`, `CommitRemoval`, `RemovalFails`; `RetentionEnds` |
| hosts, tokens, signing keys | `CreateHost`, `DeleteHost`, `RevokeToken`, `IssueToken`, `RevokeKey`, `RegisterKey` |

`EvidenceKept`: accepted evidence stays for its retention. `ArchiveSpec`: the request handlers
implement `EvidenceArchive`, in which a report is accepted with its object in one step, the object
is removed only after it was released, and the report is marked as deleted only after that; so a
row that says deleted has no object (`DeletedMeansGone`), and never will again.

The inventory is written through the ORM: a request loads the rows, and its commit writes only
the attributes that differ from what it loaded (`Synchronized`, `Written`), or inserts a row, which
fails if another one has inserted it meanwhile (`Conflict`). A report without a list of
applications leaves the rows alone, and so does one that is older than the last scan as the request
read it (`Synchronizes`). `ReadHost` reads the reports table and the host at once: a report that is
inserted after its first read is found by the primary key at the commit.

`NewestInventoryShown`: the applications of the newest report are shown as installed and no others,
whatever older reports, or reports without a list, are ingested before, after and beside it. Its two
exceptions are what the model brought out. (a) `Contradicted`: reports ingested at the same
time leave open what they disagree about. Both have read an application as installed; the older one
commits its removal; the newer one lists it, finds in its own copy nothing to change, and so
it is shown as removed. (b) `SetBack`: an older report that is ingested last sets `last_scan_at` and
the score back, and a third one between the two in age then passes for current. `seen`, a ghost, says
which reports were there when a request read the host; it is what "at the same time" means.

Also: two first reports at once both bind the machine id; a report may be accepted for a host
that is being deleted; a commit in doubt makes the upload discard an object that is accepted
evidence where the store does not lock it (excused: `unsure`); a crash between `Store` and
`Commit` leaves an object nobody knows of.

## VulnerabilitySync

| code | actions |
|---|---|
| `queue_vulnerability_sync` (the check, then the insert) | `Ask`, `Queue` |
| `enqueue_scheduled_runs` | `Schedule` (reads), `Enqueue` (fails what overran, queues) |
| `process_next_run`, `synchronize_run` | `Claim`, `Start`, `ReadPackages`, `Fetch`, `Succeed`, `Fail`; `WorkerStops` |
| `apply_package_results`, for a run and for a snapshot | `ReadInstalled`, `ReadMatch` of each package found, `ReadActive`; what it writes is `Committed`, in `Succeed` and `ImportSnapshot` |
| `upload_vulnerability_snapshot`, `import_snapshot` | `UploadSnapshot`, `ImportSnapshot`, `RefuseSnapshot` |
| time, reports, OSV | `Ages`, `Overruns`, `InventoryChanges`, `OsvChanges` |

The results of a run or a snapshot are applied to packages that were read as installed, to matches
read one by one, and to the active matches read after them; at the commit only rows that differ from what was
read are written. Reports, other runs and snapshots commit in between. One lock orders two
appliers: the record of a vulnerability is written before the match with it is looked up, and stays
locked until the commit (`Holds`).

`ResolvedOnEvidence`: the match of a package that is on the host from the question to the commit is resolved
only by a run that asked about it and was not told of it, or a snapshot that lists it without the
match. A package that was off the host for some time since may lose its match without (`missed`, a
ghost): found by the run, removed when the packages are read and back at the commit, or installed after
the question was put together. What the model brought out besides: the later of two overlapping appliers may
find an active match resolved in the meantime, or the other way round, and go by what it has read;
a manual and a scheduled request may both queue a run; a worker that finishes late overwrites "failed" by
"succeeded", and a sweep the other way round; an imported snapshot counts as the latest run
and puts off the retry of a failed one.

`OneWorkerPerRun`, and `OpenRunsEnd` (liveness; every worker's steps and `Overruns` are weakly fair:
workers are restarted and time passes; the number of stops is bounded).

## Access

| code | actions |
|---|---|
| `oidc_start`, `oidc_callback` | `OidcStart`, `OidcCallback` |
| `jit_user`, `radius_authenticate`, `login`, `issue_session` | `BeginLogin`, `CommitLogin` |
| `logout`, `current_user` | `Logout`, `SessionExpires` |
| `update_user_role`, `update_user_status`, `create_user`, `update_provider` | `BeginRole`, `BeginStatus`, `BeginCreate`, `BeginProvider`, and a `Commit...` of each; `RequestFails` |

`AdminRemains`: somebody can administer the platform, although the code's only protection is
that nobody may disable or demote themselves. Two ways out of it are real and excused by a
ghost (`excused`): two administrators who demote each other at once, and an identity provider
that maps the last administrator to another role. Also: a login that overlaps with a
disablement leaves a session that is valid again once the account is enabled; the `used_at`
check of a sign-on transaction locks nothing and relies on the provider's one-time codes.

## Certificates

| code | actions |
|---|---|
| `upload_tls_certificate`, `install_certificate`, `materialize_certificate`, `_atomic_write` | `Install`, `Flush`, `WriteCertificate`, `WriteKey`, `Finish`, `InstallFails` |
| `bootstrap_tls` of every process | `Bootstrap`, and without an active certificate `Generate` (which reads the active ones again); `ProcessStops` |

`SettledPair`: whoever wrote the files last, overlapping with nobody, left the two halves of one
active certificate, whatever others had left half way. Without "overlapping with nobody" it is
false: two uploads leave two active certificates, and with a third the files may be of
different ones until the next restart; the files are written before the commit, which may
fail; a bootstrap picks any active certificate, and may overwrite a newer upload's files.

| run | question | instance |
|---|---|---|
| `services` | the properties of the four services above | 3 uploads, 2 removals, 2 machines, 1 application; 2 workers and a snapshot, 2 runs, 1 package; 3 users (two federated); 2 processes, 3 certificates; 540 thousand states |

*Bounds.* The four share no state: one `subject` is chosen initially and moves. "vault" has two
bundles of any ids, so that they may be the same report, with two removals; "inventory" three
plain reports with or without a list, the least for the order newest, oldest, middle. Their
times matter by their order only, and one application is enough: rows are written independently of each other, and a report
may list it or not. Two workers and two runs give a run that is given up while its worker goes on and
the next is claimed. The second worker takes its turn while the first has a run; a sweep of it beside an
idle first worker, as when both schedule at once, is counted as an event; only the latest run ages, since
no other's age is read. One package with one vulnerability: matches are applied one by one. Three
certificates let two overlap over an older one. `MaxEvents` bounds stops, requests and changes of the outside
world, `MaxRequests` logins and administrative changes. A package that comes back is no event, since its
removal was one: a run that finds it, reads the host without it and commits when it is back is
within the bound. A snapshot is uploaded before any event, and until it is imported the events
beside the workers are stops and removed packages; a manual request, a change of OSV's answers and the ageing of a
run wait for it. Deadlock is not checked: bounded requests end.

## What is proved

For all values of the constants, with TLAPS (`SingleProcess`: at most one agent process on a
host; the run `rotation_twoprocs` shows why it is needed).

| theorem | property | assumption |
|---|---|---|
| `KeyRotationProofs!TypeCorrect` | `TypeOK` | - |
| `KeyRotationProofs!SignerIsUnique` | `OneSigner` | - |
| `KeyRotationProofs!NoAgentIsStranded` | `AgentCanVerify` | `SingleProcess` |
| `KeyRotationProofs!AcknowledgementIsHonest` | `AcknowledgedIsHeld` | `SingleProcess` |
| `KeyRotationProofs!OnlyMissedActivations` | `OnlyMissedActivationDisconnects` | `SingleProcess` |
| `KeyRotationProofs!PinAdvances` | `PinOnlyAdvances` | `SingleProcess` |
| `KeyRotationProofs!ImplementsHandover` | `HandoverSpec` (refinement) | `SingleProcess` |
| `AgentCycleProofs!TypeCorrect` | `TypeOK` | - |
| `AgentCycleProofs!AuditsDoNotOverlap` | `AtMostOneOpenTask` | - |
| `AgentCycleProofs!FirstOutcomeStands` | `OutcomeStands` | - |
| `AgentCycleProofs!PolicyIsNotRolledBack` | `HighestNeverFalls` | `SingleProcess` |
| `ChangeSetsProofs!TypeCorrect` | `TypeOK` | - |
| `ChangeSetsProofs!FindingsHaveOnePlan` | `OnePlanPerFinding` | - |
| `ChangeSetsProofs!PlansHaveOneSet` | `OneActiveSetPerPlan` | - |
| `ChangeSetsProofs!FourEyes` | `IndependentAuthorizer` | - |
| `ChangeSetsProofs!EnvelopesAreTrue` | `EnvelopeStaysTrue` | - |
| `ChangeSetsProofs!CanceledSetsStand` | `CancellationStands` | - |
| `ChangeSetsProofs!LocksDoNotCycle` | `NoLockCycle` | - |
| `ChangeSetsProofs!BlockedSetsAreNotSigned` | `BlockedSetsStayBlocked` | - |
| `ChangeSetsProofs!ImplementsGovernance` | `GovernanceSpec` (refinement) | - |
| `RecoveryJobsProofs!TypeCorrect` | `TypeOK` | - |
| `RecoveryJobsProofs!StoreStaysBounded` | `StoreBounded` | - |
| `RecoveryJobsProofs!CheckpointsAreThere` | `AcceptedIsOnDisk` | - |
| `RecoveryJobsProofs!CancelEndsAll` | `NoneOpenAfterCancel` | - |
| `RecoveryJobsProofs!OutcomesStand` | `EndedStaysEnded` | - |
| `RecoveryJobsProofs!VerificationsAreTrue` | `VerifiesWhatIsThere` | - |
| `RecoveryJobsProofs!ImplementsLedger` | `LedgerSpec` (refinement) | - |
| `EvidenceProofs!EvidenceTypeCorrect` | `EvidenceTypeOK` | - |
| `EvidenceProofs!EvidenceIsKept` | `EvidenceKept` | - |
| `EvidenceProofs!DeletedIsGone` | `DeletedMeansGone` | - |
| `EvidenceProofs!NewestIsShown` | `NewestInventoryShown` | - |
| `EvidenceProofs!ImplementsArchive` | `ArchiveSpec` (refinement) | - |
| `VulnerabilitySyncProofs!SyncTypeCorrect` | `SyncTypeOK` | - |
| `VulnerabilitySyncProofs!RunsHaveOneWorker` | `OneWorkerPerRun` | - |
| `VulnerabilitySyncProofs!MatchesEndOnEvidence` | `ResolvedOnEvidence` | - |
| `AdministrationProofs!AccessTypeCorrect` | `AccessTypeOK` | - |
| `AdministrationProofs!NobodyLocksEverybodyOut` | `AdminRemains` | - |
| `AdministrationProofs!CertificateTypeCorrect` | `CertificateTypeOK` | - |
| `AdministrationProofs!SoleWriterSettles` | `SettledPair` | - |
| `ServicesProofs!ServicesKeepTheirSpecifications` | `EvidenceSpec`, `AccessSpec`, `CertificateSpec`, the safety part of `SyncSpec` | - |
| `ServicesProofs!ServicesTypeCorrect` | `TypeOK` of the run `services` | - |
| `ServicesProofs!ServicesAreSafe` | the invariants of the four services and `ArchiveSpec`, of the run `services` | - |

All rest on the named assumptions of their modules about the constants (`RotationConstants`,
`CycleConstants`, `GovernanceConstants`, `RecoveryConstants`, `SyncAssumption` and so on), which
TLC evaluates in the runs.

*The argument for KeyRotation.* `AgentCanVerify` is not inductive: it says nothing of what an
agent's process is about to write, nor of what a late heartbeat is about to acknowledge.
`IInv` adds (1) the ledger, `KeysInv`: keys are created in order, one signs, a staged one is
the newest; this part stands alone and gives `SignerIsUnique`; (2) tokens are pinned to keys
that sign or have signed; (3) `DiskInv`: whenever an acknowledgement of the staged key is
recorded *or still in flight* (`Committed`), the key is pending in `state.json`; a key that
signs without ever having been proposed is pinned and trusted; and the key file differs
from `state.json` only between the two writes of an activation; (4) the same of an enrollment reply in
flight and of the answer a process holds (`AnswerInv`), with the process' memory equal to the
file while it runs (`ProcInv`, where `SingleProcess` is used). The steps are one lemma per
operation that disturbs a conjunct; `QuietStep` handles the rest. TLC checked `IInv` before it
was proved.

*The refinement of KeyHandover.* What a step does to a host is judged by its view alone
(`HostRefines`): a host that gets a view joins, one that loses it leaves, and one that keeps it
keeps its signer and either pins or remembers. `PinKey` is the abstract `Pin` because an agent applies
an activation only of the key that was pending and now signs for it (`PinKeyAdvances`). For `Activate`
the handler looks at the acknowledgements in the platform's rows and the abstract guard at the agents'
keys; `DiskInv` connects the two. That every view still accepts its signer is `AgentCanVerify` again.
`Join` admits a retired signer, because a token may be pinned to a key that was just retired.

*The argument for AgentCycle.* `IInv` is type correctness, the ranges of a process' version and task,
and `AtMostOneOpenTask` itself. `TasksStep` says that every step either queues a task while none is open or
only moves (`Moves`) tasks that are open, or that an unlocked revocation read; the first two theorems
follow. That the offered task exists follows from `AtMostOneOpenTask`.
`HighestNeverFalls` needs `Ahead`: a process in its cycle is never behind `state.json`.

*The argument for ChangeSets.* `IInv` is type correctness and five parts: plans and their findings
(`PlansInv`), who holds which plan's lock (`LocksInv`), what a compilation has checked under
those locks (`ChecksInv`), what an authorisation has read (`DecisionsInv`), and the properties of
change sets themselves (`SetsInv`). None of the race properties is inductive without what a
request has read or locked already. Rather than treat every action for every conjunct, `NextSteps`
shows once what any step may do to a plan, a set, a request and the reports, and each conjunct
follows from that. For `LocksDoNotCycle` the greatest plan that anybody of a group waits for is
taken: whoever holds it waits for a greater one or for none.

*The refinement of Governance.* A request that wrote maps to its abstract request, everything else to
a stutter. What has to be shown is that the conditions read earlier hold at the write. For
a plan request it is the unique index that `CommitPlan` checks; for `InsertSet` the plans' locks, held
since before they were checked (`LocksInv`, `ChecksInv`), and that a compilation is of at least one
plan (`ChosenInv`); for `Sign` the status, requester and approvers read before, which nobody can change
meanwhile (`DecisionsInv`): the set's row is locked, and an approver is never replaced.

*The argument for RecoveryJobs.* `JobsInv` relates status, receipt and basis of a job; `CancelInv` says
that jobs read by a cancel were open, and that no other is open once it committed; `ReceiptsInv`
says that what is in the cache, in flight and accepted is the same receipt of a job (an agent
signs one), and that a job being worked on has none; `JournalInv` says that a signed "whole"
receipt has the results of a journal that is not written any more, and what each recorded entry
holds. For the blobs `StoreInv` is needed too: what a journal records, and what the agent has copied and is about
to record, is stored or was lost, and a blob belongs to an entry that its job asks for (so a
checkpoint that begins anew never writes over what a journal names). `StoreStaysBounded` needs
`Stored` to be finite, and that every write adds one element at most. The refinement maps `Submit`
to `Accept`, `RecordEntry` to `Save`, the three requests to `Request`, and every other step to a
stutter; the step of `Submit` uses `JournalInv` for "all of it is saved".

*The argument for Evidence.* For the vault, `UploadInv`, `ReportInv` and `RemovalInv` say who may still remove
what: an object of an accepted report is only named by a removal after its retention has ended, and
by its own upload only if the commit was in doubt; objects are named by upload, so no other upload
can name it. For the inventory, `ReadInv` (the last scan, as it is and as a request read it, is the
time of an accepted report) and `RowsInv` (a row that is not as a request has read it was written by
a report that the request has not seen and that lists what the row shows). A commit of the newest
report then shows its list or is contradicted (`RowWritten`); a commit of an older one writes rows only
if it read a last scan no newer than itself, so before the newest was ingested, or after a setback; in the
former case what it writes is of a report ingested at the same time.

*The refinement of EvidenceArchive.* `Commit` maps to `AcceptBundle` or `AcceptPlain`, `RetentionEnds` to
`Release`, `CommitRemoval` to `Delete`; `RemoveObject` and `Discard` map to `Remove` if the object is an
accepted report's, and all else to a stutter, `Store` among it. `VaultInv` gives the guards, and
`OwnRows` (an accepted report is carried by its own upload) that a step on one object is one on one
report.

*The argument for VulnerabilitySync.* A run a worker holds is not "none", and from `Start` on never
"queued" again (`HeldInv`), and neither is a run that was seen to overrun; with the row lock of
`Claim` this gives `OneWorkerPerRun`. That the run added is new needs that a largest run exists
(`NewestCreated`, by well-foundedness). `MatchesEndOnEvidence` needs `SoundInv`: whatever an applier
cannot tell of a package (it is not installed, was not asked about, or was found but not among the
installed ones it read) is because the package was off the host at some time since the applier asked (`missed`).

*The arguments for Access and Certificates.* `AdminRemains` needs `RequestInv`: a request of an administrator
that is about that administrator neither takes the role nor the account away, so whoever commits
while still an administrator remains one. `SettledPair` needs
`SoleWriter` (while nobody overlapped one process writes, and the files have what it wrote so far)
and `Quiet`.

*The argument for the services.* The instance chooses one of them and lets it move. `StepMoves` shows
that each of its steps is a step of one service's specification that leaves the variables of the other
three alone; so every behaviour of it is one of each service, and the invariants carry over.

Only model-checked: the seven liveness properties (TLAPS proves neither fairness arguments nor
`ENABLED`), and everything about concrete instances in the violation runs. No module uses
recursion.

## What the violation runs show

Six promises of the documentation, the console or a test that the code does not keep, each a
finding with its quotation in `PROJECT.json`: staging before a missed activation, two
processes on one `state.json`, the read-only key directory, kept files at re-enrollment,
enrollment by the agent as it is shipped, and policy versions compared across policies.

## Not modelled

- *KeyRotation, AgentCycle*: sequence numbers and expiry of envelopes (answers are fresh and
  genuine); the creation of a tenant's first key; host matching by name; the content of
  policies; scheduled scans, which touch none of the state modelled.
- *ChangeSets*: numeric limits of a policy (part of the assignment that permits remediation);
  titles and text; deleted hosts; the choice of an action from the catalogue.
- *RecoveryJobs*: several targets (each agent has its own jobs); pruning of the agent's cache of
  50 receipts; contracts an agent cannot parse; a failing write of the journal itself; a
  possible deadlock of a cancel's updates with a delivery's locks (the database aborts one of
  them, as a failed request).
- *Services*: findings and scores of a report; severity and exploitation data of a vulnerability;
  the password check, e-mail conflicts and the deletion of a provider; parsing of certificates;
  the reload of the web server.
- *Components*: package builders and the remediation catalogue are pure functions and static data; the
  scanner is a sequential program of Ansible roles; the console is presentation; schema and migrations
  are what the modules' variables stand for.

## Plan

1. `ControlEnvelopes`: sequence numbers against replay, also with two processes; theorem: an
   accepted sequence never falls with one process.
2. Several target agents in `RecoveryJobs`, composed with `ChangeSets`: a job only for a target of
   the signed payload, also when a plan is canceled under it.
3. Pruning of the receipt cache: a receipt that may still be asked for is not pruned.
4. The creation of a tenant's first keys, and host matching at enrollment.
5. Findings and scores of overlapping reports of one host.
