----------------------------- MODULE AgentCycle -----------------------------
(***************************************************************************)
(* The cycle of one managed agent: it takes over the policy of its group,  *)
(* reports the version in a heartbeat, leases an audit task, scans, and    *)
(* reports the outcome, while administrators publish policies, move the    *)
(* agent between groups, queue audits, and revoke and re-enroll it.        *)
(*                                                                         *)
(* The platform handles a signed request holding the lock on the agent's   *)
(* row, so a request is one action, together with the agent's handling of  *)
(* the answer when it gets one: only the agent's own process waits for it. *)
(* An answer may be lost, and a request may be handled after its client    *)
(* gave up.  Groups appear only as the policy they point to.  The signing  *)
(* of the answers is the subject of KeyRotation.                           *)
(***************************************************************************)
EXTENDS Naturals, FiniteSets

CONSTANTS
    Policies,       \* agent policies
    Procs,          \* lsa_agent.py processes on the host (daemon, once)
    MaxVersion,     \* bound: versions published of a policy
    MaxTasks,       \* bound: audit tasks ever queued
    MaxLate         \* bound: given-up requests on their way to the platform

ASSUME CycleConstants ==
    /\ MaxVersion \in Nat \ {0}
    /\ MaxTasks \in Nat \ {0}
    /\ MaxLate \in Nat

VARIABLES
    agent,      \* linux_agents: not revoked?, policy of its group, last_policy_version
    version,    \* newest version of each policy
    task,       \* agent_tasks.status, in the order of their creation
    revocation, \* a revoke_agent transaction between its reads and its commit
    late,       \* requests whose client gave up before they were handled
    highest,    \* highest_policy_version in state.json
    run         \* the agent processes

vars == <<agent, version, task, revocation, late, highest, run>>
fleetVars == <<agent, version, revocation>>
hostVars == <<highest, run>>

-----------------------------------------------------------------------------
Tasks    == 1..MaxTasks
NoTask   == 0
Versions == 1..MaxVersion
NotReported == 0

\* "overdue" is a dispatched task older than AGENT_TASK_LEASE_SECONDS.
Open     == {"queued", "dispatched", "overdue"}
Finished == {"completed", "failed"}
Statuses == {"none", "cancelled"} \union Open \union Finished

Phases  == {"idle", "policy", "heartbeat", "next", "scan", "complete", "fail"}
Process == [pc : Phases, highest : Versions \union {0}, task : Tasks \union {NoTask}]
Resting == [pc |-> "idle", highest |-> 0, task |-> NoTask]

Heartbeats  == [kind : {"heartbeat"}, version : Versions]
Completions == [kind : {"complete"}, task : Tasks, outcome : Finished]

NoRevocation == [open |-> FALSE, read |-> {}]

TypeOK ==
    /\ agent \in [live : BOOLEAN, policy : Policies, reported : Versions \union {NotReported}]
    /\ version \in [Policies -> Versions]
    /\ task \in [Tasks -> Statuses]
    /\ revocation \in [open : BOOLEAN, read : SUBSET Tasks]
    /\ late \subseteq Heartbeats \union Completions
    /\ highest \in Versions
    /\ run \in [Procs -> Process]

\* A newly enrolled agent, in any group.
Init ==
    /\ version = [q \in Policies |-> 1]
    /\ \E q \in Policies : agent = [live |-> TRUE, policy |-> q, reported |-> NotReported]
    /\ task = [t \in Tasks |-> "none"]
    /\ revocation = NoRevocation
    /\ late = {}
    /\ highest = 1
    /\ run = [p \in Procs |-> Resting]

-----------------------------------------------------------------------------
(* Administrators *)

\* Publishing and restoring both add a version.
PublishPolicy(q) ==
    /\ version[q] < MaxVersion
    /\ version' = [version EXCEPT ![q] = @ + 1]
    /\ UNCHANGED <<agent, task, revocation, late, hostVars>>

\* The agent moves to a group, or its group to a policy.
AssignPolicy(q) ==
    /\ q # agent.policy
    /\ agent' = [agent EXCEPT !.policy = q]
    /\ UNCHANGED <<version, task, revocation, late, hostVars>>

OpenTasks == {t \in Tasks : task[t] \in Open}

\* Mutant: only a task that is still queued is taken for an existing one.
NoQueuedTask == \A t \in Tasks : task[t] # "queued"

\* An audit is queued unless the agent has an open task: that one is returned.
NoOpenTask == OpenTasks = {}

QueueAudit(t) ==
    /\ agent.live
    /\ NoOpenTask
    /\ task[t] = "none"
    /\ \A u \in Tasks : u < t => task[u] # "none"
    /\ task' = [task EXCEPT ![t] = "queued"]
    /\ UNCHANGED <<fleetVars, late, hostVars>>

Cancel(tasks) ==
    task' = [t \in Tasks |-> IF t \in tasks THEN "cancelled" ELSE task[t]]

\* bulk_revoke_agents and prepare_agent_reenrollment lock the agent first.
RevokeLocked ==
    /\ agent.live
    /\ agent' = [agent EXCEPT !.live = FALSE]
    /\ Cancel(OpenTasks)
    /\ UNCHANGED <<version, revocation, late, hostVars>>

\* revoke_agent reads the agent and its open tasks without a lock ...
BeginRevoke ==
    /\ agent.live
    /\ ~ revocation.open
    /\ revocation' = [open |-> TRUE, read |-> OpenTasks]
    /\ UNCHANGED <<agent, version, task, late, hostVars>>

\* ... and writes what it read whatever has happened in between.
CommitRevoke ==
    /\ revocation.open
    /\ revocation' = NoRevocation
    /\ agent' = [agent EXCEPT !.live = FALSE]
    /\ Cancel(revocation.read)
    /\ UNCHANGED <<version, late, hostVars>>

\* A lost connection, or the victim of a deadlock with a request of the agent.
RollBackRevoke ==
    /\ revocation.open
    /\ revocation' = NoRevocation
    /\ UNCHANGED <<agent, version, task, late, hostVars>>

\* The revoked host is enrolled again, into the group of the token; its operator
\* removed state.json and runs the command while no agent process is busy.
Reenroll(q) ==
    /\ ~ agent.live
    /\ \A p \in Procs : run[p] = Resting
    /\ agent' = [live |-> TRUE, policy |-> q, reported |-> NotReported]
    /\ highest' = version[q]
    /\ UNCHANGED <<version, task, revocation, late, run>>

-----------------------------------------------------------------------------
(* The platform's side of the agent's requests *)

ExpireLease(t) ==
    /\ task[t] = "dispatched"
    /\ task' = [task EXCEPT ![t] = "overdue"]
    /\ UNCHANGED <<fleetVars, late, hostVars>>

\* Mutant: a task whose lease ran out is not given out again.
Queued(t) == task[t] = "queued"

Available(t) == task[t] \in {"queued", "overdue"}

\* The task next_agent_task gives out: the oldest one that is available.
Offered ==
    IF \E t \in Tasks : Available(t)
    THEN CHOOSE t \in Tasks : Available(t) /\ \A u \in Tasks : Available(u) => t <= u
    ELSE NoTask

Dispatch(t) ==
    task' = IF t = NoTask THEN task ELSE [task EXCEPT ![t] = "dispatched"]

\* Mutant: whatever the status of the task.
AnyTask(t) == TRUE

InProgress(t) == task[t] \in {"dispatched", "overdue"}

\* A task that is not in progress is refused with a 409.
Complete(t, outcome) ==
    task' = IF InProgress(t) THEN [task EXCEPT ![t] = outcome] ELSE task

\* A given-up request is handled after all, or dropped.
HandleLate(r) ==
    /\ r \in late
    /\ late' = late \ {r}
    /\ \/ UNCHANGED <<agent, task>>
       \/ /\ agent.live /\ r.kind = "heartbeat"
          /\ agent' = [agent EXCEPT !.reported = r.version]
          /\ UNCHANGED task
       \/ /\ agent.live /\ r.kind = "complete"
          /\ Complete(r.task, r.outcome)
          /\ UNCHANGED agent
    /\ UNCHANGED <<version, revocation, hostVars>>

-----------------------------------------------------------------------------
(* The agent process *)

\* Mutant: the highest accepted version is not read from state.json.
BeginAfresh(p) ==
    /\ run[p].pc = "idle"
    /\ run' = [run EXCEPT ![p] = [pc |-> "policy", highest |-> 0, task |-> NoTask]]
    /\ UNCHANGED <<fleetVars, task, late, highest>>

BeginCycle(p) ==
    /\ run[p].pc = "idle"
    /\ run' = [run EXCEPT ![p] = [pc |-> "policy", highest |-> highest, task |-> NoTask]]
    /\ UNCHANGED <<fleetVars, task, late, highest>>

\* Mutant: the version has to be a new one.
NewVersion(p) == version[agent.policy] > run[p].highest

\* Mutant: whatever version is served.
AnyVersion(p) == TRUE

\* accept_policy_version: one highest version for all policies.
Acceptable(p) == version[agent.policy] >= run[p].highest

\* The answer is saved, with the old highest version, before it is accepted.
AcceptPolicy(p) ==
    /\ run[p].pc = "policy"
    /\ agent.live
    /\ Acceptable(p)
    /\ highest' = run[p].highest
    /\ run' = [run EXCEPT ![p] = [pc |-> "heartbeat", highest |-> version[agent.policy],
                                  task |-> NoTask]]
    /\ UNCHANGED <<fleetVars, task, late>>

\* "policy rollback rejected" ends the cycle.
RejectPolicy(p) ==
    /\ run[p].pc = "policy"
    /\ agent.live
    /\ ~ Acceptable(p)
    /\ highest' = run[p].highest
    /\ run' = [run EXCEPT ![p] = Resting]
    /\ UNCHANGED <<fleetVars, task, late>>

Report(p) == agent' = [agent EXCEPT !.reported = run[p].highest]

Heartbeat(p) ==
    /\ run[p].pc = "heartbeat"
    /\ agent.live
    /\ Report(p)
    /\ highest' = run[p].highest
    /\ run' = [run EXCEPT ![p].pc = "next"]
    /\ UNCHANGED <<version, task, revocation, late>>

\* With a task the process scans; without one the cycle ends.
NextTask(p) ==
    /\ run[p].pc = "next"
    /\ agent.live
    /\ Dispatch(Offered)
    /\ highest' = run[p].highest
    /\ run' = [run EXCEPT ![p] = IF Offered = NoTask THEN Resting
                                 ELSE [@ EXCEPT !.pc = "scan", !.task = Offered]]
    /\ UNCHANGED <<fleetVars, late>>

Scan(p) ==
    /\ run[p].pc = "scan"
    /\ \E phase \in {"complete", "fail"} : run' = [run EXCEPT ![p].pc = phase]
    /\ UNCHANGED <<fleetVars, task, late, highest>>

OutcomeOf(p) == IF run[p].pc = "complete" THEN "completed" ELSE "failed"

\* A completion that was refused is reported once more, as a failure.
ReportOutcome(p) ==
    /\ run[p].pc \in {"complete", "fail"}
    /\ agent.live
    /\ Complete(run[p].task, OutcomeOf(p))
    /\ highest' = run[p].highest
    /\ run' = [run EXCEPT ![p] = IF run[p].pc = "complete" /\ ~ InProgress(run[p].task)
                                 THEN [@ EXCEPT !.pc = "fail"] ELSE Resting]
    /\ UNCHANGED <<fleetVars, late>>

\* After an exception a completion is followed by the report of a failure;
\* everywhere else the cycle is over.
GiveUp(p) == run' = [run EXCEPT ![p] = IF run[p].pc = "complete"
                                       THEN [@ EXCEPT !.pc = "fail"] ELSE Resting]

Refused(p) ==
    /\ run[p].pc \in {"policy", "heartbeat", "next", "complete", "fail"}
    /\ ~ agent.live
    /\ GiveUp(p)
    /\ UNCHANGED <<fleetVars, task, late, highest>>

\* The platform handles the request and the answer is lost.
LoseAnswer(p) ==
    /\ agent.live
    /\ \/ run[p].pc = "heartbeat" /\ Report(p) /\ UNCHANGED task
       \/ run[p].pc = "next" /\ Dispatch(Offered) /\ UNCHANGED agent
       \/ /\ run[p].pc \in {"complete", "fail"}
          /\ Complete(run[p].task, OutcomeOf(p))
          /\ UNCHANGED agent
    /\ GiveUp(p)
    /\ UNCHANGED <<version, revocation, late, highest>>

RequestOf(p) ==
    CASE run[p].pc = "heartbeat" -> [kind |-> "heartbeat", version |-> run[p].highest]
      [] OTHER -> [kind |-> "complete", task |-> run[p].task, outcome |-> OutcomeOf(p)]

\* The client gives up while a heartbeat or a report is on its way.  (A poll that
\* is handled later hands its task to nobody, as one whose answer is lost does.)
TimeOut(p) ==
    /\ run[p].pc \in {"heartbeat", "complete", "fail"}
    /\ Cardinality(late) < MaxLate
    /\ late' = late \union {RequestOf(p)}
    /\ GiveUp(p)
    /\ UNCHANGED <<fleetVars, task, highest>>

Crash(p) ==
    /\ run[p].pc # "idle"
    /\ run' = [run EXCEPT ![p] = Resting]
    /\ UNCHANGED <<fleetVars, task, late, highest>>

-----------------------------------------------------------------------------
Administrator ==
    \/ \E q \in Policies : PublishPolicy(q) \/ AssignPolicy(q) \/ Reenroll(q)
    \/ \E t \in Tasks : QueueAudit(t)
    \/ RevokeLocked \/ BeginRevoke \/ CommitRevoke \/ RollBackRevoke

Cycle(p) ==
    \/ BeginCycle(p) \/ AcceptPolicy(p) \/ RejectPolicy(p) \/ Heartbeat(p) \/ NextTask(p)
    \/ Scan(p) \/ ReportOutcome(p) \/ Refused(p) \/ LoseAnswer(p) \/ TimeOut(p) \/ Crash(p)

Next ==
    \/ Administrator
    \/ \E t \in Tasks : ExpireLease(t)
    \/ \E r \in late : HandleLate(r)
    \/ \E p \in Procs : Cycle(p)

Spec == Init /\ [][Next]_vars

\* The daemon repeats its cycle for ever and leases run out.  A request, a scan or
\* a report on a task that is repeated for ever succeeds again and again: no crash
\* or loss strikes every cycle at the same step.
AgentFairness(p) ==
    /\ WF_vars(BeginCycle(p) \/ RejectPolicy(p) \/ Refused(p))
    /\ SF_vars(AcceptPolicy(p)) /\ SF_vars(Heartbeat(p))
    /\ SF_vars(NextTask(p) /\ Offered = NoTask) /\ SF_vars(NextTask(p) /\ Offered # NoTask)
    /\ SF_vars(Scan(p)) /\ SF_vars(ReportOutcome(p))

FairSpec ==
    /\ Spec
    /\ \A p \in Procs : AgentFairness(p)
    /\ WF_vars(\E t \in Tasks : ExpireLease(t))

-----------------------------------------------------------------------------
(* Properties *)

\* An agent never has two open audits: an administrator who asks again, in spite
\* of lost answers, expired leases and re-enrollments, gets the one there is.
AtMostOneOpenTask == \A t, u \in OpenTasks : t = u

\* The first outcome reported for a task stands: no second process, repeated or
\* late report changes it.  Only an unlocked revocation overwrites it.
OutcomeStands ==
    [][\A t \in Tasks : task[t] \in Finished /\ task'[t] # task[t]
            => task'[t] = "cancelled" /\ t \in revocation.read]_vars

\* Crashes, lost answers and late saves never take an enrolled host back to a
\* lower policy version than it has accepted and saved.
HighestNeverFalls == [][agent.live => highest' >= highest]_vars

\* The agent is at the policy that the platform would serve, or could accept it.
Follows == version[agent.policy] >= highest

\* An audit that was queued is run and ends, unless the agent is revoked or its
\* policy is one it refuses.
EveryAuditEnds ==
    \A t \in Tasks : task[t] \in Open ~> task[t] \notin Open \/ ~ agent.live \/ ~ Follows

\* configuration_state: the platform compares version numbers only.
Synced == agent.live /\ agent.reported = version[agent.policy]

\* A policy that stays assigned, and that the agent does not refuse as a rollback,
\* is reported by the agent in the end.
PolicyReachesAgent ==
    \A q \in Policies : <>[](agent.live /\ agent.policy = q /\ Follows) => []<>Synced

\* What the console tells an administrator who assigns a policy: allow the next
\* poll, and the agent has it.
AssignedPolicyReachesAgent ==
    \A q \in Policies : <>[](agent.live /\ agent.policy = q) => []<>Synced
=============================================================================
