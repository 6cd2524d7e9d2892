-------------------------- MODULE AgentCycleProofs --------------------------
(***************************************************************************)
(* Proofs about AgentCycle, for any policies, tasks and versions.  Only    *)
(* HighestNeverFalls assumes a single agent process.                       *)
(***************************************************************************)
EXTENDS AgentCycle, TLAPS

SingleProcess == \A p, q \in Procs : p = q

-----------------------------------------------------------------------------
(* The inductive invariant *)

\* A process that asks the platform anything has a version from state.json, and
\* one that scans or reports has a task.
ProcInv ==
    \A p \in Procs :
        /\ run[p].pc # "idle" => run[p].highest \in Versions
        /\ run[p].pc \in {"scan", "complete", "fail"} => run[p].task \in Tasks

IInv == TypeOK /\ ProcInv /\ AtMostOneOpenTask

-----------------------------------------------------------------------------
(* The operators on tasks *)

\* While at most one task is open, the task that is offered is available.
LEMMA OfferedIsAvailable ==
    ASSUME TypeOK, AtMostOneOpenTask
    PROVE  Offered = NoTask \/ (Offered \in Tasks /\ Available(Offered))
<1>1. CASE \E t \in Tasks : Available(t)
  <2>1. PICK t \in Tasks : Available(t)
    BY <1>1
  <2>2. \A u \in Tasks : Available(u) => u = t
    BY <2>1 DEF Available, AtMostOneOpenTask, OpenTasks, Open
  <2>3. t <= t
    BY DEF Tasks
  <2>4. \E v \in Tasks : Available(v) /\ \A u \in Tasks : Available(u) => v <= u
    BY <2>1, <2>2, <2>3
  <2>5. QED
    BY <1>1, <2>4 DEF Offered
<1>2. CASE ~ \E t \in Tasks : Available(t)
  BY <1>2 DEF Offered
<1>3. QED
  BY <1>1, <1>2

\* Handing out the offered task leaves every other task alone, and it stays open.
LEMMA DispatchStep ==
    ASSUME TypeOK, AtMostOneOpenTask, Dispatch(Offered)
    PROVE  /\ task' \in [Tasks -> Statuses]
           /\ \A t \in Tasks : task'[t] = task[t] \/ (Available(t) /\ task'[t] = "dispatched")
<1>1. CASE Offered = NoTask
  BY <1>1 DEF Dispatch, TypeOK
<1>2. CASE Offered \in Tasks /\ Available(Offered)
  <2>1. Offered # NoTask
    BY <1>2 DEF Tasks, NoTask
  <2>2. task' = [task EXCEPT ![Offered] = "dispatched"]
    BY <2>1 DEF Dispatch
  <2>3. QED
    BY <1>2, <2>2 DEF TypeOK, Statuses, Open
<1>3. QED
  BY <1>1, <1>2, OfferedIsAvailable

\* A report changes a task in progress only.
LEMMA CompleteStep ==
    ASSUME TypeOK, NEW u \in Tasks, NEW outcome \in Finished, Complete(u, outcome)
    PROVE  /\ task' \in [Tasks -> Statuses]
           /\ \A t \in Tasks : task'[t] = task[t] \/ (InProgress(t) /\ task'[t] = outcome)
BY DEF TypeOK, Complete, InProgress, Statuses, Finished

\* Cancelling changes nothing but the given tasks.
LEMMA CancelStep ==
    ASSUME TypeOK, NEW S \in SUBSET Tasks, Cancel(S)
    PROVE  /\ task' \in [Tasks -> Statuses]
           /\ \A t \in Tasks : task'[t] = task[t] \/ (t \in S /\ task'[t] = "cancelled")
BY DEF TypeOK, Cancel, Statuses

-----------------------------------------------------------------------------
(* What a step does to the tasks *)

\* The ways in which a step that queues nothing may change the status of a task.
Moves(t) ==
    \/ task'[t] = task[t]
    \/ task[t] \in Open /\ task'[t] \in {"dispatched", "overdue", "cancelled"} \union Finished
    \/ t \in revocation.read /\ task'[t] = "cancelled"

\* The types of late requests, of outcomes, and of what a transaction has read.
LEMMA Parts ==
    ASSUME TypeOK
    PROVE  /\ \A r \in late : r.kind = "heartbeat" => r.version \in Versions
           /\ \A r \in late : r.kind = "complete" => r.task \in Tasks /\ r.outcome \in Finished
           /\ \A p \in Procs : OutcomeOf(p) \in Finished
           /\ revocation.read \in SUBSET Tasks
           /\ OpenTasks \in SUBSET Tasks
BY DEF TypeOK, Heartbeats, Completions, OutcomeOf, Finished, OpenTasks

\* An administrator queues one task when none is open, or closes tasks.
LEMMA AdministratorTasks ==
    ASSUME IInv, Administrator
    PROVE  /\ task' \in [Tasks -> Statuses]
           /\ (\E t \in Tasks : QueueAudit(t)) \/ (\A t \in Tasks : Moves(t))
<1>1. ASSUME NEW q \in Policies, PublishPolicy(q) \/ AssignPolicy(q) \/ Reenroll(q)
      PROVE  task' = task
  BY <1>1 DEF PublishPolicy, AssignPolicy, Reenroll
<1>2. ASSUME NEW t \in Tasks, QueueAudit(t)
      PROVE  task' \in [Tasks -> Statuses]
  BY <1>2 DEF QueueAudit, IInv, TypeOK, Statuses, Open
<1>3. ASSUME RevokeLocked
      PROVE  task' \in [Tasks -> Statuses] /\ \A t \in Tasks : Moves(t)
  <2>1. Cancel(OpenTasks)
    BY <1>3 DEF RevokeLocked
  <2>2. QED
    BY <2>1, Parts, CancelStep DEF IInv, Moves, OpenTasks
<1>4. ASSUME BeginRevoke \/ RollBackRevoke
      PROVE  task' = task
  BY <1>4 DEF BeginRevoke, RollBackRevoke
<1>5. ASSUME CommitRevoke
      PROVE  task' \in [Tasks -> Statuses] /\ \A t \in Tasks : Moves(t)
  <2>1. Cancel(revocation.read)
    BY <1>5 DEF CommitRevoke
  <2>2. QED
    BY <2>1, Parts, CancelStep DEF IInv, Moves
<1>6. QED
  BY <1>1, <1>2, <1>3, <1>4, <1>5 DEF Administrator, Moves, IInv, TypeOK

\* A request of the agent, answered or not, gives out or closes an open task.
LEMMA RequestTasks ==
    ASSUME IInv, NEW p \in Procs, Cycle(p)
    PROVE  task' \in [Tasks -> Statuses] /\ \A t \in Tasks : Moves(t)
<1> USE DEF IInv
<1>1. ASSUME Dispatch(Offered)
      PROVE  task' \in [Tasks -> Statuses] /\ \A t \in Tasks : Moves(t)
  BY <1>1, DispatchStep DEF Moves, Available, Open
<1>2. ASSUME Complete(run[p].task, OutcomeOf(p)), run[p].pc \in {"complete", "fail"}
      PROVE  task' \in [Tasks -> Statuses] /\ \A t \in Tasks : Moves(t)
  <2>1. run[p].task \in Tasks /\ OutcomeOf(p) \in Finished
    BY <1>2, Parts DEF ProcInv
  <2>2. QED
    BY <1>2, <2>1, CompleteStep DEF Moves, InProgress, Open
<1>3. ASSUME task' = task
      PROVE  task' \in [Tasks -> Statuses] /\ \A t \in Tasks : Moves(t)
  BY <1>3 DEF Moves, TypeOK
<1>4. CASE NextTask(p)
  BY <1>1, <1>4 DEF NextTask
<1>5. CASE ReportOutcome(p)
  BY <1>2, <1>5 DEF ReportOutcome
<1>6. CASE LoseAnswer(p)
  BY <1>1, <1>2, <1>3, <1>6 DEF LoseAnswer
<1>7. CASE \/ BeginCycle(p) \/ AcceptPolicy(p) \/ RejectPolicy(p) \/ Heartbeat(p)
           \/ Scan(p) \/ Refused(p) \/ TimeOut(p) \/ Crash(p)
  BY <1>3, <1>7 DEF BeginCycle, AcceptPolicy, RejectPolicy, Heartbeat, Scan, Refused, TimeOut,
                    Crash
<1>8. QED
  BY <1>4, <1>5, <1>6, <1>7 DEF Cycle

\* Every step queues a task for an agent without an open one, or moves tasks.
LEMMA TasksStep ==
    ASSUME IInv, [Next]_vars
    PROVE  /\ task' \in [Tasks -> Statuses]
           /\ (\E t \in Tasks : QueueAudit(t)) \/ (\A t \in Tasks : Moves(t))
<1>1. CASE UNCHANGED vars
  BY <1>1 DEF vars, Moves, IInv, TypeOK
<1>2. ASSUME NEW t \in Tasks, ExpireLease(t)
      PROVE  task' \in [Tasks -> Statuses] /\ \A u \in Tasks : Moves(u)
  BY <1>2 DEF ExpireLease, Moves, IInv, TypeOK, Statuses, Open
<1>3. ASSUME NEW r \in late, HandleLate(r)
      PROVE  task' \in [Tasks -> Statuses] /\ \A u \in Tasks : Moves(u)
  <2>1. CASE task' = task
    BY <2>1 DEF Moves, IInv, TypeOK
  <2>2. CASE r.kind = "complete" /\ Complete(r.task, r.outcome)
    <3>1. r.task \in Tasks /\ r.outcome \in Finished
      BY <2>2, Parts DEF IInv
    <3>2. QED
      BY <2>2, <3>1, CompleteStep DEF IInv, Moves, InProgress, Open
  <2>3. QED
    BY <1>3, <2>1, <2>2 DEF HandleLate
<1>4. QED
  BY <1>1, <1>2, <1>3, AdministratorTasks, RequestTasks DEF Next

-----------------------------------------------------------------------------
(* Types *)

\* A process keeps a version, and a task while it has one to report.
RunTyped(r) ==
    /\ r \in Process
    /\ r.pc # "idle" => r.highest \in Versions
    /\ r.pc \in {"scan", "complete", "fail"} => r.task \in Tasks

HostTyped ==
    /\ highest \in Versions
    /\ run \in [Procs -> Process]
    /\ \A p \in Procs : RunTyped(run[p])

FleetTyped ==
    /\ agent \in [live : BOOLEAN, policy : Policies, reported : Versions \union {NotReported}]
    /\ version \in [Policies -> Versions]
    /\ revocation \in [open : BOOLEAN, read : SUBSET Tasks]
    /\ late \subseteq Heartbeats \union Completions

\* The conjuncts of the invariant, grouped by who keeps them.
LEMMA Grouping ==
    /\ TypeOK /\ ProcInv <=> FleetTyped /\ HostTyped /\ task \in [Tasks -> Statuses]
    /\ (TypeOK /\ ProcInv <=> FleetTyped /\ HostTyped /\ task \in [Tasks -> Statuses])'
BY DEF TypeOK, ProcInv, FleetTyped, HostTyped, RunTyped

\* A process that rests is typed, and so is one that gives up.
LEMMA RestingTyped ==
    /\ RunTyped(Resting)
    /\ \A p \in Procs : HostTyped /\ GiveUp(p) /\ highest' = highest => HostTyped'
<1>1. RunTyped(Resting)
  BY DEF RunTyped, Resting, Process, Phases, NoTask
<1>2. ASSUME NEW p \in Procs, HostTyped, GiveUp(p), highest' = highest PROVE HostTyped'
  <2>1. CASE run[p].pc = "complete"
    BY <1>2, <2>1 DEF HostTyped, GiveUp, RunTyped, Process, Phases
  <2>2. CASE run[p].pc # "complete"
    BY <1>1, <1>2, <2>2 DEF HostTyped, GiveUp, RunTyped
  <2>3. QED
    BY <2>1, <2>2
<1>3. QED
  BY <1>1, <1>2

\* What one process does leaves the host typed.
LEMMA HostStep ==
    ASSUME IInv, HostTyped, NEW p \in Procs, Cycle(p)
    PROVE  HostTyped'
<1> USE DEF HostTyped
<1>1. CASE BeginCycle(p)
  BY <1>1 DEF BeginCycle, RunTyped, Process, Phases, Versions, NoTask
<1>2. CASE AcceptPolicy(p)
  <2>1. version[agent.policy] \in Versions
    BY DEF IInv, TypeOK
  <2>2. QED
    BY <1>2, <2>1 DEF AcceptPolicy, RunTyped, Process, Phases
<1>3. CASE RejectPolicy(p)
  BY <1>3, RestingTyped DEF RejectPolicy, RunTyped
<1>4. CASE Heartbeat(p)
  BY <1>4 DEF Heartbeat, RunTyped, Process, Phases
<1>5. CASE NextTask(p)
  <2>1. highest' \in Versions
    BY <1>5 DEF NextTask, RunTyped
  <2>2. CASE Offered = NoTask
    BY <1>5, <2>1, <2>2, RestingTyped DEF NextTask, RunTyped
  <2>3. CASE Offered \in Tasks /\ Offered # NoTask
    BY <1>5, <2>1, <2>3 DEF NextTask, RunTyped, Process, Phases
  <2>4. QED
    BY <2>2, <2>3, OfferedIsAvailable DEF IInv
<1>6. CASE Scan(p)
  BY <1>6 DEF Scan, RunTyped, Process, Phases
<1>7. CASE ReportOutcome(p)
  <2>1. highest' \in Versions
    BY <1>7 DEF ReportOutcome, RunTyped
  <2>2. CASE run[p].pc = "complete" /\ ~ InProgress(run[p].task)
    BY <1>7, <2>1, <2>2 DEF ReportOutcome, RunTyped, Process, Phases
  <2>3. CASE ~ (run[p].pc = "complete" /\ ~ InProgress(run[p].task))
    BY <1>7, <2>1, <2>3, RestingTyped DEF ReportOutcome, RunTyped
  <2>4. QED
    BY <2>2, <2>3
<1>8. CASE Refused(p) \/ LoseAnswer(p) \/ TimeOut(p)
  BY <1>8, RestingTyped DEF Refused, LoseAnswer, TimeOut
<1>9. CASE Crash(p)
  BY <1>9, RestingTyped DEF Crash, RunTyped
<1>10. QED
  BY <1>1, <1>2, <1>3, <1>4, <1>5, <1>6, <1>7, <1>8, <1>9 DEF Cycle

\* What one process does leaves the platform's rows and the late requests typed.
LEMMA FleetStep ==
    ASSUME IInv, FleetTyped, HostTyped, NEW p \in Procs, Cycle(p)
    PROVE  FleetTyped'
<1> USE DEF FleetTyped
<1>1. ASSUME Report(p), run[p].pc = "heartbeat"
      PROVE  agent' \in [live : BOOLEAN, policy : Policies,
                         reported : Versions \union {NotReported}]
  BY <1>1 DEF Report, HostTyped, RunTyped
<1>2. CASE TimeOut(p)
  <2>1. RequestOf(p) \in Heartbeats \union Completions
    <3>1. CASE run[p].pc = "heartbeat"
      BY <3>1 DEF RequestOf, HostTyped, RunTyped, Heartbeats
    <3>2. CASE run[p].pc \in {"complete", "fail"}
      BY <3>2, Parts DEF RequestOf, HostTyped, RunTyped, Completions, IInv
    <3>3. QED
      BY <1>2, <3>1, <3>2 DEF TimeOut
  <2>2. QED
    BY <1>2, <2>1 DEF TimeOut, fleetVars
<1>3. CASE Heartbeat(p)
  BY <1>1, <1>3 DEF Heartbeat
<1>4. CASE LoseAnswer(p)
  BY <1>1, <1>4 DEF LoseAnswer
<1>5. CASE \/ BeginCycle(p) \/ AcceptPolicy(p) \/ RejectPolicy(p) \/ NextTask(p)
           \/ Scan(p) \/ ReportOutcome(p) \/ Refused(p) \/ Crash(p)
  BY <1>5 DEF BeginCycle, AcceptPolicy, RejectPolicy, NextTask, Scan, ReportOutcome, Refused,
              Crash, fleetVars
<1>6. QED
  BY <1>2, <1>3, <1>4, <1>5 DEF Cycle

\* What anybody else does leaves everything typed.
LEMMA OthersTyped ==
    ASSUME IInv, FleetTyped, HostTyped,
           \/ Administrator
           \/ \E t \in Tasks : ExpireLease(t)
           \/ \E r \in late : HandleLate(r)
    PROVE  FleetTyped' /\ HostTyped'
<1>1. ASSUME NEW q \in Policies, PublishPolicy(q) PROVE FleetTyped' /\ HostTyped'
  <2>1. version' = [version EXCEPT ![q] = version[q] + 1] /\ version[q] < MaxVersion
    BY <1>1 DEF PublishPolicy
  <2>2. version' \in [Policies -> Versions]
    BY <2>1, CycleConstants DEF FleetTyped, Versions
  <2>3. QED
    BY <1>1, <2>2 DEF PublishPolicy, hostVars, FleetTyped, HostTyped, RunTyped
<1>2. ASSUME NEW q \in Policies, AssignPolicy(q) PROVE FleetTyped' /\ HostTyped'
  BY <1>2 DEF AssignPolicy, hostVars, FleetTyped, HostTyped, RunTyped
<1>3. ASSUME NEW q \in Policies, Reenroll(q) PROVE FleetTyped' /\ HostTyped'
  BY <1>3 DEF Reenroll, FleetTyped, HostTyped, RunTyped
<1>4. ASSUME NEW t \in Tasks, QueueAudit(t) \/ ExpireLease(t) PROVE FleetTyped' /\ HostTyped'
  BY <1>4 DEF QueueAudit, ExpireLease, fleetVars, hostVars, FleetTyped, HostTyped, RunTyped
<1>5. CASE RevokeLocked \/ BeginRevoke \/ CommitRevoke \/ RollBackRevoke
  <2>1. HostTyped'
    BY <1>5 DEF RevokeLocked, BeginRevoke, CommitRevoke, RollBackRevoke, hostVars, HostTyped,
                RunTyped
  <2>2. agent' \in [live : BOOLEAN, policy : Policies,
                    reported : Versions \union {NotReported}]
    BY <1>5 DEF RevokeLocked, BeginRevoke, CommitRevoke, RollBackRevoke, FleetTyped
  <2>3. OpenTasks \in SUBSET Tasks
    BY Parts DEF IInv
  <2>4. revocation' \in [open : BOOLEAN, read : SUBSET Tasks]
    <3>1. NoRevocation \in [open : BOOLEAN, read : SUBSET Tasks]
      BY DEF NoRevocation
    <3>2. [open |-> TRUE, read |-> OpenTasks] \in [open : BOOLEAN, read : SUBSET Tasks]
      BY <2>3
    <3>3. revocation' \in {revocation, NoRevocation, [open |-> TRUE, read |-> OpenTasks]}
      BY <1>5 DEF RevokeLocked, BeginRevoke, CommitRevoke, RollBackRevoke
    <3>4. QED
      BY <3>1, <3>2, <3>3 DEF FleetTyped
  <2>5. QED
    BY <1>5, <2>1, <2>2, <2>4 DEF RevokeLocked, BeginRevoke, CommitRevoke, RollBackRevoke,
                                  FleetTyped
<1>6. ASSUME NEW r \in late, HandleLate(r) PROVE FleetTyped' /\ HostTyped'
  <2>1. HostTyped'
    BY <1>6 DEF HandleLate, hostVars, HostTyped, RunTyped
  <2>2. agent' \in [live : BOOLEAN, policy : Policies,
                    reported : Versions \union {NotReported}]
    BY <1>6, Parts DEF HandleLate, FleetTyped, IInv
  <2>3. QED
    BY <1>6, <2>1, <2>2 DEF HandleLate, FleetTyped
<1>7. QED
  BY <1>1, <1>2, <1>3, <1>4, <1>5, <1>6 DEF Administrator

-----------------------------------------------------------------------------
(* The invariant *)

\* A newly enrolled agent satisfies the invariant.
LEMMA InvInit == Init => IInv
<1> SUFFICES ASSUME Init PROVE IInv
  OBVIOUS
<1>1. 1 \in Versions
  BY CycleConstants DEF Versions
<1>2. FleetTyped
  BY <1>1 DEF Init, FleetTyped, NoRevocation
<1>3. HostTyped
  BY <1>1, RestingTyped DEF Init, HostTyped, RunTyped
<1>4. task \in [Tasks -> Statuses] /\ AtMostOneOpenTask
  BY DEF Init, Statuses, Open, AtMostOneOpenTask, OpenTasks
<1>5. QED
  BY <1>2, <1>3, <1>4, Grouping DEF IInv

\* A task is open after a step only if it was open before, or is the one queued.
LEMMA OneOpenTaskStep == IInv /\ [Next]_vars => AtMostOneOpenTask'
<1> SUFFICES ASSUME IInv, [Next]_vars PROVE AtMostOneOpenTask'
  OBVIOUS
<1>1. CASE \E t \in Tasks : QueueAudit(t)
  <2>1. PICK t \in Tasks : QueueAudit(t)
    BY <1>1
  <2>2. \A u \in Tasks : u # t => task'[u] \notin Open
    BY <2>1 DEF QueueAudit, NoOpenTask, OpenTasks, IInv, TypeOK
  <2>3. QED
    BY <2>2 DEF AtMostOneOpenTask, OpenTasks
<1>2. CASE \A t \in Tasks : Moves(t)
  <2>1. \A t \in Tasks : task'[t] \in Open => task[t] \in Open
    BY <1>2 DEF Moves, Open, Finished
  <2>2. QED
    BY <2>1 DEF IInv, AtMostOneOpenTask, OpenTasks
<1>3. QED
  BY <1>1, <1>2, TasksStep

\* Every step keeps the invariant.
LEMMA InvStep == IInv /\ [Next]_vars => IInv'
<1> SUFFICES ASSUME IInv, [Next]_vars PROVE IInv'
  OBVIOUS
<1>1. FleetTyped /\ HostTyped
  BY Grouping DEF IInv
<1>2. FleetTyped' /\ HostTyped'
  <2>1. CASE UNCHANGED vars
    BY <1>1, <2>1 DEF vars, FleetTyped, HostTyped, RunTyped
  <2>2. ASSUME NEW p \in Procs, Cycle(p) PROVE FleetTyped' /\ HostTyped'
    BY <1>1, <2>2, FleetStep, HostStep
  <2>3. QED
    BY <1>1, <2>1, <2>2, OthersTyped DEF Next
<1>3. task' \in [Tasks -> Statuses]
  BY TasksStep
<1>4. QED
  BY <1>2, <1>3, Grouping, OneOpenTaskStep DEF IInv

\* The invariant holds in every reachable state.
LEMMA Invariant == Spec => []IInv
<1>1. QED
  BY InvInit, InvStep, PTL DEF Spec

-----------------------------------------------------------------------------
(* The theorems *)

\* Every reachable state is well typed.
THEOREM TypeCorrect == Spec => []TypeOK
<1>1. IInv => TypeOK
  BY DEF IInv
<1>2. QED
  BY <1>1, Invariant, PTL

\* However requests, leases, losses, revocations and re-enrollments interleave, an
\* agent never has two open audits.
THEOREM AuditsDoNotOverlap == Spec => []AtMostOneOpenTask
<1>1. IInv => AtMostOneOpenTask
  BY DEF IInv
<1>2. QED
  BY <1>1, Invariant, PTL

\* The outcome recorded first is kept, whatever processes, repetitions and late
\* requests report; only a revocation that read the task as open overwrites it.
THEOREM FirstOutcomeStands == Spec => OutcomeStands
<1>1. ASSUME IInv, [Next]_vars, NEW t \in Tasks, task[t] \in Finished, task'[t] # task[t]
      PROVE  task'[t] = "cancelled" /\ t \in revocation.read
  <2>1. task[t] \notin Open /\ task[t] # "none"
    BY <1>1 DEF Open, Finished
  <2>2. ASSUME NEW u \in Tasks, QueueAudit(u) PROVE u = t
    BY <1>1, <2>2 DEF QueueAudit, IInv, TypeOK
  <2>3. ~ \E u \in Tasks : QueueAudit(u)
    BY <2>1, <2>2 DEF QueueAudit
  <2>4. Moves(t)
    BY <1>1, <2>3, TasksStep
  <2>5. QED
    BY <1>1, <2>1, <2>4 DEF Moves
<1>2. IInv /\ [Next]_vars =>
          [\A t \in Tasks : task[t] \in Finished /\ task'[t] # task[t]
               => task'[t] = "cancelled" /\ t \in revocation.read]_vars
  BY <1>1
<1>3. QED
  BY <1>2, Invariant, PTL DEF OutcomeStands, Spec

-----------------------------------------------------------------------------
(* The highest accepted version *)

\* A process in its cycle is never behind state.json.
Ahead == \A p \in Procs : run[p].pc # "idle" => run[p].highest >= highest

\* With one process, every save is of what it read, or of what it accepted since.
LEMMA AheadStep ==
    ASSUME SingleProcess, IInv, Ahead, [Next]_vars
    PROVE  Ahead' /\ (agent.live => highest' >= highest)
<1>1. FleetTyped /\ HostTyped
  BY Grouping DEF IInv
<1>2. highest \in Nat /\ version[agent.policy] \in Nat
  BY <1>1 DEF HostTyped, FleetTyped, Versions
<1>3. \A p \in Procs : run[p].pc # "idle" => run[p].highest \in Nat
  BY <1>1 DEF HostTyped, RunTyped, Versions
<1>4. ASSUME NEW p \in Procs, Cycle(p) PROVE Ahead' /\ highest' >= highest
  <2>1. \A q \in Procs : q = p
    BY DEF SingleProcess
  <2>2. run \in [Procs -> Process]
    BY <1>1 DEF HostTyped
  <2>3. CASE AcceptPolicy(p)
    BY <1>2, <1>3, <2>1, <2>2, <2>3 DEF AcceptPolicy, Acceptable, Ahead, Process
  <2>4. CASE BeginCycle(p)
    BY <1>2, <2>1, <2>2, <2>4 DEF BeginCycle, Ahead
  <2>5. CASE RejectPolicy(p) \/ Crash(p)
    BY <1>2, <1>3, <2>1, <2>2, <2>5 DEF RejectPolicy, Crash, Ahead, Resting
  <2>6. CASE Heartbeat(p) \/ Scan(p)
    BY <1>2, <1>3, <2>1, <2>2, <2>6 DEF Heartbeat, Scan, Ahead, Process
  <2>7. CASE NextTask(p)
    BY <1>2, <1>3, <2>1, <2>2, <2>7 DEF NextTask, Ahead, Resting, Process
  <2>8. CASE ReportOutcome(p)
    BY <1>2, <1>3, <2>1, <2>2, <2>8 DEF ReportOutcome, Ahead, Resting, Process
  <2>9. CASE Refused(p) \/ LoseAnswer(p) \/ TimeOut(p)
    BY <1>2, <1>3, <2>1, <2>2, <2>9 DEF Refused, LoseAnswer, TimeOut, GiveUp, Ahead, Resting,
                                        Process
  <2>10. QED
    BY <2>3, <2>4, <2>5, <2>6, <2>7, <2>8, <2>9, <1>4 DEF Cycle
<1>5. ASSUME NEW q \in Policies, Reenroll(q) PROVE Ahead' /\ ~ agent.live
  BY <1>5 DEF Reenroll, Ahead, Resting
<1>6. ASSUME run' = run, highest' = highest PROVE Ahead' /\ highest' >= highest
  BY <1>2, <1>6 DEF Ahead
<1>7. ASSUME NEW q \in Policies, PublishPolicy(q) \/ AssignPolicy(q)
      PROVE  run' = run /\ highest' = highest
  BY <1>7 DEF PublishPolicy, AssignPolicy, hostVars
<1>8. ASSUME NEW t \in Tasks, QueueAudit(t) \/ ExpireLease(t)
      PROVE  run' = run /\ highest' = highest
  BY <1>8 DEF QueueAudit, ExpireLease, hostVars
<1>9. ASSUME RevokeLocked \/ BeginRevoke \/ CommitRevoke \/ RollBackRevoke
      PROVE  run' = run /\ highest' = highest
  BY <1>9 DEF RevokeLocked, BeginRevoke, CommitRevoke, RollBackRevoke, hostVars
<1>10. ASSUME NEW r \in late, HandleLate(r) PROVE run' = run /\ highest' = highest
  BY <1>10 DEF HandleLate, hostVars
<1>11. CASE UNCHANGED vars
  BY <1>6, <1>11 DEF vars
<1>12. QED
  BY <1>4, <1>5, <1>6, <1>7, <1>8, <1>9, <1>10, <1>11 DEF Next, Administrator

\* An enrolled host with one agent process never falls back to a lower policy
\* version, whatever crashes and lost answers interrupt its cycles.
THEOREM PolicyIsNotRolledBack == ASSUME SingleProcess PROVE Spec => HighestNeverFalls
<1>1. Init => Ahead
  BY DEF Init, Ahead, Resting
<1>2. IInv /\ Ahead /\ [Next]_vars => Ahead' /\ [agent.live => highest' >= highest]_vars
  BY AheadStep
<1>3. QED
  BY <1>1, <1>2, Invariant, PTL DEF HighestNeverFalls, Spec
=============================================================================
