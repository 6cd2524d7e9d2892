----------------------------- MODULE ChangeSets -----------------------------
(***************************************************************************)
(* Governance of remediation: a plan for a finding is requested, approved, *)
(* rejected or canceled; approved plans are compiled into a change set; an *)
(* independent administrator authorises it once its readiness gates pass.  *)
(*                                                                         *)
(* The transactions run under READ COMMITTED, so a handler that reads and  *)
(* then writes is split at the points where another one can commit.  Row   *)
(* locks (SELECT ... FOR UPDATE) are modelled by the requests that hold    *)
(* them.  Nothing here is scheduled: an administrator may stop at any step *)
(* that is not inside a request.                                           *)
(*                                                                         *)
(* Each report of a host carries an open finding of every control, with a  *)
(* reviewed action; the numeric limits of a policy on targets, canaries    *)
(* and batches enter as part of the assignment that permits remediation.   *)
(***************************************************************************)
EXTENDS Naturals, FiniteSets

CONSTANTS
    Admins,         \* users with the administrator role
    Hosts,          \* managed hosts, each with its LinuxAgent row
    Controls,       \* controls a host fails, each with a reviewed action
    Assignments,    \* what an agent can be served: group, policy and its newest version
    Remediating,    \* the assignments whose mode is "remediate" under four-eyes
    MaxReports,     \* bound: reports accepted from a host
    MaxPlans,       \* bound: plans ever requested
    MaxSets,        \* bound: change sets ever requested
    NoAdmin

ASSUME GovernanceConstants ==
    /\ MaxReports \in Nat \ {0}
    /\ MaxPlans \in Nat \ {0}
    /\ MaxSets \in Nat \ {0}
    /\ Remediating \subseteq Assignments
    /\ NoAdmin \notin Admins

VARIABLES
    latest,     \* newest report of each host, and whether it is young enough
    agent,      \* the target agent: "attested" recently, "silent", or "revoked"
    assigned,   \* the assignment of each host's agent
    plans,      \* remediation_plans
    sets,       \* remediation_change_sets with their plan and target links
    keys,       \* platform_change_signing_keys, named by the set that created one
    request     \* the request each administrator has open

vars == <<latest, agent, assigned, plans, sets, keys, request>>
fleetVars == <<latest, agent, assigned>>

-----------------------------------------------------------------------------
Plans   == 1..MaxPlans
Sets    == 1..MaxSets
Reports == 1..MaxReports
NoSet   == 0

AdminOrNone == Admins \union {NoAdmin}
Findings    == Hosts \X Controls \X Reports
HostOf(f)   == f[1]
ReportOf(f) == f[3]

ActivePlan == {"pending_approval", "approved"}
PlanStatus == ActivePlan \union {"none", "rejected", "canceled"}
ActiveSet  == {"pending_authorization", "authorized"}
SetStatus  == ActiveSet \union {"none", "canceled"}

\* "holds" is active_finding_id, a unique column, being set.  Who requested a plan is
\* recorded for the audit log only.
Plan    == [status : PlanStatus, finding : Findings \union {<<>>}, holds : BOOLEAN,
            approver : AdminOrNone]
NewPlan == [status |-> "none", finding |-> <<>>, holds |-> FALSE, approver |-> NoAdmin]

\* "plans" and "targets" are the canonical payload that is digested and signed.
Targets   == UNION {[H -> Assignments] : H \in SUBSET Hosts}
Snapshots == UNION {[S -> Findings \X Admins] : S \in SUBSET Plans}
ChangeSet == [status : SetStatus, plans : Snapshots, targets : Targets, begun : BOOLEAN,
              requester : AdminOrNone, authorizer : AdminOrNone, key : Sets \union {NoSet}]
NewSet    == [status |-> "none", plans |-> <<>>, targets |-> <<>>, begun |-> FALSE,
              requester |-> NoAdmin, authorizer |-> NoAdmin, key |-> NoSet]

\* A request between two of its statements: a plan whose duplicate check is done; a
\* change set whose plans are being locked ("plans" still to lock, "held" locked), or
\* whose checks are done; an authorisation that has read plans and agents, or all.
Operations == {"none", "plan", "lock", "insert", "gates", "sign"}
Request == [op : Operations, finding : Findings \union {<<>>}, plans : SUBSET Plans,
            held : SUBSET Plans, targets : Targets, set : Sets \union {NoSet},
            key : Sets \union {NoSet}]
Idle    == [op |-> "none", finding |-> <<>>, plans |-> {}, held |-> {},
            targets |-> <<>>, set |-> NoSet, key |-> NoSet]

TypeOK ==
    /\ latest \in [Hosts -> [report : Reports, young : BOOLEAN]]
    /\ agent \in [Hosts -> {"attested", "silent", "revoked"}]
    /\ assigned \in [Hosts -> Assignments]
    /\ plans \in [Plans -> Plan]
    /\ sets \in [Sets -> ChangeSet]
    /\ keys \subseteq Sets
    /\ request \in [Admins -> Request]

\* A fleet that has reported once, its agents running.
Init ==
    /\ latest = [h \in Hosts |-> [report |-> 1, young |-> TRUE]]
    /\ agent = [h \in Hosts |-> "attested"]
    /\ assigned \in [Hosts -> Remediating]
    /\ plans = [p \in Plans |-> NewPlan]
    /\ sets = [c \in Sets |-> NewSet]
    /\ keys = {}
    /\ request = [u \in Admins |-> Idle]

-----------------------------------------------------------------------------
(* Plans *)

Latest(f) == latest[HostOf(f)].report = ReportOf(f)
NextPlan(p) == plans[p].status = "none" /\ \A q \in Plans : q < p => plans[q].status # "none"

\* FOR UPDATE on a plan waits for the change set request that holds it.
Held(p) == \E u \in Admins : p \in request[u].held

\* The duplicate check of create_remediation_plan, and the flush that follows it.
BeginPlan(u, f) ==
    /\ request[u] = Idle
    /\ Latest(f)
    /\ ~ \E p \in Plans : plans[p].status \in ActivePlan /\ plans[p].finding = f
    /\ request' = [request EXCEPT ![u] = [Idle EXCEPT !.op = "plan", !.finding = f]]
    /\ UNCHANGED <<fleetVars, plans, sets, keys>>

Taken(f) == \E p \in Plans : plans[p].holds /\ plans[p].finding = f

\* Mutant: active_finding_id is not unique.
NeverTaken(f) == FALSE

\* The unique index on active_finding_id decides; a refusal rolls back.
UniqueTaken(f) == Taken(f)

CommitPlan(u, p) ==
    LET f == request[u].finding IN
    /\ request[u].op = "plan"
    /\ NextPlan(p)
    /\ ~ UniqueTaken(f)
    /\ plans' = [plans EXCEPT ![p] = [NewPlan EXCEPT !.status = "pending_approval",
                                                    !.finding = f, !.holds = TRUE]]
    /\ request' = [request EXCEPT ![u] = Idle]
    /\ UNCHANGED <<fleetVars, sets, keys>>

RefusePlan(u) ==
    /\ request[u].op = "plan"
    /\ UniqueTaken(request[u].finding)
    /\ request' = [request EXCEPT ![u] = Idle]
    /\ UNCHANGED <<fleetVars, plans, sets, keys>>

\* The requester may approve: four-eyes is a matter of the change set.
Approve(u, p) ==
    /\ request[u] = Idle
    /\ ~ Held(p)
    /\ plans[p].status = "pending_approval"
    /\ Latest(plans[p].finding)
    /\ plans' = [plans EXCEPT ![p].status = "approved", ![p].approver = u]
    /\ UNCHANGED <<fleetVars, sets, keys, request>>

\* Mutant: a plan may be rejected after its approval.
RejectActive(p) == plans[p].status \in ActivePlan

Rejectable(p) == plans[p].status = "pending_approval"

Reject(u, p) ==
    /\ request[u] = Idle
    /\ ~ Held(p)
    /\ Rejectable(p)
    /\ plans' = [plans EXCEPT ![p].status = "rejected", ![p].holds = FALSE]
    /\ UNCHANGED <<fleetVars, sets, keys, request>>

\* A change set the plan belongs to is neither looked at nor changed.
CancelPlan(u, p) ==
    /\ request[u] = Idle
    /\ ~ Held(p)
    /\ plans[p].status \in ActivePlan
    /\ plans' = [plans EXCEPT ![p].status = "canceled", ![p].holds = FALSE]
    /\ UNCHANGED <<fleetVars, sets, keys, request>>

-----------------------------------------------------------------------------
(* Compiling a change set *)

NextSet(c) == sets[c].status = "none" /\ \A d \in Sets : d < c => sets[d].status # "none"
HostsOf(S) == {HostOf(plans[p].finding) : p \in S}

\* The console offers approved plans; the handler reads them again once they are locked.
BeginCompile(u, S) ==
    /\ request[u] = Idle
    /\ S # {}
    /\ \A p \in S : plans[p].status = "approved"
    /\ request' = [request EXCEPT ![u] = [Idle EXCEPT !.op = "lock", !.plans = S]]
    /\ UNCHANGED <<fleetVars, plans, sets, keys>>

\* Mutant: the rows are locked in any order.
AnyPlanOf(S, p) == p \in S

\* SELECT ... ORDER BY id FOR UPDATE locks the rows one after the other.
FirstOf(S, p) == p \in S /\ \A q \in S : p <= q

\* Mutant: the plans are read without a lock.
HeldByNobody(p) == FALSE

HeldByAnother(p) == Held(p)

LockPlan(u, p) ==
    /\ request[u].op = "lock"
    /\ FirstOf(request[u].plans, p)
    /\ ~ HeldByAnother(p)
    /\ request' = [request EXCEPT ![u].plans = @ \ {p}, ![u].held = @ \union {p}]
    /\ UNCHANGED <<fleetVars, plans, sets, keys>>

InActiveSet(p) == \E c \in Sets : sets[c].status \in ActiveSet /\ p \in DOMAIN sets[c].plans

\* Mutant: what the console offered is not read again under the locks.
OfferedOnce(S) ==
    /\ \A p \in S : ~ InActiveSet(p)
    /\ \A h \in HostsOf(S) : agent[h] # "revoked"

Compilable(S) ==
    /\ \A p \in S : plans[p].status = "approved" /\ ~ InActiveSet(p)
    /\ \A h \in HostsOf(S) : agent[h] # "revoked"

\* All rows are locked: the checks, and the targets as they are now.
CheckPlans(u) ==
    LET S == request[u].held IN
    /\ request[u].op = "lock" /\ request[u].plans = {}
    /\ Compilable(S)
    /\ request' = [request EXCEPT ![u].op = "insert",
                                  ![u].targets = [h \in HostsOf(S) |-> assigned[h]]]
    /\ UNCHANGED <<fleetVars, plans, sets, keys>>

RefuseCompile(u) ==
    /\ request[u].op = "lock" /\ request[u].plans = {}
    /\ ~ Compilable(request[u].held)
    /\ request' = [request EXCEPT ![u] = Idle]
    /\ UNCHANGED <<fleetVars, plans, sets, keys>>

\* The window is the requester's choice within thirty days.
InsertSet(u, c) ==
    /\ request[u].op = "insert"
    /\ NextSet(c)
    /\ sets' = [sets EXCEPT ![c] =
                    [NewSet EXCEPT !.status = "pending_authorization", !.requester = u,
                                   !.targets = request[u].targets,
                                   !.plans = [p \in request[u].held |->
                                                <<plans[p].finding, plans[p].approver>>]]]
    /\ request' = [request EXCEPT ![u] = Idle]
    /\ UNCHANGED <<fleetVars, plans, keys>>

-----------------------------------------------------------------------------
(* Authorising a change set *)

PlansOf(c) == DOMAIN sets[c].plans
Authorizing(c) == \E u \in Admins : request[u].set = c

\* The envelope still names the plans it was compiled from, apart from their status.
EnvelopeIntact(c) == \A p \in PlansOf(c) : plans[p].finding = sets[c].plans[p][1]

\* Mutant: it is enough that one of the plans had another approver.
OneOtherApprover(u, c) == \E p \in PlansOf(c) : plans[p].approver # u

NotAnApprover(u, c) == \A p \in PlansOf(c) : plans[p].approver # u

FourEyesGate(u, c) == u # sets[c].requester /\ NotAnApprover(u, c)

\* Mutant: the status of the plans is not read again.
PlansOnceApproved(c) == TRUE

PlansApproved(c) == \A p \in PlansOf(c) : plans[p].status = "approved"

\* What _readiness_gates loads first: the plans, the agents and the time.
FirstGates(u, c) ==
    /\ EnvelopeIntact(c)
    /\ PlansApproved(c)
    /\ FourEyesGate(u, c)
    /\ \A h \in DOMAIN sets[c].targets : agent[h] = "attested"
    /\ ~ sets[c].begun

\* What it reads then: the latest reports and the assignments.
LaterGates(c) ==
    /\ \A p \in PlansOf(c) : Latest(plans[p].finding)
    /\ \A h \in DOMAIN sets[c].targets :
        /\ latest[h].young
        /\ assigned[h] = sets[c].targets[h]
        /\ assigned[h] \in Remediating

BeginAuthorize(u, c) ==
    /\ request[u] = Idle
    /\ sets[c].status = "pending_authorization"
    /\ ~ Authorizing(c)
    /\ FirstGates(u, c)
    /\ request' = [request EXCEPT ![u] = [Idle EXCEPT !.op = "gates", !.set = c]]
    /\ UNCHANGED <<fleetVars, plans, sets, keys>>

\* The key is looked up next; NoSet is a tenant that has none yet.
PassGates(u) ==
    /\ request[u].op = "gates"
    /\ LaterGates(request[u].set)
    /\ \E k \in IF keys = {} THEN {NoSet} ELSE keys :
        request' = [request EXCEPT ![u].op = "sign", ![u].key = k]
    /\ UNCHANGED <<fleetVars, plans, sets, keys>>

RefuseAuthorize(u) ==
    /\ request[u].op = "gates"
    /\ ~ LaterGates(request[u].set)
    /\ request' = [request EXCEPT ![u] = Idle]
    /\ UNCHANGED <<fleetVars, plans, sets, keys>>

\* Mutant: a tenant that has no key yet is not given one.
StoredKey(u) == request[u].key

\* The first authorisation creates the tenant's key; two at once may each create one.
SigningKey(u) == IF request[u].key = NoSet THEN request[u].set ELSE request[u].key

Sign(u) ==
    LET c == request[u].set
        k == SigningKey(u) IN
    /\ request[u].op = "sign"
    /\ keys' = keys \union {k}
    /\ sets' = [sets EXCEPT ![c].status = "authorized", ![c].authorizer = u, ![c].key = k]
    /\ request' = [request EXCEPT ![u] = Idle]
    /\ UNCHANGED <<fleetVars, plans>>

Unlocked(c) == ~ Authorizing(c)

\* In either active status; the jobs it ends are the subject of RecoveryJobs.
CancelSet(u, c) ==
    /\ request[u] = Idle
    /\ sets[c].status \in ActiveSet
    /\ Unlocked(c)
    /\ sets' = [sets EXCEPT ![c].status = "canceled"]
    /\ UNCHANGED <<fleetVars, plans, keys, request>>

-----------------------------------------------------------------------------
(* What changes around them *)

\* A later report supersedes the finding of every earlier one.
AcceptReport(h) ==
    /\ latest[h].report < MaxReports
    /\ latest' = [latest EXCEPT ![h] = [report |-> @.report + 1, young |-> TRUE]]
    /\ UNCHANGED <<agent, assigned, plans, sets, keys, request>>

EvidenceAges(h) ==
    /\ latest' = [latest EXCEPT ![h].young = FALSE]
    /\ UNCHANGED <<agent, assigned, plans, sets, keys, request>>

\* A policy is published or edited, or the agent is moved to another group.
Reassign(h, a) ==
    /\ assigned' = [assigned EXCEPT ![h] = a]
    /\ UNCHANGED <<latest, agent, plans, sets, keys, request>>

\* A heartbeat with the capability list, fifteen minutes without one, a revocation, or
\* the enrollment that revives the row.
AgentChanges(h, state) ==
    /\ \/ agent[h] = "silent" /\ state = "attested"
       \/ agent[h] = "attested" /\ state = "silent"
       \/ agent[h] # "revoked" /\ state = "revoked"
       \/ agent[h] = "revoked" /\ state = "silent"
    /\ agent' = [agent EXCEPT ![h] = state]
    /\ UNCHANGED <<latest, assigned, plans, sets, keys, request>>

\* Once the set is authorised its window is a matter of its jobs.
WindowBegins(c) ==
    /\ sets[c].status = "pending_authorization"
    /\ sets' = [sets EXCEPT ![c].begun = TRUE]
    /\ UNCHANGED <<fleetVars, plans, keys, request>>

-----------------------------------------------------------------------------
Planning(u) ==
    \/ \E f \in Findings : BeginPlan(u, f)
    \/ \E p \in Plans : CommitPlan(u, p) \/ Approve(u, p) \/ Reject(u, p) \/ CancelPlan(u, p)
    \/ RefusePlan(u)

Compiling(u) ==
    \/ \E S \in SUBSET Plans : BeginCompile(u, S)
    \/ \E p \in Plans : LockPlan(u, p)
    \/ CheckPlans(u) \/ RefuseCompile(u)
    \/ \E c \in Sets : InsertSet(u, c)

Deciding(u) ==
    \/ \E c \in Sets : BeginAuthorize(u, c) \/ CancelSet(u, c)
    \/ PassGates(u) \/ RefuseAuthorize(u) \/ Sign(u)

Environment ==
    \/ \E h \in Hosts : AcceptReport(h) \/ EvidenceAges(h)
    \/ \E h \in Hosts, a \in Assignments : Reassign(h, a)
    \/ \E h \in Hosts, s \in {"attested", "silent", "revoked"} : AgentChanges(h, s)
    \/ \E c \in Sets : WindowBegins(c)

Next == (\E u \in Admins : Planning(u) \/ Compiling(u) \/ Deciding(u)) \/ Environment

Spec == Init /\ [][Next]_vars
-----------------------------------------------------------------------------
(* Properties *)

\* A finding never has two plans that are pending or approved, however requests
\* interleave between the duplicate check and the insert, and a plan gives its finding
\* up exactly when it ends (docs/remediation-planning.md: "Only one pending or approved
\* plan can exist for the same finding").
OnePlanPerFinding ==
    \A p, q \in Plans :
        /\ plans[p].holds <=> plans[p].status \in ActivePlan
        /\ plans[p].holds /\ plans[q].holds /\ plans[p].finding = plans[q].finding => p = q

\* Two change sets that are pending or authorised never share a plan, although the
\* check and the insert are separate statements (docs/remediation-planning.md:
\* "preventing concurrent active change sets for the same plan").
OneActiveSetPerPlan ==
    \A c, d \in Sets :
        /\ sets[c].status \in ActiveSet /\ sets[d].status \in ActiveSet
        /\ PlansOf(c) \intersect PlansOf(d) # {}
        => c = d

\* Whoever authorised a change set neither requested it nor approved one of its plans,
\* and this stays so while plans are approved and canceled around it.
IndependentAuthorizer ==
    \A c \in Sets : sets[c].authorizer # NoAdmin =>
        /\ sets[c].authorizer # sets[c].requester
        /\ \A p \in PlansOf(c) : sets[c].authorizer \notin {plans[p].approver, sets[c].plans[p][2]}

\* The signed payload stays true of the plans it names: same finding, same approver,
\* never pending again and never rejected.  A plan may be canceled under an active
\* change set (cancel_remediation_plan does not look at it): the one exception.
EnvelopeStaysTrue ==
    \A c \in Sets : \A p \in PlansOf(c) :
        /\ sets[c].plans[p] = <<plans[p].finding, plans[p].approver>>
        /\ plans[p].status \in {"approved", "canceled"}

\* No administrators wait for plan locks in a circle: in every group of waiting
\* requests one waits for a plan that nobody of the group holds.
Waiting(u) == \E p \in request[u].plans : FirstOf(request[u].plans, p) /\ Held(p)
WaitsFor(u, v) == \E p \in request[u].plans : FirstOf(request[u].plans, p) /\ p \in request[v].held

NoLockCycle ==
    \A W \in SUBSET {u \in Admins : Waiting(u)} :
        W # {} => \E u \in W : \A v \in W : ~ WaitsFor(u, v)

\* A pending change set has lost a gate that never comes back: a newer report before the
\* gates are read, or a plan that ended or a window that began before the request.
Blocked(c) ==
    /\ sets[c].status = "pending_authorization"
    /\ \/ /\ \A u \in Admins : request[u].op = "sign" => request[u].set # c
          /\ \E p \in PlansOf(c) : ~ Latest(plans[p].finding)
       \/ /\ ~ Authorizing(c)
          /\ \/ \E p \in PlansOf(c) : plans[p].status # "approved"
             \/ sets[c].begun

\* Such a change set is never authorised any more; it stays blocked until it is canceled.
BlockedSetsStayBlocked ==
    [][\A c \in Sets : Blocked(c) => Blocked(c)' \/ sets'[c].status = "canceled"]_vars

\* A canceled change set is never authorised by a request that was under way: the
\* payload, signature and decision of a terminal record stand.
CancellationStands ==
    [][\A c \in Sets : sets[c].status = "canceled" =>
            /\ sets'[c].status = "canceled"
            /\ sets'[c].authorizer = sets[c].authorizer]_vars

\* The tables as the abstract specification sees them: without the requests under way,
\* the column that makes a finding unique, the targets, the window and the key.
Abstract == INSTANCE Governance WITH
    plan <- [p \in Plans |-> [status   |-> plans[p].status,
                             finding  |-> plans[p].finding,
                             approver |-> plans[p].approver]],
    set  <- [c \in Sets |-> [status     |-> sets[c].status,
                            plans      |-> sets[c].plans,
                            requester  |-> sets[c].requester,
                            authorizer |-> sets[c].authorizer]]

\* However the statements of requests interleave, the tables change as if each request
\* took effect at once, between the others: the checks a request made still hold when it
\* writes, by the plans' locks (create_change_set), the lock of the change set that is
\* decided (authorize_change_set, cancel_change_set) and the unique index on the finding
\* of an active plan (create_remediation_plan).
GovernanceSpec == Abstract!Spec
=============================================================================
