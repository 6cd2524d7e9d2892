-------------------------- MODULE ChangeSetsProofs --------------------------
(***************************************************************************)
(* Proofs about ChangeSets, for any administrators, hosts and controls and *)
(* any number of reports, plans and change sets.                           *)
(***************************************************************************)
EXTENDS ChangeSets, WellFoundedInduction, TLAPS

-----------------------------------------------------------------------------
(* The inductive invariant *)

\* A finding comes out of a report the platform has accepted.
Reported(f) == f \in Findings /\ ReportOf(f) <= latest[HostOf(f)].report

PlansInv ==
    /\ OnePlanPerFinding
    /\ \A p \in Plans :
        /\ plans[p].status # "none" => Reported(plans[p].finding)
        /\ plans[p].status = "approved" => plans[p].approver \in Admins
    /\ \A u \in Admins : request[u].op = "plan" => Reported(request[u].finding)

\* A compiling request works through plans that were once approved, in their order;
\* what it holds is its own, and once it has checked them they stay as they are.
LocksInv ==
    /\ \A u \in Admins :
        /\ request[u].plans # {} => request[u].op = "lock"
        /\ request[u].held # {} => request[u].op \in {"lock", "insert"}
        /\ \A p \in request[u].plans \union request[u].held :
            plans[p].status \in {"approved", "canceled"}
        /\ \A p \in request[u].held, q \in request[u].plans : p < q
    /\ \A u, v \in Admins, p \in Plans :
        p \in request[u].held /\ p \in request[v].held => u = v

ChecksInv ==
    \A u \in Admins : request[u].op = "insert" =>
        \A p \in request[u].held : plans[p].status = "approved" /\ ~ InActiveSet(p)

\* It works on at least one plan.
ChosenInv ==
    \A u \in Admins : request[u].op \in {"lock", "insert"} =>
        request[u].plans \union request[u].held # {}

\* An authorisation under way: the set is still pending, nobody else decides it, and the
\* administrator passed the four-eyes gate.
DecisionsInv ==
    /\ \A u \in Admins :
        /\ request[u].op \in {"gates", "sign"} <=> request[u].set # NoSet
        /\ request[u].set # NoSet =>
            /\ sets[request[u].set].status = "pending_authorization"
            /\ FourEyesGate(u, request[u].set)
    /\ \A u, v \in Admins :
        request[u].set = request[v].set /\ request[u].set # NoSet => u = v

SetsInv == EnvelopeStaysTrue /\ OneActiveSetPerPlan /\ IndependentAuthorizer

IInv == TypeOK /\ PlansInv /\ LocksInv /\ ChecksInv /\ ChosenInv /\ DecisionsInv /\ SetsInv

-----------------------------------------------------------------------------
(* Types *)

LEMMA Constants ==
    /\ NoAdmin \in AdminOrNone /\ Admins \subseteq AdminOrNone
    /\ NoSet \notin Sets /\ Plans \subseteq Nat /\ Sets \subseteq Nat /\ Reports \subseteq Nat
    /\ \A f \in Findings : HostOf(f) \in Hosts /\ ReportOf(f) \in Reports
    /\ 1 \in Reports
BY GovernanceConstants DEF AdminOrNone, NoSet, Sets, Plans, Reports, Findings, HostOf, ReportOf

LEMMA EmptySnapshots == <<>> \in Targets /\ <<>> \in Snapshots /\ DOMAIN <<>> = {}
<1>1. DOMAIN <<>> = {}
  OBVIOUS
<1>2. <<>> \in [{} -> Assignments] /\ <<>> \in [{} -> Findings \X Admins]
  OBVIOUS
<1> QED
  BY <1>1, <1>2 DEF Targets, Snapshots

LEMMA Blanks == NewPlan \in Plan /\ NewSet \in ChangeSet /\ Idle \in Request
<1>1. NewPlan \in Plan
  BY Constants DEF NewPlan, Plan, PlanStatus
<1>2. NewSet \in ChangeSet
  BY Constants, EmptySnapshots DEF NewSet, ChangeSet, SetStatus
<1>3. Idle \in Request
  BY EmptySnapshots DEF Idle, Request, Operations
<1> QED
  BY <1>1, <1>2, <1>3

\* What the fields of well-typed rows are.
LEMMA Fields ==
    ASSUME TypeOK
    PROVE  /\ \A p \in Plans : plans[p].finding \in Findings \union {<<>>} /\ plans[p].approver \in AdminOrNone
           /\ \A c \in Sets : PlansOf(c) \subseteq Plans /\ DOMAIN sets[c].targets \subseteq Hosts
           /\ \A u \in Admins : /\ request[u].plans \in SUBSET Plans /\ request[u].held \in SUBSET Plans
                                /\ request[u].set \in Sets \union {NoSet}
                                /\ request[u].key \in Sets \union {NoSet}
                                /\ request[u].targets \in Targets
                                /\ request[u].finding \in Findings \union {<<>>}
<1>1. \A p \in Plans : plans[p].finding \in Findings \union {<<>>} /\ plans[p].approver \in AdminOrNone
  BY DEF TypeOK, Plan
<1>2. \A c \in Sets : sets[c].plans \in Snapshots /\ sets[c].targets \in Targets
  BY DEF TypeOK, ChangeSet
<1>3. \A c \in Sets : PlansOf(c) \subseteq Plans /\ DOMAIN sets[c].targets \subseteq Hosts
  BY <1>2 DEF PlansOf, Snapshots, Targets
<1>4. \A u \in Admins : request[u] \in Request
  BY DEF TypeOK
<1> QED
  BY <1>1, <1>3, <1>4 DEF Request

\* A request that ends, or takes a step without touching the tables.
LEMMA PlanningTypes ==
    ASSUME TypeOK, NEW u \in Admins, Planning(u)
    PROVE  TypeOK'
<1> USE Blanks DEF TypeOK
<1>1. ASSUME NEW f \in Findings, BeginPlan(u, f) PROVE TypeOK'
  <2>1. [Idle EXCEPT !.op = "plan", !.finding = f] \in Request
    BY DEF Request, Idle, Operations
  <2> QED
    BY <1>1, <2>1 DEF BeginPlan, fleetVars
<1>2. ASSUME NEW p \in Plans, CommitPlan(u, p) PROVE TypeOK'
  <2>1. [NewPlan EXCEPT !.status = "pending_approval", !.finding = request[u].finding, !.holds = TRUE] \in Plan
    BY Fields DEF Plan, NewPlan, PlanStatus, ActivePlan
  <2> QED
    BY <1>2, <2>1 DEF CommitPlan, fleetVars
<1>3. ASSUME NEW p \in Plans, Approve(u, p) PROVE TypeOK'
  <2>1. [plans[p] EXCEPT !.status = "approved", !.approver = u] \in Plan
    BY Constants DEF Plan, PlanStatus, ActivePlan
  <2> QED
    BY <1>3, <2>1 DEF Approve, fleetVars
<1>4. ASSUME NEW p \in Plans, Reject(u, p) \/ CancelPlan(u, p) PROVE TypeOK'
  <2>1. \A s \in {"rejected", "canceled"} : [plans[p] EXCEPT !.status = s, !.holds = FALSE] \in Plan
    BY DEF Plan, PlanStatus
  <2> QED
    BY <1>4, <2>1 DEF Reject, CancelPlan, fleetVars
<1>5. CASE RefusePlan(u)
  BY <1>5 DEF RefusePlan, fleetVars
<1> QED
  BY <1>1, <1>2, <1>3, <1>4, <1>5 DEF Planning

LEMMA CompilingTypes ==
    ASSUME TypeOK, NEW u \in Admins, Compiling(u), LocksInv, PlansInv, ChecksInv
    PROVE  TypeOK'
<1>1. ASSUME NEW S \in SUBSET Plans, BeginCompile(u, S) PROVE TypeOK'
  <2>1. [Idle EXCEPT !.op = "lock", !.plans = S] \in Request
    BY Blanks DEF Request, Idle, Operations
  <2> QED
    BY <1>1, <2>1 DEF BeginCompile, fleetVars, TypeOK
<1>2. ASSUME NEW p \in Plans, LockPlan(u, p) PROVE TypeOK'
  <2>1. [request[u] EXCEPT !.plans = @ \ {p}, !.held = @ \union {p}] \in Request
    BY DEF Request, TypeOK
  <2> QED
    BY <1>2, <2>1 DEF LockPlan, fleetVars, TypeOK
<1>3. CASE CheckPlans(u)
  <2> DEFINE S == request[u].held
             T == [h \in HostsOf(S) |-> assigned[h]]
  <2>1. S \subseteq Plans /\ \A p \in S : plans[p].status = "approved"
    BY <1>3, Fields DEF CheckPlans, Compilable
  <2>2. HostsOf(S) \subseteq Hosts
    BY <2>1, Constants DEF HostsOf, PlansInv, Reported
  <2>3. T \in [HostsOf(S) -> Assignments]
    BY <2>2 DEF TypeOK
  <2>4. T \in Targets
    BY <2>2, <2>3 DEF Targets
  <2> HIDE DEF T, S
  <2>5. [request[u] EXCEPT !.op = "insert", !.targets = T] \in Request
    BY <2>4 DEF Request, TypeOK, Operations
  <2> QED
    BY <1>3, <2>5 DEF CheckPlans, fleetVars, TypeOK, T, S
<1>4. CASE RefuseCompile(u)
  BY <1>4, Blanks DEF RefuseCompile, fleetVars, TypeOK
<1>5. ASSUME NEW c \in Sets, InsertSet(u, c) PROVE TypeOK'
  <2> DEFINE H == request[u].held
             S == [p \in H |-> <<plans[p].finding, plans[p].approver>>]
  <2>1. H \subseteq Plans /\ \A p \in H : plans[p].status = "approved"
    BY <1>5, Fields DEF InsertSet, ChecksInv
  <2>2. \A p \in H : plans[p].finding \in Findings /\ plans[p].approver \in Admins
    BY <2>1 DEF PlansInv, Reported
  <2>3. S \in [H -> Findings \X Admins]
    BY <2>2
  <2>4. S \in Snapshots
    BY <2>1, <2>3 DEF Snapshots
  <2>5. request[u].targets \in Targets
    BY Fields
  <2> HIDE DEF H, S
  <2>6. [NewSet EXCEPT !.status = "pending_authorization", !.requester = u,
                       !.targets = request[u].targets, !.plans = S] \in ChangeSet
    BY <2>4, <2>5, Blanks, Constants DEF ChangeSet, NewSet, SetStatus, ActiveSet
  <2> QED
    BY <1>5, <2>6, Blanks DEF InsertSet, fleetVars, TypeOK, S, H
<1> QED
  BY <1>1, <1>2, <1>3, <1>4, <1>5 DEF Compiling

LEMMA DecidingTypes ==
    ASSUME TypeOK, NEW u \in Admins, Deciding(u), DecisionsInv
    PROVE  TypeOK'
<1> USE Blanks DEF TypeOK
<1>1. ASSUME NEW c \in Sets, BeginAuthorize(u, c) PROVE TypeOK'
  <2>1. [Idle EXCEPT !.op = "gates", !.set = c] \in Request
    BY DEF Request, Idle, Operations
  <2> QED
    BY <1>1, <2>1 DEF BeginAuthorize, fleetVars
<1>2. ASSUME NEW c \in Sets, CancelSet(u, c) PROVE TypeOK'
  <2>1. [sets[c] EXCEPT !.status = "canceled"] \in ChangeSet
    BY DEF ChangeSet, SetStatus
  <2> QED
    BY <1>2, <2>1 DEF CancelSet, fleetVars
<1>3. CASE PassGates(u)
  <2>1. \A k \in Sets \union {NoSet} : [request[u] EXCEPT !.op = "sign", !.key = k] \in Request
    BY DEF Request, Operations
  <2>2. PICK k \in Sets \union {NoSet} : request' = [request EXCEPT ![u].op = "sign", ![u].key = k]
    BY <1>3 DEF PassGates
  <2> QED
    BY <1>3, <2>1, <2>2 DEF PassGates, fleetVars
<1>4. CASE RefuseAuthorize(u)
  BY <1>4 DEF RefuseAuthorize, fleetVars
<1>5. CASE Sign(u)
  <2> DEFINE c == request[u].set
             k == SigningKey(u)
  <2>1. c \in Sets
    BY <1>5, Fields DEF Sign, DecisionsInv
  <2>2. k \in Sets
    BY <2>1, Fields DEF SigningKey
  <2> HIDE DEF k, c
  <2>3. [sets[c] EXCEPT !.status = "authorized", !.authorizer = u, !.key = k] \in ChangeSet
    BY <2>1, <2>2, Constants DEF ChangeSet, SetStatus, ActiveSet
  <2> QED
    BY <1>5, <2>1, <2>2, <2>3 DEF Sign, fleetVars, c, k
<1> QED
  BY <1>1, <1>2, <1>3, <1>4, <1>5 DEF Deciding

LEMMA EnvironmentTypes ==
    ASSUME TypeOK, Environment
    PROVE  TypeOK'
<1> USE DEF TypeOK
<1>1. ASSUME NEW h \in Hosts, AcceptReport(h) \/ EvidenceAges(h) PROVE TypeOK'
  <2>1. latest[h].report \in Nat /\ latest[h].report <= MaxReports
    BY GovernanceConstants DEF Reports
  <2>2. PICK row \in [report : Reports, young : BOOLEAN] : latest' = [latest EXCEPT ![h] = row]
    <3>1. [latest[h] EXCEPT !.young = FALSE] \in [report : Reports, young : BOOLEAN]
      OBVIOUS
    <3>2. CASE AcceptReport(h)
      <4>1. latest[h].report + 1 \in Reports
        BY <2>1, <3>2, GovernanceConstants DEF AcceptReport, Reports
      <4> QED
        BY <3>2, <4>1 DEF AcceptReport
    <3> QED
      BY <1>1, <3>1, <3>2 DEF EvidenceAges
  <2> QED
    BY <1>1, <2>2 DEF AcceptReport, EvidenceAges
<1>2. ASSUME NEW h \in Hosts, NEW a \in Assignments, Reassign(h, a) PROVE TypeOK'
  BY <1>2 DEF Reassign
<1>3. ASSUME NEW h \in Hosts, NEW s \in {"attested", "silent", "revoked"}, AgentChanges(h, s) PROVE TypeOK'
  BY <1>3 DEF AgentChanges
<1>4. ASSUME NEW c \in Sets, WindowBegins(c) PROVE TypeOK'
  <2>1. [sets[c] EXCEPT !.begun = TRUE] \in ChangeSet
    BY DEF ChangeSet
  <2> QED
    BY <1>4, <2>1 DEF WindowBegins, fleetVars
<1> QED
  BY <1>1, <1>2, <1>3, <1>4 DEF Environment

-----------------------------------------------------------------------------
(* What a step does to a plan, a change set and a request *)

PlanStep(p) ==
    LET old == plans[p]
        new == plans'[p] IN
    \/ new = old
    \/ /\ old.status = "none" /\ new.status = "pending_approval" /\ new.holds
       /\ \E u \in Admins : request[u].op = "plan" /\ new.finding = request[u].finding
       /\ ~ Taken(new.finding)
    \/ /\ ~ Held(p) /\ new.finding = old.finding /\ UNCHANGED <<sets, request>>
       /\ \/ /\ old.status = "pending_approval" /\ new.status = "approved"
             /\ new.approver \in Admins /\ new.holds = old.holds
          \/ /\ old.status = "pending_approval" /\ new.status = "rejected"
             /\ new.approver = old.approver /\ new.holds = FALSE
          \/ /\ old.status \in ActivePlan /\ new.status = "canceled"
             /\ new.approver = old.approver /\ new.holds = FALSE

PlansStep ==
    /\ \A p \in Plans : PlanStep(p)
    /\ \A p, q \in Plans : plans'[p] # plans[p] /\ plans'[q] # plans[q] => p = q

SetStep(c) ==
    LET old == sets[c]
        new == sets'[c] IN
    \/ new = old
    \/ \E u \in Admins :
        /\ request[u].op = "insert" /\ request'[u] = Idle /\ plans' = plans
        /\ old.status = "none" /\ new.status = "pending_authorization"
        /\ new.authorizer = NoAdmin /\ new.begun = FALSE
        /\ new.plans = [p \in request[u].held |-> <<plans[p].finding, plans[p].approver>>]
    \/ /\ plans' = plans
       /\ new.plans = old.plans /\ new.requester = old.requester
       /\ \/ \E u \in Admins :
              /\ request[u].op = "sign" /\ request[u].set = c /\ request'[u] = Idle
              /\ new.status = "authorized" /\ new.authorizer = u /\ new.begun = old.begun
          \/ /\ request' = request /\ new.authorizer = old.authorizer
             /\ \/ /\ old.status \in ActiveSet /\ ~ Authorizing(c)
                   /\ new.status = "canceled" /\ new.begun = old.begun
                \/ /\ old.status = "pending_authorization"
                   /\ new.status = old.status /\ new.begun = TRUE

SetsStep ==
    /\ \A c \in Sets : SetStep(c)
    /\ \A c, d \in Sets : sets'[c] # sets[c] /\ sets'[d] # sets[d] => c = d

\* The request of an administrator ends, begins an operation, or takes the next step of one.
RequestStep(u) ==
    LET old == request[u]
        new == request'[u] IN
    \/ new = old
    \/ new = Idle
    \/ /\ UNCHANGED <<plans, sets>>
       /\ \/ /\ new.op = "plan" /\ Latest(new.finding) /\ new.finding \in Findings
             /\ new.plans = {} /\ new.held = {} /\ new.set = NoSet
          \/ /\ new.op = "lock" /\ new.held = {} /\ new.set = NoSet /\ new.plans # {}
             /\ \A p \in new.plans : plans[p].status = "approved"
          \/ /\ old.op = "lock" /\ new.op = "lock" /\ new.set = old.set
             /\ \E p \in Plans : /\ FirstOf(old.plans, p) /\ ~ Held(p)
                                 /\ new.plans = old.plans \ {p}
                                 /\ new.held = old.held \union {p}
          \/ /\ old.op = "lock" /\ old.plans = {} /\ Compilable(old.held)
             /\ new.op = "insert" /\ new.plans = {} /\ new.held = old.held /\ new.set = old.set
          \/ /\ new.op = "gates" /\ new.set \in Sets /\ new.plans = {} /\ new.held = {}
             /\ sets[new.set].status = "pending_authorization"
             /\ ~ Authorizing(new.set) /\ FirstGates(u, new.set)
          \/ /\ old.op = "gates" /\ new.op = "sign" /\ new.set = old.set
             /\ new.plans = old.plans /\ new.held = old.held
             /\ LaterGates(old.set)

RequestsStep ==
    /\ \A u \in Admins : RequestStep(u)
    /\ \A u, v \in Admins : request'[u] # request[u] /\ request'[v] # request[v] => u = v

ReportsStep == \A h \in Hosts : latest[h].report <= latest'[h].report

Steps == PlansStep /\ SetsStep /\ RequestsStep /\ ReportsStep

LEMMA NoReport ==
    ASSUME TypeOK, UNCHANGED latest
    PROVE  ReportsStep
<1>1. \A h \in Hosts : latest[h].report \in Reports
  BY DEF TypeOK
<1>2. \A h \in Hosts : latest[h].report \in Nat
  BY <1>1, Constants
<1> QED
  BY <1>2 DEF ReportsStep

LEMMA PlanningSteps ==
    ASSUME TypeOK, NEW u \in Admins, Planning(u)
    PROVE  Steps
<1> USE DEF TypeOK
<1>1. UNCHANGED <<latest, sets>>
  BY DEF Planning, BeginPlan, CommitPlan, Approve, Reject, CancelPlan, RefusePlan, fleetVars
<1>2. ReportsStep
  BY <1>1, NoReport
<1>3. SetsStep
  BY <1>1 DEF SetsStep, SetStep
<1>4. PlansStep /\ RequestsStep
  <2>1. ASSUME NEW f \in Findings, BeginPlan(u, f) PROVE PlansStep /\ RequestsStep
    BY <2>1 DEF BeginPlan, PlansStep, PlanStep, RequestsStep, RequestStep, Idle
  <2>2. ASSUME NEW p \in Plans, CommitPlan(u, p) PROVE PlansStep /\ RequestsStep
    <3>1. PlansStep
      BY <2>2 DEF CommitPlan, PlansStep, PlanStep, UniqueTaken, NextPlan, NewPlan
    <3> QED
      BY <2>2, <3>1 DEF CommitPlan, RequestsStep, RequestStep
  <2>3. ASSUME NEW p \in Plans, Approve(u, p) \/ Reject(u, p) \/ CancelPlan(u, p) PROVE PlansStep /\ RequestsStep
    <3>1. plans[p] \in Plan
      OBVIOUS
    <3>2. PlansStep
      <4>1. CASE Approve(u, p)
        BY <4>1, <3>1 DEF Approve, PlansStep, PlanStep, Plan
      <4>2. CASE Reject(u, p)
        BY <4>2, <3>1 DEF Reject, PlansStep, PlanStep, Plan, Rejectable
      <4>3. CASE CancelPlan(u, p)
        BY <4>3, <3>1 DEF CancelPlan, PlansStep, PlanStep, Plan
      <4> QED
        BY <2>3, <4>1, <4>2, <4>3
    <3> QED
      BY <2>3, <3>2 DEF Approve, Reject, CancelPlan, RequestsStep, RequestStep
  <2>4. CASE RefusePlan(u)
    BY <2>4 DEF RefusePlan, PlansStep, PlanStep, RequestsStep, RequestStep
  <2> QED
    BY <2>1, <2>2, <2>3, <2>4 DEF Planning
<1> QED
  BY <1>2, <1>3, <1>4 DEF Steps

LEMMA CompilingSteps ==
    ASSUME TypeOK, NEW u \in Admins, Compiling(u)
    PROVE  Steps
<1> USE DEF TypeOK
<1>1. UNCHANGED <<latest, plans>>
  BY DEF Compiling, BeginCompile, LockPlan, CheckPlans, RefuseCompile, InsertSet, fleetVars
<1>2. ReportsStep /\ PlansStep
  BY <1>1, NoReport DEF PlansStep, PlanStep
<1>3. SetsStep /\ RequestsStep
  <2>1. ASSUME NEW S \in SUBSET Plans, BeginCompile(u, S) PROVE SetsStep /\ RequestsStep
    BY <2>1 DEF BeginCompile, SetsStep, SetStep, RequestsStep, RequestStep, Idle
  <2>2. ASSUME NEW p \in Plans, LockPlan(u, p) PROVE SetsStep /\ RequestsStep
    BY <2>2 DEF LockPlan, SetsStep, SetStep, RequestsStep, RequestStep, Request, HeldByAnother
  <2>3. CASE CheckPlans(u)
    <3>1. PICK T : request' = [request EXCEPT ![u].op = "insert", ![u].targets = T]
      BY <2>3 DEF CheckPlans
    <3>2. request[u] \in Request
      OBVIOUS
    <3>3. RequestStep(u)
      BY <2>3, <3>1, <3>2, <1>1 DEF CheckPlans, RequestStep, Request
    <3>4. SetsStep
      BY <2>3 DEF CheckPlans, SetsStep, SetStep
    <3> QED
      BY <3>1, <3>3, <3>4 DEF RequestsStep, RequestStep
  <2>4. CASE RefuseCompile(u)
    BY <2>4 DEF RefuseCompile, SetsStep, SetStep, RequestsStep, RequestStep
  <2>5. ASSUME NEW c \in Sets, InsertSet(u, c) PROVE SetsStep /\ RequestsStep
    <3>1. PICK T, S : /\ S = [p \in request[u].held |-> <<plans[p].finding, plans[p].approver>>]
                      /\ sets' = [sets EXCEPT ![c] =
                            [NewSet EXCEPT !.status = "pending_authorization", !.requester = u,
                                           !.targets = T, !.plans = S]]
      BY <2>5 DEF InsertSet
    <3>2. /\ sets'[c].status = "pending_authorization" /\ sets'[c].begun = FALSE
          /\ sets'[c].authorizer = NoAdmin /\ sets'[c].plans = S
          /\ \A d \in Sets \ {c} : sets'[d] = sets[d]
      BY <3>1 DEF NewSet
    <3>3. /\ request[u].op = "insert" /\ sets[c].status = "none" /\ request'[u] = Idle
      BY <2>5 DEF InsertSet, NextSet
    <3>4. SetStep(c)
      BY <3>1, <3>2, <3>3, <1>1 DEF SetStep
    <3>5. SetsStep
      BY <3>2, <3>4 DEF SetsStep, SetStep
    <3> QED
      BY <2>5, <3>5 DEF InsertSet, RequestsStep, RequestStep
  <2> QED
    BY <2>1, <2>2, <2>3, <2>4, <2>5 DEF Compiling
<1> QED
  BY <1>2, <1>3 DEF Steps

LEMMA DecidingSteps ==
    ASSUME TypeOK, NEW u \in Admins, Deciding(u), DecisionsInv
    PROVE  Steps
<1> USE DEF TypeOK
<1>1. UNCHANGED <<latest, plans>>
  BY DEF Deciding, BeginAuthorize, CancelSet, PassGates, RefuseAuthorize, Sign, fleetVars
<1>2. ReportsStep /\ PlansStep
  BY <1>1, NoReport DEF PlansStep, PlanStep
<1>3. SetsStep /\ RequestsStep
  <2>1. ASSUME NEW c \in Sets, BeginAuthorize(u, c) PROVE SetsStep /\ RequestsStep
    BY <2>1 DEF BeginAuthorize, SetsStep, SetStep, RequestsStep, RequestStep, Idle
  <2>2. ASSUME NEW c \in Sets, CancelSet(u, c) PROVE SetsStep /\ RequestsStep
    <3>1. sets[c] \in ChangeSet
      OBVIOUS
    <3> QED
      BY <2>2, <3>1, <1>1 DEF CancelSet, Unlocked, ChangeSet, SetsStep, SetStep, RequestsStep, RequestStep
  <2>3. CASE PassGates(u)
    <3>1. PICK k : request' = [request EXCEPT ![u].op = "sign", ![u].key = k]
      BY <2>3 DEF PassGates
    <3>2. request[u] \in Request
      OBVIOUS
    <3> QED
      BY <2>3, <3>1, <3>2 DEF PassGates, SetsStep, SetStep, RequestsStep, RequestStep, Request
  <2>4. CASE RefuseAuthorize(u)
    BY <2>4 DEF RefuseAuthorize, SetsStep, SetStep, RequestsStep, RequestStep
  <2>5. CASE Sign(u)
    <3> DEFINE c == request[u].set
    <3>1. c \in Sets
      BY <2>5, Fields DEF Sign, DecisionsInv
    <3>2. sets[c] \in ChangeSet
      BY <3>1
    <3>3. PICK k : sets' = [sets EXCEPT ![c].status = "authorized", ![c].authorizer = u, ![c].key = k]
      BY <2>5 DEF Sign
    <3>4. request[u].op = "sign" /\ request'[u] = Idle
      BY <2>5 DEF Sign
    <3>5. SetsStep
      BY <3>1, <3>2, <3>3, <3>4, <1>1 DEF ChangeSet, SetsStep, SetStep
    <3> QED
      BY <2>5, <3>5 DEF Sign, RequestsStep, RequestStep
  <2> QED
    BY <2>1, <2>2, <2>3, <2>4, <2>5 DEF Deciding
<1> QED
  BY <1>2, <1>3 DEF Steps

LEMMA EnvironmentSteps ==
    ASSUME TypeOK, Environment
    PROVE  Steps
<1> USE DEF TypeOK
<1>1. UNCHANGED <<plans, request>>
  BY DEF Environment, AcceptReport, EvidenceAges, Reassign, AgentChanges, WindowBegins
<1>2. PlansStep /\ RequestsStep
  BY <1>1 DEF PlansStep, PlanStep, RequestsStep, RequestStep
<1>3. SetsStep
  <2>1. ASSUME NEW c \in Sets, WindowBegins(c) PROVE SetsStep
    <3>1. sets[c] \in ChangeSet
      OBVIOUS
    <3> QED
      BY <1>1, <2>1, <3>1 DEF WindowBegins, ChangeSet, SetsStep, SetStep
  <2>2. CASE UNCHANGED sets
    BY <2>2 DEF SetsStep, SetStep
  <2> QED
    BY <2>1, <2>2 DEF Environment, AcceptReport, EvidenceAges, Reassign, AgentChanges
<1>4. ReportsStep
  <2>1. ASSUME NEW h \in Hosts, AcceptReport(h) \/ EvidenceAges(h) PROVE ReportsStep
    <3>1. latest[h].report \in Nat
      BY Constants
    <3>2. latest'[h].report \in {latest[h].report, latest[h].report + 1}
      BY <2>1 DEF AcceptReport, EvidenceAges
    <3>3. \A g \in Hosts \ {h} : latest'[g] = latest[g] /\ latest[g].report \in Nat
      BY <2>1, Constants DEF AcceptReport, EvidenceAges
    <3> QED
      BY <3>1, <3>2, <3>3 DEF ReportsStep
  <2>2. CASE UNCHANGED latest
    BY <2>2, NoReport
  <2> QED
    BY <2>1, <2>2 DEF Environment, Reassign, AgentChanges, WindowBegins, fleetVars
<1> QED
  BY <1>2, <1>3, <1>4 DEF Steps

-----------------------------------------------------------------------------
(* Every step keeps the invariant *)

LEMMA ReportedStays ==
    ASSUME TypeOK, TypeOK', ReportsStep, NEW f, Reported(f)
    PROVE  f \in Findings /\ ReportOf(f) <= latest'[HostOf(f)].report
<1>1. f \in Findings /\ HostOf(f) \in Hosts /\ ReportOf(f) \in Nat
  BY Constants DEF Reported
<1>2. latest[HostOf(f)].report \in Reports /\ latest'[HostOf(f)].report \in Reports
  BY <1>1 DEF TypeOK
<1>3. latest[HostOf(f)].report \in Nat /\ latest'[HostOf(f)].report \in Nat
  BY <1>2, Constants
<1>4. ReportOf(f) <= latest[HostOf(f)].report /\ latest[HostOf(f)].report <= latest'[HostOf(f)].report
  BY <1>1 DEF Reported, ReportsStep
<1> HIDE DEF Reported
<1> QED
  BY <1>1, <1>3, <1>4

LEMMA PlansKept ==
    ASSUME TypeOK, TypeOK', PlansInv, Steps
    PROVE  PlansInv'
<1>1. \A p \in Plans : PlanStep(p)
  BY DEF Steps, PlansStep
<1>2. \A p \in Plans : plans'[p].holds <=> plans'[p].status \in ActivePlan
  <2> TAKE p \in Plans
  <2>1. (plans[p].holds <=> plans[p].status \in ActivePlan) /\ plans[p].holds \in BOOLEAN
    BY DEF PlansInv, OnePlanPerFinding, TypeOK, Plan
  <2> QED
    BY <1>1, <2>1 DEF PlanStep, ActivePlan
<1>3. \A p, q \in Plans : plans'[p].holds /\ plans'[q].holds /\ plans'[p].finding = plans'[q].finding => p = q
  <2> SUFFICES ASSUME NEW p \in Plans, NEW q \in Plans, plans'[p].holds, plans'[q].holds,
                      plans'[p].finding = plans'[q].finding, p # q
               PROVE  FALSE
    OBVIOUS
  <2>1. \A r \in Plans : plans'[r].holds =>
          \/ plans[r].holds /\ plans'[r].finding = plans[r].finding
          \/ plans'[r] # plans[r] /\ ~ Taken(plans'[r].finding)
    <3> TAKE r \in Plans
    <3>1. plans[r].holds <=> plans[r].status \in ActivePlan
      BY DEF PlansInv, OnePlanPerFinding
    <3> QED
      BY <1>1, <3>1 DEF PlanStep, ActivePlan
  <2>2. ~ (plans[p].holds /\ plans[q].holds /\ plans[p].finding = plans[q].finding)
    BY DEF PlansInv, OnePlanPerFinding
  <2>3. ~ (plans'[p] # plans[p] /\ plans'[q] # plans[q])
    BY DEF Steps, PlansStep
  <2> QED
    BY <2>1, <2>2, <2>3 DEF Taken
<1>4. \A p \in Plans :
        /\ plans'[p].status # "none" => Reported(plans[p].finding)'
        /\ plans'[p].status = "approved" => plans'[p].approver \in Admins
  <2> TAKE p \in Plans
  <2>1. plans'[p].status # "none" => Reported(plans'[p].finding)
    BY <1>1 DEF PlansInv, PlanStep, ActivePlan
  <2>2. plans'[p].status = "approved" => plans'[p].approver \in Admins
    BY <1>1 DEF PlansInv, PlanStep
  <2>3. ReportsStep
    BY DEF Steps
  <2> QED
    BY <2>1, <2>2, <2>3, ReportedStays DEF Reported
<1>5. \A u \in Admins : request'[u].op = "plan" => Reported(request[u].finding)'
  <2> SUFFICES ASSUME NEW u \in Admins, request'[u].op = "plan"
               PROVE  Reported(request[u].finding)'
    OBVIOUS
  <2>1. RequestStep(u) /\ ReportsStep
    BY DEF Steps, RequestsStep
  <2>2. request'[u] = request[u] \/ (request'[u].finding \in Findings /\ Latest(request'[u].finding))
    BY <2>1 DEF RequestStep, Idle
  <2>3. \A f \in Findings : Latest(f) => Reported(f)
    <3>1. \A f \in Findings : ReportOf(f) \in Nat
      BY Constants
    <3>2. \A n \in Nat : n <= n
      OBVIOUS
    <3> QED
      BY <3>1, <3>2 DEF Latest, Reported
  <2>4. Reported(request'[u].finding)
    BY <2>2, <2>3 DEF PlansInv
  <2> QED
    BY <2>1, <2>4, ReportedStays DEF Reported
<1> QED
  BY <1>2, <1>3, <1>4, <1>5 DEF PlansInv, OnePlanPerFinding

\* A plan that was once approved keeps its finding and its approver.
LEMMA SettledPlans ==
    ASSUME PlansStep
    PROVE  \A p \in Plans : plans[p].status \in {"approved", "canceled"} =>
              /\ plans'[p].status \in {"approved", "canceled"}
              /\ plans[p].status = "canceled" => plans'[p].status = "canceled"
              /\ plans'[p].finding = plans[p].finding
              /\ plans'[p].approver = plans[p].approver
BY DEF PlansStep, PlanStep, ActivePlan

LEMMA LocksKept ==
    ASSUME TypeOK, TypeOK', LocksInv, Steps
    PROVE  LocksInv'
<1>1. \A u \in Admins : RequestStep(u)
  BY DEF Steps, RequestsStep
<1>2. ASSUME NEW u \in Admins
      PROVE  /\ request'[u].plans # {} => request'[u].op = "lock"
             /\ request'[u].held # {} => request'[u].op \in {"lock", "insert"}
             /\ \A p \in request'[u].plans \union request'[u].held :
                    plans'[p].status \in {"approved", "canceled"}
             /\ \A p \in request'[u].held, q \in request'[u].plans : p < q
  <2>1. /\ request[u].plans # {} => request[u].op = "lock"
        /\ request[u].held # {} => request[u].op \in {"lock", "insert"}
        /\ \A p \in request[u].plans \union request[u].held : plans[p].status \in {"approved", "canceled"}
        /\ \A p \in request[u].held, q \in request[u].plans : p < q
        /\ request[u].plans \subseteq Plans /\ request[u].held \subseteq Plans
    BY Fields DEF LocksInv
  <2>2. \A p \in Plans : plans[p].status \in {"approved", "canceled"} =>
            plans'[p].status \in {"approved", "canceled"}
    BY SettledPlans DEF Steps
  <2>3. CASE request'[u] = request[u]
    BY <2>1, <2>2, <2>3
  <2>4. CASE request'[u].plans = {} /\ request'[u].held = {}
    BY <2>4
  <2>5. CASE /\ request'[u].op = "lock" /\ request'[u].held = {} /\ UNCHANGED plans
             /\ \A p \in request'[u].plans : plans[p].status = "approved"
    BY <2>5
  <2>6. ASSUME NEW p \in Plans, FirstOf(request[u].plans, p), UNCHANGED plans, request'[u].op = "lock",
               request'[u].plans = request[u].plans \ {p}, request'[u].held = request[u].held \union {p}
        PROVE  /\ \A r \in request'[u].plans \union request'[u].held :
                      plans'[r].status \in {"approved", "canceled"}
               /\ \A r \in request'[u].held, q \in request'[u].plans : r < q
    <3>1. p \in request[u].plans /\ \A q \in request[u].plans : p <= q /\ q \in Nat
      BY <2>1, <2>6, Constants DEF FirstOf
    <3>2. p \in Nat /\ \A q \in request[u].plans \ {p} : p < q
      BY <3>1
    <3> QED
      BY <2>1, <2>6, <3>1, <3>2
  <2>7. CASE /\ request[u].op = "lock" /\ request'[u].op = "insert" /\ UNCHANGED plans
             /\ request'[u].plans = {} /\ request'[u].held = request[u].held
    BY <2>1, <2>7
  <2>8. CASE /\ request[u].op = "gates" /\ UNCHANGED plans
             /\ request'[u].plans = request[u].plans /\ request'[u].held = request[u].held
    <3>1. request[u].plans = {} /\ request[u].held = {}
      BY <2>1, <2>8
    <3> QED
      BY <2>4, <2>8, <3>1
  <2> QED
    BY <1>1, <2>3, <2>4, <2>5, <2>6, <2>7, <2>8 DEF RequestStep, Idle
<1>3. ASSUME NEW u \in Admins, NEW v \in Admins, NEW p \in Plans,
             p \in request'[u].held, p \in request'[v].held
      PROVE  u = v
  <2>1. \A w \in Admins : p \in request'[w].held =>
            \/ p \in request[w].held
            \/ request'[w] # request[w] /\ ~ Held(p)
    BY <1>1 DEF RequestStep, Idle
  <2>2. request'[u] # request[u] /\ request'[v] # request[v] => u = v
    BY DEF Steps, RequestsStep
  <2>3. p \in request[u].held /\ p \in request[v].held => u = v
    BY DEF LocksInv
  <2> QED
    BY <1>3, <2>1, <2>2, <2>3 DEF Held
<1> QED
  BY <1>2, <1>3 DEF LocksInv

LEMMA ChosenKept ==
    ASSUME TypeOK, ChosenInv, Steps
    PROVE  ChosenInv'
<1> SUFFICES ASSUME NEW u \in Admins, request'[u].op \in {"lock", "insert"}
             PROVE  request'[u].plans \union request'[u].held # {}
  BY DEF ChosenInv
<1>1. RequestStep(u)
  BY DEF Steps, RequestsStep
<1>2. request[u].op \in {"lock", "insert"} => request[u].plans \union request[u].held # {}
  BY DEF ChosenInv
<1> QED
  BY <1>1, <1>2 DEF RequestStep, Idle

\* A step that makes or leaves a set active: it was active, or a checked request has
\* just inserted it.
LEMMA ActiveSets ==
    ASSUME TypeOK, DecisionsInv, SetsStep, NEW c \in Sets, sets'[c].status \in ActiveSet
    PROVE  \/ sets[c].status \in ActiveSet /\ DOMAIN sets'[c].plans = PlansOf(c)
           \/ /\ sets'[c] # sets[c] /\ plans' = plans
              /\ \E u \in Admins : /\ request[u].op = "insert" /\ request'[u] = Idle
                                    /\ DOMAIN sets'[c].plans = request[u].held
<1>1. SetStep(c)
  BY DEF SetsStep
<1>2. CASE \E u \in Admins : request[u].op = "sign" /\ request[u].set = c /\ sets'[c].plans = sets[c].plans
  <2>1. sets[c].status = "pending_authorization"
    BY <1>2, Constants DEF DecisionsInv
  <2> QED
    BY <1>2, <2>1 DEF ActiveSet, PlansOf
<1> QED
  BY <1>1, <1>2 DEF SetStep, ActiveSet, PlansOf

LEMMA ChecksKept ==
    ASSUME TypeOK, TypeOK', LocksInv, ChecksInv, DecisionsInv, Steps
    PROVE  ChecksInv'
<1> SUFFICES ASSUME NEW u \in Admins, request'[u].op = "insert", NEW p \in request'[u].held
             PROVE  plans'[p].status = "approved" /\ ~ InActiveSet(p)'
  BY DEF ChecksInv
<1>1. RequestStep(u) /\ p \in Plans
  BY DEF Steps, RequestsStep, TypeOK, Request
<1>2. CASE request'[u] = request[u]
  <2>1. plans[p].status = "approved" /\ ~ InActiveSet(p) /\ Held(p)
    BY <1>2 DEF ChecksInv, Held
  <2>2. plans'[p].status = "approved"
    BY <1>1, <2>1 DEF Steps, PlansStep, PlanStep
  <2>3. ASSUME NEW c \in Sets, sets'[c].status \in ActiveSet, p \in DOMAIN sets'[c].plans
        PROVE  FALSE
    <3>1. ~ (sets[c].status \in ActiveSet /\ p \in PlansOf(c))
      BY <2>1 DEF InActiveSet, PlansOf
    <3>2. PICK v \in Admins : request[v].op = "insert" /\ request'[v] = Idle /\ p \in request[v].held
      BY <2>3, <3>1, ActiveSets DEF Steps
    <3>3. u = v
      BY <1>1, <1>2, <3>2 DEF LocksInv
    <3> QED
      BY <3>2, <3>3 DEF Idle
  <2> QED
    BY <2>2, <2>3 DEF InActiveSet
<1>3. CASE Compilable(request[u].held) /\ request'[u].held = request[u].held /\ UNCHANGED <<plans, sets>>
  BY <1>3 DEF Compilable, InActiveSet
<1> QED
  BY <1>1, <1>2, <1>3 DEF RequestStep, Idle

LEMMA DecisionsKept ==
    ASSUME TypeOK, TypeOK', DecisionsInv, EnvelopeStaysTrue, Steps
    PROVE  DecisionsInv'
<1>1. \A u \in Admins : RequestStep(u)
  BY DEF Steps, RequestsStep
<1>2. \A u \in Admins : request'[u].op \in {"gates", "sign"} <=> request'[u].set # NoSet
  <2> TAKE u \in Admins
  <2>1. request[u].op \in {"gates", "sign"} <=> request[u].set # NoSet
    BY DEF DecisionsInv
  <2> QED
    BY <1>1, <2>1, Constants DEF RequestStep, Idle
\* A set that is being decided stays pending, its plans and their approvers unchanged.
<1>3. ASSUME NEW u \in Admins, request'[u] = request[u], request[u].set # NoSet
      PROVE  /\ sets'[request[u].set].status = "pending_authorization"
             /\ FourEyesGate(u, request[u].set)'
  <2>0. PICK c \in Sets : c = request[u].set
    BY <1>3, Fields
  <2>1. /\ sets[c].status = "pending_authorization" /\ FourEyesGate(u, c)
        /\ Authorizing(c) /\ SetStep(c)
    BY <1>3, <2>0 DEF DecisionsInv, Authorizing, Steps, SetsStep
  <2>2. \A v \in Admins : request[v].set = c /\ request'[v] = Idle => FALSE
    BY <1>3, <2>0, Constants DEF DecisionsInv, Idle
  <2>3. /\ sets'[c].status = "pending_authorization" /\ sets'[c].plans = sets[c].plans
        /\ sets'[c].requester = sets[c].requester
    BY <2>1, <2>2 DEF SetStep
  <2>4. \A p \in PlansOf(c) : plans'[p].approver = plans[p].approver
    BY <2>1, Fields, SettledPlans DEF EnvelopeStaysTrue, Steps
  <2>5. FourEyesGate(u, c)'
    BY <2>1, <2>3, <2>4 DEF FourEyesGate, NotAnApprover, PlansOf
  <2> QED
    BY <2>0, <2>3, <2>5, <1>3 DEF FourEyesGate, NotAnApprover, PlansOf
<1>4. \A u \in Admins : request'[u].set # NoSet =>
        /\ sets'[request'[u].set].status = "pending_authorization"
        /\ FourEyesGate(u, request[u].set)'
  <2> SUFFICES ASSUME NEW u \in Admins, request'[u].set # NoSet
               PROVE  /\ sets'[request'[u].set].status = "pending_authorization"
                      /\ FourEyesGate(u, request[u].set)'
    OBVIOUS
  <2>1. CASE request'[u] = request[u]
    BY <1>3, <2>1 DEF FourEyesGate, NotAnApprover, PlansOf
  <2>2. CASE request'[u].set = request[u].set /\ UNCHANGED <<plans, sets>>
    BY <2>2 DEF DecisionsInv, FourEyesGate, NotAnApprover, PlansOf
  <2>3. CASE /\ sets[request'[u].set].status = "pending_authorization"
             /\ FirstGates(u, request'[u].set) /\ UNCHANGED <<plans, sets>>
    BY <2>3 DEF FirstGates, FourEyesGate, NotAnApprover, PlansOf
  <2> QED
    BY <1>1, <2>1, <2>2, <2>3 DEF RequestStep, Idle
<1>5. ASSUME NEW u \in Admins, NEW v \in Admins, request'[u].set = request'[v].set, request'[u].set # NoSet
      PROVE  u = v
  <2>1. \A w \in Admins : request'[w].set # NoSet =>
            request'[w].set = request[w].set \/ (request'[w] # request[w] /\ ~ Authorizing(request'[w].set))
    BY <1>1 DEF RequestStep, Idle, Authorizing
  <2>2. request'[u] # request[u] /\ request'[v] # request[v] => u = v
    BY DEF Steps, RequestsStep
  <2>3. request[u].set = request[v].set /\ request[u].set # NoSet => u = v
    BY DEF DecisionsInv
  <2> QED
    BY <1>5, <2>1, <2>2, <2>3 DEF Authorizing
<1> QED
  BY <1>2, <1>4, <1>5 DEF DecisionsInv

LEMMA SetsKept ==
    ASSUME TypeOK, TypeOK', LocksInv, ChecksInv, DecisionsInv, SetsInv, Steps
    PROVE  SetsInv'
<1>1. \A c \in Sets : SetStep(c) /\ PlansOf(c) \subseteq Plans
  BY Fields DEF Steps, SetsStep
<1>2. EnvelopeStaysTrue'
  <2> SUFFICES ASSUME NEW c \in Sets, NEW p \in DOMAIN sets'[c].plans
               PROVE  /\ sets'[c].plans[p] = <<plans'[p].finding, plans'[p].approver>>
                      /\ plans'[p].status \in {"approved", "canceled"}
    BY DEF EnvelopeStaysTrue, PlansOf
  <2>1. CASE sets'[c].plans = sets[c].plans
    <3>1. /\ p \in Plans /\ sets[c].plans[p] = <<plans[p].finding, plans[p].approver>>
          /\ plans[p].status \in {"approved", "canceled"}
      BY <1>1, <2>1 DEF SetsInv, EnvelopeStaysTrue, PlansOf
    <3> QED
      BY <2>1, <3>1, SettledPlans DEF Steps
  <2>2. ASSUME NEW u \in Admins, request[u].op = "insert", plans' = plans,
               sets'[c].plans = [q \in request[u].held |-> <<plans[q].finding, plans[q].approver>>]
        PROVE  /\ sets'[c].plans[p] = <<plans'[p].finding, plans'[p].approver>>
               /\ plans'[p].status \in {"approved", "canceled"}
    BY <2>2 DEF ChecksInv
  <2> QED
    BY <1>1, <2>1, <2>2 DEF SetStep
<1>3. OneActiveSetPerPlan'
  <2> SUFFICES ASSUME NEW c \in Sets, NEW d \in Sets, sets'[c].status \in ActiveSet,
                      sets'[d].status \in ActiveSet, c # d,
                      NEW p \in DOMAIN sets'[c].plans, p \in DOMAIN sets'[d].plans
               PROVE  FALSE
    BY DEF OneActiveSetPerPlan, PlansOf
  <2>1. \A e \in {c, d} :
            \/ sets[e].status \in ActiveSet /\ p \in PlansOf(e)
            \/ sets'[e] # sets[e] /\ ~ InActiveSet(p)
    BY ActiveSets DEF Steps, ChecksInv
  <2>2. ~ (sets'[c] # sets[c] /\ sets'[d] # sets[d])
    BY DEF Steps, SetsStep
  <2>3. ~ (sets[c].status \in ActiveSet /\ p \in PlansOf(c) /\ sets[d].status \in ActiveSet /\ p \in PlansOf(d))
    BY DEF SetsInv, OneActiveSetPerPlan
  <2> QED
    BY <2>1, <2>2, <2>3 DEF InActiveSet, PlansOf
<1>4. IndependentAuthorizer'
  <2> SUFFICES ASSUME NEW c \in Sets, sets'[c].authorizer # NoAdmin
               PROVE  /\ sets'[c].authorizer # sets'[c].requester
                      /\ \A p \in DOMAIN sets'[c].plans :
                            sets'[c].authorizer \notin {plans'[p].approver, sets'[c].plans[p][2]}
    BY DEF IndependentAuthorizer, PlansOf
  <2>1. \A p \in PlansOf(c) : /\ plans'[p].approver = plans[p].approver
                               /\ sets[c].plans[p][2] = plans[p].approver
    BY <1>1, SettledPlans DEF SetsInv, EnvelopeStaysTrue, Steps
  <2>2. CASE /\ sets'[c].plans = sets[c].plans /\ sets'[c].requester = sets[c].requester
             /\ sets'[c].authorizer = sets[c].authorizer
    BY <2>1, <2>2 DEF SetsInv, IndependentAuthorizer, PlansOf
  <2>3. ASSUME NEW u \in Admins, request[u].op = "sign", request[u].set = c,
               sets'[c].plans = sets[c].plans, sets'[c].requester = sets[c].requester,
               sets'[c].authorizer = u
        PROVE  /\ u # sets'[c].requester
               /\ \A p \in DOMAIN sets'[c].plans : u \notin {plans'[p].approver, sets'[c].plans[p][2]}
    <3>1. FourEyesGate(u, c)
      BY <2>3, Constants DEF DecisionsInv
    <3> QED
      BY <2>1, <2>3, <3>1 DEF FourEyesGate, NotAnApprover, PlansOf
  <2> QED
    BY <1>1, <2>2, <2>3 DEF SetStep
<1> QED
  BY <1>2, <1>3, <1>4 DEF SetsInv

LEMMA Initially == Init => IInv
<1> SUFFICES ASSUME Init PROVE IInv
  OBVIOUS
<1>1. TypeOK
  BY Constants, Blanks, GovernanceConstants DEF Init, TypeOK
<1>2. \A c \in Sets : sets[c].status = "none" /\ sets[c].authorizer = NoAdmin /\ PlansOf(c) = {}
  BY EmptySnapshots DEF Init, NewSet, PlansOf
<1>3. \A p \in Plans : plans[p].status = "none" /\ plans[p].holds = FALSE
  BY DEF Init, NewPlan
<1>4. \A u \in Admins : /\ request[u].op = "none" /\ request[u].set = NoSet
                        /\ request[u].plans = {} /\ request[u].held = {}
  BY DEF Init, Idle
<1>5. PlansInv
  BY <1>3, <1>4 DEF PlansInv, OnePlanPerFinding, ActivePlan
<1>6. LocksInv /\ ChecksInv /\ ChosenInv /\ DecisionsInv
  BY <1>4 DEF LocksInv, ChecksInv, ChosenInv, DecisionsInv
<1>7. SetsInv
  BY <1>2 DEF SetsInv, EnvelopeStaysTrue, OneActiveSetPerPlan, IndependentAuthorizer, ActiveSet
<1> QED
  BY <1>1, <1>5, <1>6, <1>7 DEF IInv

LEMMA NextSteps == IInv /\ [Next]_vars => Steps /\ TypeOK'
<1> SUFFICES ASSUME IInv, [Next]_vars PROVE Steps /\ TypeOK'
  OBVIOUS
<1> USE DEF IInv
<1>1. ASSUME NEW u \in Admins, Planning(u) PROVE Steps /\ TypeOK'
  BY <1>1, PlanningSteps, PlanningTypes
<1>2. ASSUME NEW u \in Admins, Compiling(u) PROVE Steps /\ TypeOK'
  BY <1>2, CompilingSteps, CompilingTypes
<1>3. ASSUME NEW u \in Admins, Deciding(u) PROVE Steps /\ TypeOK'
  BY <1>3, DecidingSteps, DecidingTypes
<1>4. CASE Environment
  BY <1>4, EnvironmentSteps, EnvironmentTypes
<1>5. CASE UNCHANGED vars
  <2>1. UNCHANGED <<latest, agent, assigned, plans, sets, keys, request>>
    BY <1>5 DEF vars, fleetVars
  <2>2. TypeOK'
    BY <2>1 DEF TypeOK
  <2> QED
    BY <2>1, <2>2, NoReport DEF Steps, PlansStep, PlanStep, SetsStep, SetStep, RequestsStep, RequestStep
<1> QED
  BY <1>1, <1>2, <1>3, <1>4, <1>5 DEF Next

LEMMA Inductive == IInv /\ [Next]_vars => IInv'
<1> SUFFICES ASSUME IInv, [Next]_vars PROVE IInv'
  OBVIOUS
<1>1. /\ TypeOK /\ TypeOK' /\ Steps
      /\ PlansInv /\ LocksInv /\ ChecksInv /\ ChosenInv
      /\ DecisionsInv /\ SetsInv /\ EnvelopeStaysTrue
  BY NextSteps DEF IInv, SetsInv
<1>2. PlansInv' /\ LocksInv'
  BY <1>1, PlansKept, LocksKept
<1>3. ChecksInv' /\ ChosenInv' /\ DecisionsInv' /\ SetsInv'
  BY <1>1, ChecksKept, ChosenKept, DecisionsKept, SetsKept
<1> QED
  BY <1>1, <1>2, <1>3 DEF IInv

LEMMA Invariance == Spec => []IInv
BY Initially, Inductive, PTL DEF Spec

-----------------------------------------------------------------------------
(* Theorems *)

\* Every reachable state is well typed; a signed payload holds findings and administrators.
THEOREM TypeCorrect == Spec => []TypeOK
<1>1. IInv => TypeOK
  BY DEF IInv
<1> QED
  BY <1>1, Invariance, PTL

\* A finding never has two active plans, although the duplicate check holds no lock.
THEOREM FindingsHaveOnePlan == Spec => []OnePlanPerFinding
<1>1. IInv => OnePlanPerFinding
  BY DEF IInv, PlansInv
<1> QED
  BY <1>1, Invariance, PTL

\* Two active change sets never share a plan, for any number of compiling requests.
THEOREM PlansHaveOneSet == Spec => []OneActiveSetPerPlan
<1>1. IInv => OneActiveSetPerPlan
  BY DEF IInv, SetsInv
<1> QED
  BY <1>1, Invariance, PTL

\* The authoriser of a change set stays independent of its requester and its approvers.
THEOREM FourEyes == Spec => []IndependentAuthorizer
<1>1. IInv => IndependentAuthorizer
  BY DEF IInv, SetsInv
<1> QED
  BY <1>1, Invariance, PTL

\* What was signed stays true of the plans: the same findings, the same approvers.
THEOREM EnvelopesAreTrue == Spec => []EnvelopeStaysTrue
<1>1. IInv => EnvelopeStaysTrue
  BY DEF IInv, SetsInv
<1> QED
  BY <1>1, Invariance, PTL

\* A canceled change set keeps its status and its decision.
THEOREM CanceledSetsStand == Spec => CancellationStands
<1>1. ASSUME IInv, [Next]_vars
      PROVE  \A c \in Sets : sets[c].status = "canceled" =>
                /\ sets'[c].status = "canceled"
                /\ sets'[c].authorizer = sets[c].authorizer
  <2> SUFFICES ASSUME NEW c \in Sets, sets[c].status = "canceled"
               PROVE  sets'[c].status = "canceled" /\ sets'[c].authorizer = sets[c].authorizer
    OBVIOUS
  <2>1. SetStep(c)
    BY <1>1, NextSteps DEF Steps, SetsStep
  <2>2. \A u \in Admins : request[u].set # c
    BY <1>1, Constants DEF IInv, DecisionsInv
  <2> QED
    BY <2>1, <2>2 DEF SetStep, ActiveSet
<1>2. IInv /\ [Next]_vars => [\A c \in Sets : sets[c].status = "canceled" =>
            /\ sets'[c].status = "canceled"
            /\ sets'[c].authorizer = sets[c].authorizer]_vars
  BY <1>1
<1> QED
  BY <1>2, Invariance, PTL DEF Spec, CancellationStands

LEMMA LeastNatural ==
    ASSUME NEW T, T \subseteq Nat, T # {}
    PROVE  \E x \in T : \A y \in T : x <= y
<1>1. \E x \in T : \A y \in T : ~ (<<y, x>> \in OpToRel(<, Nat))
  BY NatLessThanWellFounded, WFMin
<1>2. \A x, y \in Nat : ~ (<<y, x>> \in OpToRel(<, Nat)) => x <= y
  BY DEF OpToRel
<1> QED
  BY <1>1, <1>2

LEMMA GreatestPlan ==
    ASSUME NEW F, F \subseteq Plans, F # {}
    PROVE  \E p \in F : \A q \in F : q <= p
<1> DEFINE T == {MaxPlans - p : p \in F}
<1>1. \A p \in F : p \in Nat /\ MaxPlans - p \in Nat
  BY GovernanceConstants DEF Plans
<1>2. PICK x \in T : \A y \in T : x <= y
  <2>1. T \subseteq Nat /\ T # {}
    BY <1>1
  <2> HIDE DEF T
  <2> QED
    BY <2>1, LeastNatural
<1>3. PICK p \in F : x = MaxPlans - p
  BY <1>2
<1>4. \A q \in F : MaxPlans - p <= MaxPlans - q
  BY <1>2, <1>3
<1>5. \A q \in F : q <= p
  BY <1>1, <1>4, GovernanceConstants
<1> QED
  BY <1>5

\* Requests that lock plans in the order of their ids never wait in a circle: of any
\* that wait, the one that waits for the greatest plan waits for none of the others.
THEOREM LocksDoNotCycle == Spec => []NoLockCycle
<1>1. ASSUME IInv PROVE NoLockCycle
  <2> SUFFICES ASSUME NEW W \in SUBSET {u \in Admins : Waiting(u)}, W # {}
               PROVE  \E u \in W : \A v \in W : ~ WaitsFor(u, v)
    BY DEF NoLockCycle
  <2> DEFINE F == {p \in Plans : \E u \in W : FirstOf(request[u].plans, p)}
  <2>1. \A u \in W : /\ request[u].plans \subseteq Plans
                    /\ \E p \in F : FirstOf(request[u].plans, p)
    <3> TAKE u \in W
    <3>1. request[u].plans \subseteq Plans
      BY <1>1, Fields DEF IInv
    <3>2. PICK p : FirstOf(request[u].plans, p)
      BY DEF Waiting
    <3> QED
      BY <3>1, <3>2 DEF FirstOf
  <2>2. PICK p \in F : \A q \in F : q <= p
    <3>1. F \subseteq Plans /\ F # {}
      BY <2>1
    <3> HIDE DEF F
    <3> QED
      BY <3>1, GreatestPlan
  <2>3. PICK u \in W : FirstOf(request[u].plans, p)
    BY <2>2
  <2>4. \A r : FirstOf(request[u].plans, r) => r = p
    BY <2>1, <2>3, Constants DEF FirstOf
  <2>5. ASSUME NEW v \in W, WaitsFor(u, v) PROVE FALSE
    <3>1. p \in request[v].held
      BY <2>4, <2>5 DEF WaitsFor
    <3>2. PICK q \in F : FirstOf(request[v].plans, q)
      BY <2>1
    <3>3. p < q
      BY <1>1, <3>1, <3>2 DEF IInv, LocksInv, FirstOf
    <3>4. p \in Nat /\ q \in Nat /\ q <= p
      BY <2>2, <3>2, Constants
    <3> QED
      BY <3>3, <3>4
  <2> QED
    BY <2>3, <2>5
<1> QED
  BY <1>1, Invariance, PTL

\* A pending set that lost a gate for good is never authorised.
THEOREM BlockedSetsAreNotSigned == Spec => BlockedSetsStayBlocked
<1>1. ASSUME IInv, [Next]_vars, NEW c \in Sets, Blocked(c)
      PROVE  Blocked(c)' \/ sets'[c].status = "canceled"
  <2> SUFFICES ASSUME sets'[c].status # "canceled" PROVE Blocked(c)'
    OBVIOUS
  <2>0. Steps /\ SetStep(c) /\ c # NoSet /\ PlansOf(c) \subseteq Plans
    BY <1>1, NextSteps, Constants, Fields DEF Steps, SetsStep, IInv
  <2>1. /\ sets'[c].status = "pending_authorization" /\ sets'[c].plans = sets[c].plans
        /\ sets[c].begun => sets'[c].begun
    BY <1>1, <2>0 DEF SetStep, Blocked, Authorizing
  <2>2. \A p \in PlansOf(c) : plans[p].status \in {"approved", "canceled"} /\ Reported(plans[p].finding)
    BY <1>1, <2>0 DEF IInv, SetsInv, EnvelopeStaysTrue, PlansInv
  <2>3. \A u \in Admins : RequestStep(u)
    BY <2>0 DEF Steps, RequestsStep
  <2>4. CASE /\ \A u \in Admins : request[u].op = "sign" => request[u].set # c
             /\ \E p \in PlansOf(c) : ~ Latest(plans[p].finding)
    <3>1. PICK p \in PlansOf(c) : ~ Latest(plans[p].finding)
      BY <2>4
    <3>2. \A u \in Admins : request'[u].op = "sign" => request'[u].set # c
      BY <2>0, <2>3, <2>4, <3>1 DEF RequestStep, Idle, LaterGates
    <3>3. plans'[p].finding = plans[p].finding
      BY <2>0, <2>2, SettledPlans DEF Steps
    <3>4. ~ Latest(plans[p].finding)'
      <4>1. PICK f : f = plans[p].finding
        OBVIOUS
      <4>2. f \in Findings /\ HostOf(f) \in Hosts /\ ReportOf(f) \in Nat
        BY <2>2, <4>1, Constants DEF Reported
      <4>3. latest[HostOf(f)].report \in Nat /\ latest'[HostOf(f)].report \in Nat
        <5>1. TypeOK /\ TypeOK'
          BY <1>1, NextSteps DEF IInv
        <5>2. latest[HostOf(f)].report \in Reports /\ latest'[HostOf(f)].report \in Reports
          BY <4>2, <5>1 DEF TypeOK
        <5> QED
          BY <5>2, Constants
      <4>4. /\ ReportOf(f) <= latest[HostOf(f)].report /\ ReportOf(f) # latest[HostOf(f)].report
            /\ latest[HostOf(f)].report <= latest'[HostOf(f)].report
        BY <2>0, <2>2, <3>1, <4>1, <4>2 DEF Reported, Latest, Steps, ReportsStep
      <4>5. ReportOf(f) # latest'[HostOf(f)].report
        BY <4>2, <4>3, <4>4
      <4> QED
        BY <3>3, <4>1, <4>5 DEF Latest
    <3> QED
      BY <2>1, <3>1, <3>2, <3>4 DEF Blocked, PlansOf
  <2>5. CASE /\ ~ Authorizing(c)
             /\ (\E p \in PlansOf(c) : plans[p].status # "approved") \/ sets[c].begun
    <3>1. \A u \in Admins : ~ FirstGates(u, c) /\ request[u].set # c
      BY <2>5 DEF FirstGates, PlansApproved, Authorizing
    <3>2. \A u \in Admins : request'[u].set # c
      BY <2>0, <2>3, <2>5, <3>1 DEF RequestStep, Idle, Authorizing
    <3>3. (\E p \in PlansOf(c) : plans'[p].status # "approved") \/ sets'[c].begun
      BY <2>0, <2>1, <2>2, <2>5, SettledPlans DEF Steps
    <3> QED
      BY <2>1, <3>2, <3>3 DEF Blocked, Authorizing, PlansOf
  <2> QED
    BY <1>1, <2>4, <2>5 DEF Blocked
<1>2. IInv /\ [Next]_vars =>
        [\A c \in Sets : Blocked(c) => Blocked(c)' \/ sets'[c].status = "canceled"]_vars
  BY <1>1
<1> QED
  BY <1>2, Invariance, PTL DEF Spec, BlockedSetsStayBlocked

-----------------------------------------------------------------------------
(* The handlers implement Governance *)

LEMMA AbstractInitially == Init => Abstract!Init
BY DEF Init, Abstract!Init, NewPlan, NewSet, Abstract!NoFinding

\* A row that changes in the tables changes in the abstract state, and nothing else does.
LEMMA PlanRow ==
    ASSUME NEW p \in Plans, NEW st, NEW f, NEW a,
           plans'[p].status = st, plans'[p].finding = f, plans'[p].approver = a,
           \A q \in Plans \ {p} : plans'[q] = plans[q]
    PROVE  [q \in Plans |-> [status |-> plans[q].status, finding |-> plans[q].finding,
                             approver |-> plans[q].approver]]'
           = [[q \in Plans |-> [status |-> plans[q].status, finding |-> plans[q].finding,
                                approver |-> plans[q].approver]]
                 EXCEPT ![p] = [status |-> st, finding |-> f, approver |-> a]]
OBVIOUS

LEMMA SetRow ==
    ASSUME NEW c \in Sets, NEW st, NEW ps, NEW r, NEW a,
           sets'[c].status = st, sets'[c].plans = ps, sets'[c].requester = r,
           sets'[c].authorizer = a, \A d \in Sets \ {c} : sets'[d] = sets[d]
    PROVE  [d \in Sets |-> [status |-> sets[d].status, plans |-> sets[d].plans,
                            requester |-> sets[d].requester, authorizer |-> sets[d].authorizer]]'
           = [[d \in Sets |-> [status |-> sets[d].status, plans |-> sets[d].plans,
                               requester |-> sets[d].requester, authorizer |-> sets[d].authorizer]]
                 EXCEPT ![c] = [status |-> st, plans |-> ps, requester |-> r, authorizer |-> a]]
OBVIOUS

\* What the unique index refuses is a finding with a plan under way.
LEMMA RequestRefines ==
    ASSUME IInv, NEW u \in Admins, NEW p \in Plans, CommitPlan(u, p)
    PROVE  Abstract!Next
<1>1. PICK f \in Findings : f = request[u].finding
  BY DEF CommitPlan, IInv, PlansInv, Reported
<1>2. plans[p].status = "none" /\ UNCHANGED sets
  BY DEF CommitPlan, NextPlan
<1>3. \A q \in Plans : plans[q].status \in {"pending_approval", "approved"} => plans[q].finding # f
  BY <1>1 DEF CommitPlan, UniqueTaken, Taken, IInv, PlansInv, OnePlanPerFinding, ActivePlan
<1>4. /\ plans'[p].status = "pending_approval" /\ plans'[p].finding = f
      /\ plans'[p].approver = NoAdmin /\ \A q \in Plans \ {p} : plans'[q] = plans[q]
  BY <1>1 DEF CommitPlan, NewPlan, IInv, TypeOK
<1>5. Abstract!Request(p, f)
  BY <1>2, <1>3, <1>4, PlanRow DEF Abstract!Request, Abstract!UnderWay
<1> QED
  BY <1>1, <1>5 DEF Abstract!Next

LEMMA DecisionRefines ==
    ASSUME IInv, NEW u \in Admins, NEW p \in Plans, Approve(u, p) \/ Reject(u, p) \/ CancelPlan(u, p)
    PROVE  Abstract!Next
<1>1. plans[p] \in Plan /\ UNCHANGED sets
  BY DEF IInv, TypeOK, Approve, Reject, CancelPlan
<1>2. CASE Approve(u, p)
  <2>1. /\ plans[p].status = "pending_approval"
        /\ plans'[p].status = "approved" /\ plans'[p].finding = plans[p].finding
        /\ plans'[p].approver = u /\ \A q \in Plans \ {p} : plans'[q] = plans[q]
    BY <1>1, <1>2 DEF Approve, IInv, TypeOK, Plan
  <2>2. Abstract!Approve(u, p)
    BY <1>1, <2>1, PlanRow DEF Abstract!Approve
  <2> QED
    BY <2>2 DEF Abstract!Next
<1>3. ASSUME NEW st \in {"rejected", "canceled"}, plans' = [plans EXCEPT ![p].status = st, ![p].holds = FALSE]
      PROVE  /\ plans'[p].status = st /\ plans'[p].finding = plans[p].finding
             /\ plans'[p].approver = plans[p].approver /\ \A q \in Plans \ {p} : plans'[q] = plans[q]
  BY <1>1, <1>3 DEF IInv, TypeOK, Plan
<1>4. CASE Reject(u, p)
  <2>1. /\ plans[p].status = "pending_approval"
        /\ plans'[p].status = "rejected" /\ plans'[p].finding = plans[p].finding
        /\ plans'[p].approver = plans[p].approver /\ \A q \in Plans \ {p} : plans'[q] = plans[q]
    BY <1>3, <1>4 DEF Reject, Rejectable
  <2>2. Abstract!Reject(p)
    BY <1>1, <2>1, PlanRow DEF Abstract!Reject
  <2> QED
    BY <2>2 DEF Abstract!Next
<1>5. CASE CancelPlan(u, p)
  <2>1. /\ plans[p].status \in {"pending_approval", "approved"}
        /\ plans'[p].status = "canceled" /\ plans'[p].finding = plans[p].finding
        /\ plans'[p].approver = plans[p].approver /\ \A q \in Plans \ {p} : plans'[q] = plans[q]
    BY <1>3, <1>5 DEF CancelPlan, ActivePlan
  <2>2. Abstract!Withdraw(p)
    BY <1>1, <2>1, PlanRow DEF Abstract!Withdraw, Abstract!UnderWay
  <2> QED
    BY <2>2 DEF Abstract!Next
<1> QED
  BY <1>2, <1>4, <1>5

\* The plans that were locked and checked are still approved, and in no other set, when
\* the set is inserted.
LEMMA CompileRefines ==
    ASSUME IInv, NEW u \in Admins, NEW c \in Sets, InsertSet(u, c)
    PROVE  Abstract!Next
<1>1. PICK S \in SUBSET Plans : S = request[u].held
  BY Fields DEF IInv
<1>2. S # {}
  BY <1>1 DEF InsertSet, IInv, LocksInv, ChosenInv
<1>3. \A p \in S : plans[p].status = "approved" /\ ~ InActiveSet(p)
  BY <1>1 DEF InsertSet, IInv, ChecksInv
<1>4. \A p \in S, d \in Sets : sets[d].status \in {"pending_authorization", "authorized"}
                                 => p \notin DOMAIN sets[d].plans
  BY <1>3 DEF InActiveSet, ActiveSet
<1>5. PICK ps : ps = [p \in S |-> <<plans[p].finding, plans[p].approver>>]
  OBVIOUS
<1>6. /\ sets[c].status = "none" /\ UNCHANGED plans
      /\ sets'[c].status = "pending_authorization" /\ sets'[c].plans = ps
      /\ sets'[c].requester = u /\ sets'[c].authorizer = NoAdmin
      /\ \A d \in Sets \ {c} : sets'[d] = sets[d]
  BY <1>1, <1>5 DEF InsertSet, NextSet, NewSet, IInv, TypeOK
<1> DEFINE plan == [q \in Plans |-> [status |-> plans[q].status, finding |-> plans[q].finding,
                                   approver |-> plans[q].approver]]
           set  == [d \in Sets |-> [status |-> sets[d].status, plans |-> sets[d].plans,
                                   requester |-> sets[d].requester,
                                   authorizer |-> sets[d].authorizer]]
<1>7. \A p \in S : /\ plan[p].status = "approved"
                  /\ <<plan[p].finding, plan[p].approver>> = <<plans[p].finding, plans[p].approver>>
  BY <1>3
<1>8. ps = [p \in S |-> <<plan[p].finding, plan[p].approver>>]
  BY <1>5, <1>7
<1>9. set[c].status = "none" /\ \A d \in Sets : set[d].status = sets[d].status /\ set[d].plans = sets[d].plans
  BY <1>6
<1>10. set' = [set EXCEPT ![c] = [status |-> "pending_authorization", plans |-> ps,
                                 requester |-> u, authorizer |-> NoAdmin]]
  BY <1>6, SetRow
<1>11. UNCHANGED plan
  BY <1>6
<1>12. \A p \in S, d \in Sets : set[d].status \in {"pending_authorization", "authorized"}
                                 => p \notin DOMAIN set[d].plans
  BY <1>4, <1>9
<1> HIDE DEF plan, set
<1>13. /\ set' = [set EXCEPT ![c] = [status |-> "pending_authorization",
                                    plans |-> [p \in S |-> <<plan[p].finding, plan[p].approver>>],
                                    requester |-> u, authorizer |-> NoAdmin]]
      /\ UNCHANGED plan
  BY <1>8, <1>10, <1>11
<1>14. Abstract!Compile(u, c, S)
  BY <1>2, <1>7, <1>9, <1>12, <1>13 DEF Abstract!Compile, Abstract!Standing, plan, set
<1> QED
  BY <1>14 DEF Abstract!Next

\* Nothing that the approvals and the requester were read for has changed at the signature.
LEMMA AuthorizeRefines ==
    ASSUME IInv, NEW u \in Admins, Sign(u)
    PROVE  Abstract!Next
<1>1. PICK c \in Sets : c = request[u].set
  BY Fields, Constants DEF Sign, IInv, DecisionsInv
<1>2. sets[c].status = "pending_authorization" /\ FourEyesGate(u, c) /\ sets[c] \in ChangeSet
  BY <1>1, Constants DEF IInv, DecisionsInv, TypeOK
<1>3. u # sets[c].requester /\ \A p \in DOMAIN sets[c].plans : p \in Plans /\ u # plans[p].approver
  BY <1>2, Fields DEF FourEyesGate, NotAnApprover, PlansOf, IInv
<1>4. /\ UNCHANGED plans
      /\ sets'[c].status = "authorized" /\ sets'[c].plans = sets[c].plans
      /\ sets'[c].requester = sets[c].requester /\ sets'[c].authorizer = u
      /\ \A d \in Sets \ {c} : sets'[d] = sets[d]
  BY <1>1, <1>2 DEF Sign, IInv, TypeOK, ChangeSet
<1> DEFINE plan == [q \in Plans |-> [status |-> plans[q].status, finding |-> plans[q].finding,
                                   approver |-> plans[q].approver]]
           set  == [d \in Sets |-> [status |-> sets[d].status, plans |-> sets[d].plans,
                                   requester |-> sets[d].requester,
                                   authorizer |-> sets[d].authorizer]]
<1>5. set' = [set EXCEPT ![c] = [status |-> "authorized", plans |-> sets[c].plans,
                                requester |-> sets[c].requester, authorizer |-> u]]
  BY <1>4, SetRow
<1>6. set' = [set EXCEPT ![c].status = "authorized", ![c].authorizer = u]
  BY <1>5
<1>7. /\ set[c].status = "pending_authorization" /\ u # set[c].requester
      /\ \A p \in DOMAIN set[c].plans : u # plan[p].approver
  BY <1>2, <1>3
<1>8. UNCHANGED plan
  BY <1>4
<1> HIDE DEF plan, set
<1>9. Abstract!Authorize(u, c)
  BY <1>6, <1>7, <1>8 DEF Abstract!Authorize, plan, set
<1> QED
  BY <1>9 DEF Abstract!Next

LEMMA CancelRefines ==
    ASSUME IInv, NEW u \in Admins, NEW c \in Sets, CancelSet(u, c)
    PROVE  Abstract!Next
<1>1. sets[c] \in ChangeSet /\ sets[c].status \in {"pending_authorization", "authorized"}
  BY DEF CancelSet, IInv, TypeOK, ActiveSet
<1>2. /\ UNCHANGED plans
      /\ sets'[c].status = "canceled" /\ sets'[c].plans = sets[c].plans
      /\ sets'[c].requester = sets[c].requester /\ sets'[c].authorizer = sets[c].authorizer
      /\ \A d \in Sets \ {c} : sets'[d] = sets[d]
  BY <1>1 DEF CancelSet, IInv, TypeOK, ChangeSet
<1>3. Abstract!Cancel(c)
  BY <1>1, <1>2, SetRow DEF Abstract!Cancel, Abstract!Standing
<1> QED
  BY <1>3 DEF Abstract!Next

\* Every other statement leaves the abstract state alone.
LEMMA Stutters ==
    ASSUME IInv, UNCHANGED plans,
           \A c \in Sets : sets'[c] = sets[c] \/ sets'[c] = [sets[c] EXCEPT !.begun = TRUE]
    PROVE  UNCHANGED Abstract!governance
<1>1. \A c \in Sets : /\ sets'[c].status = sets[c].status /\ sets'[c].plans = sets[c].plans
                      /\ sets'[c].requester = sets[c].requester
                      /\ sets'[c].authorizer = sets[c].authorizer
  BY ZenonT(60) DEF IInv, TypeOK, ChangeSet
<1>2. [p \in Plans |-> [status |-> plans[p].status, finding |-> plans[p].finding,
                       approver |-> plans[p].approver]]'
        = [p \in Plans |-> [status |-> plans[p].status, finding |-> plans[p].finding,
                            approver |-> plans[p].approver]]
  OBVIOUS
<1>3. [c \in Sets |-> [status |-> sets[c].status, plans |-> sets[c].plans,
                       requester |-> sets[c].requester, authorizer |-> sets[c].authorizer]]'
        = [c \in Sets |-> [status |-> sets[c].status, plans |-> sets[c].plans,
                           requester |-> sets[c].requester, authorizer |-> sets[c].authorizer]]
  BY <1>1
<1> QED
  BY <1>2, <1>3 DEF Abstract!governance

LEMMA Refines == IInv /\ [Next]_vars => [Abstract!Next]_(Abstract!governance)
<1> SUFFICES ASSUME IInv, [Next]_vars PROVE Abstract!Next \/ UNCHANGED Abstract!governance
  OBVIOUS
<1>1. ASSUME NEW u \in Admins, NEW p \in Plans,
             CommitPlan(u, p) \/ Approve(u, p) \/ Reject(u, p) \/ CancelPlan(u, p)
      PROVE  Abstract!Next
  BY <1>1, RequestRefines, DecisionRefines
<1>2. ASSUME NEW u \in Admins, NEW c \in Sets, InsertSet(u, c) \/ CancelSet(u, c)
      PROVE  Abstract!Next
  BY <1>2, CompileRefines, CancelRefines
<1>3. ASSUME NEW u \in Admins, Sign(u) PROVE Abstract!Next
  BY <1>3, AuthorizeRefines
<1>4. ASSUME NEW c \in Sets, WindowBegins(c) PROVE UNCHANGED Abstract!governance
  <2>1. UNCHANGED plans /\ sets' = [sets EXCEPT ![c].begun = TRUE]
    BY <1>4 DEF WindowBegins
  <2> QED
    BY <2>1, Stutters DEF IInv, TypeOK
<1>5. CASE UNCHANGED <<plans, sets>>
  BY <1>5, Stutters
<1> QED
  BY <1>1, <1>2, <1>3, <1>4, <1>5 DEF Next, Planning, Compiling, Deciding, Environment, vars,
     fleetVars, BeginPlan, RefusePlan, BeginCompile, LockPlan, CheckPlans, RefuseCompile,
     BeginAuthorize, PassGates, RefuseAuthorize, AcceptReport, EvidenceAges, Reassign, AgentChanges

\* Refinement: with the requests of any number of administrators interleaved, plans and
\* change sets change as Governance says, one whole request at a time.
THEOREM ImplementsGovernance == Spec => GovernanceSpec
<1>1. Init => Abstract!Init
  BY AbstractInitially
<1>2. IInv /\ [Next]_vars => [Abstract!Next]_(Abstract!governance)
  BY Refines
<1> QED
  BY <1>1, <1>2, Invariance, PTL DEF Spec, GovernanceSpec, Abstract!Spec
=============================================================================
