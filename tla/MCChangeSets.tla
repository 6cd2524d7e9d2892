---------------------------- MODULE MCChangeSets ----------------------------
(***************************************************************************)
(* An instance of ChangeSets for TLC, in two scenarios, chosen initially,  *)
(* because their product is out of reach: "races" has two change sets and  *)
(* a fleet at rest, "fleet" one change set and a fleet in which one thing  *)
(* at a time is not as it was.                                             *)
(***************************************************************************)
EXTENDS ChangeSets, TLC

VARIABLE scenario

Symmetry == Permutations(Admins) \union Permutations(Hosts)

Disturbed ==
    { <<h, what>> \in Hosts \X {"report", "age", "agent", "assignment"} :
        \/ what = "report" /\ latest[h].report # 1
        \/ what = "age" /\ ~ latest[h].young
        \/ what = "agent" /\ agent[h] # "attested"
        \/ what = "assignment" /\ assigned[h] \notin Remediating }

Within ==
    /\ scenario' = scenario
    /\ \/ scenario = "races" /\ UNCHANGED fleetVars
       \/ scenario = "fleet" /\ sets'[MaxSets].status = "none" /\ Cardinality(Disturbed') <= 1

MCInit == Init /\ scenario \in {"races", "fleet"}

MCNext ==
    \/ \E u \in Admins, f \in Findings : BeginPlan(u, f) /\ Within
    \/ \E u \in Admins, p \in Plans : CommitPlan(u, p) /\ Within
    \/ \E u \in Admins : RefusePlan(u) /\ Within
    \/ \E u \in Admins, p \in Plans : Approve(u, p) /\ Within
    \/ \E u \in Admins, p \in Plans : Reject(u, p) /\ Within
    \/ \E u \in Admins, p \in Plans : CancelPlan(u, p) /\ Within
    \/ \E u \in Admins, S \in SUBSET Plans : BeginCompile(u, S) /\ Within
    \/ \E u \in Admins, p \in Plans : LockPlan(u, p) /\ Within
    \/ \E u \in Admins : CheckPlans(u) /\ Within
    \/ \E u \in Admins : RefuseCompile(u) /\ Within
    \/ \E u \in Admins, c \in Sets : InsertSet(u, c) /\ Within
    \/ \E u \in Admins, c \in Sets : BeginAuthorize(u, c) /\ Within
    \/ \E u \in Admins : PassGates(u) /\ Within
    \/ \E u \in Admins : RefuseAuthorize(u) /\ Within
    \/ \E u \in Admins : Sign(u) /\ Within
    \/ \E u \in Admins, c \in Sets : CancelSet(u, c) /\ Within
    \/ \E h \in Hosts : scenario = "fleet" /\ AcceptReport(h) /\ Within
    \/ \E h \in Hosts : scenario = "fleet" /\ EvidenceAges(h) /\ Within
    \/ \E h \in Hosts, a \in Assignments : scenario = "fleet" /\ Reassign(h, a) /\ Within
    \/ \E h \in Hosts, s \in {"attested", "silent", "revoked"} : scenario = "fleet" /\ AgentChanges(h, s) /\ Within
    \/ \E c \in Sets : WindowBegins(c) /\ Within

MCSpec == MCInit /\ [][MCNext]_<<vars, scenario>>
=============================================================================
