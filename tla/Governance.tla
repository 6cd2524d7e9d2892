----------------------------- MODULE Governance -----------------------------
(***************************************************************************)
(* What the approval of remediation promises, as if every request of an    *)
(* administrator took effect at once: a finding has one plan under way, a  *)
(* plan is in one change set under way, a change set is compiled of plans  *)
(* approved at that moment, and somebody who neither requested the set nor *)
(* approved one of its plans authorises it, once, before it is canceled.   *)
(***************************************************************************)
CONSTANTS
    Admins,     \* users with the administrator role
    Findings,   \* what a plan may be about
    Plans,      \* the plans that may ever be requested
    Sets,       \* the change sets that may ever be compiled
    NoAdmin

NoFinding == <<>>

VARIABLES
    plan,       \* each plan: its status, its finding and who approved it
    set         \* each set: its status, plans as compiled, requester and authoriser

governance == <<plan, set>>

Init ==
    /\ plan = [p \in Plans |-> [status |-> "none", finding |-> NoFinding, approver |-> NoAdmin]]
    /\ set = [c \in Sets |-> [status |-> "none", plans |-> <<>>, requester |-> NoAdmin,
                              authorizer |-> NoAdmin]]

-----------------------------------------------------------------------------
UnderWay(p) == plan[p].status \in {"pending_approval", "approved"}
Standing(c) == set[c].status \in {"pending_authorization", "authorized"}

Request(p, f) ==
    /\ plan[p].status = "none"
    /\ ~ \E q \in Plans : UnderWay(q) /\ plan[q].finding = f
    /\ plan' = [plan EXCEPT ![p] = [status |-> "pending_approval", finding |-> f,
                                    approver |-> NoAdmin]]
    /\ UNCHANGED set

Approve(u, p) ==
    /\ plan[p].status = "pending_approval"
    /\ plan' = [plan EXCEPT ![p].status = "approved", ![p].approver = u]
    /\ UNCHANGED set

Reject(p) ==
    /\ plan[p].status = "pending_approval"
    /\ plan' = [plan EXCEPT ![p].status = "rejected"]
    /\ UNCHANGED set

Withdraw(p) ==
    /\ UnderWay(p)
    /\ plan' = [plan EXCEPT ![p].status = "canceled"]
    /\ UNCHANGED set

\* All of the plans are approved, and in no other set, when the set comes into being.
Compile(u, c, S) ==
    /\ set[c].status = "none"
    /\ S # {}
    /\ \A p \in S : plan[p].status = "approved"
    /\ \A p \in S, d \in Sets : Standing(d) => p \notin DOMAIN set[d].plans
    /\ set' = [set EXCEPT ![c] = [status |-> "pending_authorization",
                                  plans |-> [p \in S |-> <<plan[p].finding, plan[p].approver>>],
                                  requester |-> u, authorizer |-> NoAdmin]]
    /\ UNCHANGED plan

Authorize(u, c) ==
    /\ set[c].status = "pending_authorization"
    /\ u # set[c].requester
    /\ \A p \in DOMAIN set[c].plans : u # plan[p].approver
    /\ set' = [set EXCEPT ![c].status = "authorized", ![c].authorizer = u]
    /\ UNCHANGED plan

Cancel(c) ==
    /\ Standing(c)
    /\ set' = [set EXCEPT ![c].status = "canceled"]
    /\ UNCHANGED plan

\* A request that is refused, or that is still being checked, changes nothing.
Refuse == UNCHANGED governance

-----------------------------------------------------------------------------
Next ==
    \/ Refuse
    \/ \E p \in Plans, f \in Findings : Request(p, f)
    \/ \E u \in Admins, p \in Plans : Approve(u, p)
    \/ \E p \in Plans : Reject(p) \/ Withdraw(p)
    \/ \E u \in Admins, c \in Sets, S \in SUBSET Plans : Compile(u, c, S)
    \/ \E u \in Admins, c \in Sets : Authorize(u, c)
    \/ \E c \in Sets : Cancel(c)

Spec == Init /\ [][Next]_governance
=============================================================================
