--------------------------- MODULE RecoveryLedger ---------------------------
(***************************************************************************)
(* What the three job ledgers promise: every job has at most one outcome,  *)
(* a job rests on a job whose outcome is "ready", and a checkpoint is only *)
(* "ready" once the agent has saved every entry of its recovery plan.      *)
(***************************************************************************)
EXTENDS Naturals

CONSTANTS
    Jobs,       \* the jobs that may ever be requested, numbered from 1
    Entries     \* the entries of a recovery plan

Kinds    == {"validation", "checkpoint", "verification"}
Outcomes == {"none", "open", "ready", "blocked"}
NoJob    == 0

\* The kind of the job that a job of kind k rests on.
RestsOn == [k \in {"checkpoint", "verification"} |->
              IF k = "checkpoint" THEN "validation" ELSE "checkpoint"]

VARIABLES
    kind,       \* what each job asks for
    outcome,    \* what the platform has accepted for it
    basis,      \* the job it rests on
    saved       \* the entries the agent's journal of the job holds

ledger == <<kind, outcome, basis, saved>>

Init ==
    /\ kind = [j \in Jobs |-> "validation"]
    /\ outcome = [j \in Jobs |-> "none"]
    /\ basis = [j \in Jobs |-> NoJob]
    /\ saved = [j \in Jobs |-> {}]

Request(j, k, b) ==
    /\ outcome[j] = "none"
    /\ IF k = "validation" THEN b = NoJob
       ELSE b \in Jobs /\ outcome[b] = "ready" /\ kind[b] = RestsOn[k]
    /\ kind' = [kind EXCEPT ![j] = k]
    /\ outcome' = [outcome EXCEPT ![j] = "open"]
    /\ basis' = [basis EXCEPT ![j] = b]
    /\ UNCHANGED saved

Save(j, e) ==
    /\ outcome[j] = "open"
    /\ kind[j] = "checkpoint"
    /\ saved' = [saved EXCEPT ![j] = @ \union {e}]
    /\ UNCHANGED <<kind, outcome, basis>>

Accept(j, result) ==
    /\ outcome[j] = "open"
    /\ result = "ready" /\ kind[j] = "checkpoint" => saved[j] = Entries
    /\ outcome' = [outcome EXCEPT ![j] = result]
    /\ UNCHANGED <<kind, basis, saved>>

Next ==
    \/ \E j \in Jobs, k \in Kinds, b \in Jobs \union {NoJob} : Request(j, k, b)
    \/ \E j \in Jobs, e \in Entries : Save(j, e)
    \/ \E j \in Jobs, result \in {"ready", "blocked"} : Accept(j, result)

Spec == Init /\ [][Next]_ledger
=============================================================================
