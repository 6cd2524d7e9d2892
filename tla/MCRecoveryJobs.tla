--------------------------- MODULE MCRecoveryJobs ---------------------------
(***************************************************************************)
(* An instance of RecoveryJobs for TLC.  At most "troubles" times in a     *)
(* behaviour something happens to the jobs, in any combination: an answer  *)
(* or a receipt is lost or late, the process stops, a file, the key, the   *)
(* window or the change set changes.  Two scenarios, chosen initially, are *)
(* checked because their union is out of reach: three jobs in a row with   *)
(* up to two troubles, and a fourth job with up to one.                    *)
(***************************************************************************)
EXTENDS RecoveryJobs

CONSTANT Regular    \* the content an entry that exists has at first

VARIABLES scenario, troubles

mcVars == <<vars, scenario, troubles>>

Allowed == IF scenario = "chain" THEN 2 ELSE 1
Trouble == troubles < Allowed /\ troubles' = troubles + 1 /\ UNCHANGED scenario
Normal  == UNCHANGED <<scenario, troubles>>
Within  == scenario = "chain" => jobs'[MaxJobs].status = "none"

MCInit ==
    /\ Init
    /\ source[1] = Regular
    /\ source[2] \in {Regular, Absent}
    /\ scenario \in {"chain", "again"}
    /\ troubles = 0

MCNext ==
    \/ \E j \in Jobs : QueueValidation(j) /\ Normal /\ Within
    \/ \E j, b \in Jobs : QueueCheckpoint(j, b) /\ Normal /\ Within
    \/ \E j, b \in Jobs : QueueVerification(j, b) /\ Normal /\ Within
    \/ Poll /\ net = {} /\ Normal
    \/ Poll /\ net # {} /\ Trouble
    \/ \E status \in DryRun : Validate(status) /\ Normal
    \/ RefuseContract /\ Normal
    \/ OpenJournal /\ Normal
    \/ \E e \in Entries : WriteBlob(e) /\ Normal
    \/ \E e \in Entries : RecordEntry(e) /\ Normal
    \/ \E e \in Entries : BlockJournal(e) /\ Normal
    \/ FinishJournal /\ Normal
    \/ SignCheckpoint /\ Normal
    \/ Verify /\ Normal
    \/ Post /\ Normal
    \/ \E m \in net : Submit(m) /\ Normal
    \/ CommitCancel /\ Normal
    \/ ReadOpenJobs /\ Trouble
    \/ WindowEnds /\ Trouble
    \/ PollUnanswered /\ Trouble
    \/ \E m \in net : Lose(m) /\ Trouble
    \/ \E e \in Entries, s \in Contents \union {Absent, Unsafe} : Drift(e, s) /\ Trouble
    \/ Rotate /\ Trouble
    \/ \E j \in Jobs, e \in Entries : LoseBlob(j, e) /\ Trouble
    \/ Crash /\ Trouble

\* What Fairness amounts to when answers and receipts are lost only so often.
MCFairness == WF_vars(Work) /\ WF_vars(\E m \in net : Submit(m))

MCSpec == MCInit /\ [][MCNext]_mcVars /\ MCFairness
=============================================================================
