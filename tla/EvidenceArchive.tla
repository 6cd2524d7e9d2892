-------------------------- MODULE EvidenceArchive --------------------------
(***************************************************************************)
(* What the platform promises about the evidence behind a report: a report *)
(* is accepted together with the object that holds its bundle, the object  *)
(* is taken away only after it was released, and the report is shown as    *)
(* deleted only after the object has gone.  Nothing is taken back: a       *)
(* release, a removal and a deletion are final.                            *)
(***************************************************************************)
CONSTANT Ids    \* report ids

VARIABLES
    row,        \* what the console shows of each report
    object,     \* reports whose object is in the vault
    released    \* reports whose object need not be kept

archive == <<row, object, released>>

Init ==
    /\ row = [i \in Ids |-> "absent"]
    /\ object = {}
    /\ released = {}

-----------------------------------------------------------------------------
\* A bundle may be released from the start, where nothing is retained.
AcceptBundle(i) ==
    /\ row[i] = "absent"
    /\ row' = [row EXCEPT ![i] = "kept"]
    /\ object' = object \union {i}
    /\ released' \in {released, released \union {i}}

\* A report in plain JSON has no object.
AcceptPlain(i) ==
    /\ row[i] = "absent"
    /\ row' = [row EXCEPT ![i] = "plain"]
    /\ UNCHANGED <<object, released>>

Release(i) ==
    /\ i \in object \ released
    /\ released' = released \union {i}
    /\ UNCHANGED <<row, object>>

Remove(i) ==
    /\ i \in object \intersect released
    /\ object' = object \ {i}
    /\ UNCHANGED <<row, released>>

Delete(S) ==
    /\ \A i \in S : row[i] = "kept" /\ i \notin object
    /\ row' = [i \in Ids |-> IF i \in S THEN "deleted" ELSE row[i]]
    /\ UNCHANGED <<object, released>>

-----------------------------------------------------------------------------
Next ==
    \/ \E i \in Ids : AcceptBundle(i) \/ AcceptPlain(i) \/ Release(i) \/ Remove(i)
    \/ \E S \in SUBSET Ids : Delete(S)

Spec == Init /\ [][Next]_archive
=============================================================================
