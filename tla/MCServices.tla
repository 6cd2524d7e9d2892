----------------------------- MODULE MCServices -----------------------------
(***************************************************************************)
(* An instance of the platform's services for TLC.  They share no state,   *)
(* so one of them is chosen initially and moves, and the others stand      *)
(* still.  Reports are checked twice: two bundles of any ids with the      *)
(* vault and its removals, and three plain reports, of different ids, that *)
(* change the host and its inventory.  "count" bounds the events that may  *)
(* go on for ever.                                                         *)
(***************************************************************************)
EXTENDS Evidence, VulnerabilitySync, Access, Certificates

CONSTANTS
    MaxEvents,     \* stops, overruns and changes of the outside world
    MaxRequests    \* logins and changes by administrators

VARIABLES subject, count

mcVars == <<evidenceVars, syncVars, accessVars, certificateVars, subject, count>>

\* The two bundles, and the three plain reports.
InVault     == CHOOSE U \in SUBSET Uploads : Cardinality(U) = 2
ReportOrder == CHOOSE f \in [Uploads -> Ids] : \A u, v \in Uploads : f[u] = f[v] => u = v
Early       == CHOOSE u \in InVault : TRUE
Usual       == CHOOSE m \in Machines : TRUE
Base(u) == [id |-> ReportOrder[u], machine |-> Usual, at |-> 1, bundle |-> FALSE,
            lists |-> FALSE, listed |-> {}, pc |-> "new", read |-> NoHost]
Lists   == {[lists |-> TRUE, listed |-> A] : A \in SUBSET Applications}
           \union {[lists |-> FALSE, listed |-> {}]}
Others  == [u \in Uploads |-> Base(u)]
Bundles == {[u \in Uploads |-> IF u \in InVault
                               THEN [Base(u) EXCEPT !.id = ReportOrder[v[u]], !.bundle = TRUE]
                               ELSE Base(u)] : v \in [InVault -> InVault]}
Plains  == {[u \in Uploads |-> [Base(u) EXCEPT !.machine = IF u \in InVault THEN Usual ELSE m,
                                               !.at = t[u], !.lists = l[u].lists,
                                               !.listed = l[u].listed]] :
               m \in Machines, t \in [Uploads -> Times], l \in [Uploads -> Lists]}

MCInit ==
    /\ subject \in {"vault", "inventory", "sync", "access", "certificates"}
    /\ upload \in CASE subject = "vault" -> Bundles
                    [] subject = "inventory" -> Plains
                    [] OTHER -> {Others}
    /\ EvidenceInit /\ SyncInit /\ AccessInit /\ CertificateInit
    /\ count = 0
    /\ subject = "vault" => host = Enrolled
    /\ subject = "inventory" =>
          /\ \A u \in InVault, v \in Uploads \ InVault :
                upload[Early].at <= upload[u].at /\ upload[u].at <= upload[v].at
          /\ \A t \in Times, u \in Uploads :   \* only their order matters
                t < upload[u].at => \E v \in Uploads : upload[v].at = t
          /\ \A u, v \in Uploads : upload[u].machine # Usual => ~upload[v].lists
    /\ subject \notin {"vault", "inventory"} => host = NoHost
    /\ subject # "vault" => deployment = [s3 |-> TRUE, retained |-> TRUE]
    /\ subject # "sync" => installed = {} /\ affected = {}
    /\ subject # "access" => provider.protocol = "oidc"

Reports ==
    /\ subject \in {"vault", "inventory"}
    /\ UNCHANGED <<syncVars, accessVars, certificateVars, subject, count>>
Vault       == subject = "vault" /\ Reports
Inventoried == subject = "inventory" /\ Reports
Waits       == upload[Early].pc = "new"   \* revocation matters to it
Takes(u)    == subject = "vault" => u \in InVault

Rest == UNCHANGED <<evidenceVars, accessVars, certificateVars, subject>>
Syncing == subject = "sync" /\ Rest /\ UNCHANGED count
Event   == subject = "sync" /\ Rest /\ count < MaxEvents /\ count' = count + 1

\* A snapshot is uploaded before other events; while it waits, workers go on, stop and
\* are given up, and packages come and go.
Foremost == Event /\ count = 0
Apart == Event /\ ~snapshot.here

\* The second worker's turn comes while the first has a run; a sweep of it beside an idle
\* first worker, as when both schedule at once, is an event.
Leading == CHOOSE w \in Workers : TRUE
Turn(w) == w = Leading \/ worker[Leading].run # NoSync
Sweeps(w) == (IF Turn(w) THEN Syncing ELSE Event) /\ Schedule(w)

\* Packages that come back are no event; each of them was removed by one.
Changes(set) == IF installed \subseteq set THEN Syncing ELSE Event

Accessing == subject = "access" /\ UNCHANGED <<evidenceVars, syncVars, certificateVars, subject>>
Access0 == Accessing /\ UNCHANGED count
Access1 == Accessing /\ count < MaxRequests /\ count' = count + 1

Certifying == subject = "certificates" /\ UNCHANGED <<evidenceVars, syncVars, accessVars, subject, count>>

MCNext ==
    \/ \E u \in Uploads : Reports /\ Takes(u) /\ Receive(u)
    \/ \E u \in Uploads : Vault /\ Store(u)
    \/ \E u \in Uploads : Reports /\ ReadHost(u)
    \/ \E u \in Uploads : Inventoried /\ ReadInventory(u)
    \/ \E u \in Uploads : Reports /\ Commit(u)
    \/ \E u \in Uploads : Vault /\ CommitFails(u)
    \/ \E u \in Uploads : Vault /\ Discard(u)
    \/ \E u \in Uploads : Vault /\ UploadStops(u)
    \/ \E u \in Uploads : Vault /\ RetentionEnds(u)
    \/ \E d \in Removals, i \in Ids : Vault /\ DeleteArtifact(d, i)
    \/ \E d \in Removals : Vault /\ PurgeExpired(d)
    \/ \E d \in Removals, i \in Ids : Vault /\ RemoveObject(d, i)
    \/ \E d \in Removals : Vault /\ CommitRemoval(d)
    \/ \E d \in Removals : Vault /\ RemovalFails(d)
    \/ Inventoried /\ CreateHost
    \/ Inventoried /\ DeleteHost
    \/ Inventoried /\ RevokeToken /\ Waits
    \/ Inventoried /\ IssueToken
    \/ Vault /\ RevokeKey /\ Waits
    \/ Vault /\ RegisterKey
    \/ Apart /\ Ask
    \/ Syncing /\ Queue
    \/ \E w \in Workers : Sweeps(w)
    \/ \E w \in Workers : Syncing /\ Enqueue(w)
    \/ \E w \in Workers : Syncing /\ Claim(w)
    \/ \E w \in Workers : Syncing /\ Start(w)
    \/ \E w \in Workers : Syncing /\ ReadPackages(w)
    \/ \E w \in Workers : Syncing /\ Fetch(w)
    \/ \E x \in Appliers : Syncing /\ ReadInstalled(x)
    \/ \E x \in Appliers, p \in Packages : Syncing /\ ReadMatch(x, p)
    \/ \E x \in Appliers : Syncing /\ ReadActive(x)
    \/ \E w \in Workers : Syncing /\ Succeed(w)
    \/ \E w \in Workers : Syncing /\ Fail(w)
    \/ \E w \in Workers : Event /\ WorkerStops(w)
    \/ \E listed \in SUBSET Packages : \E found \in SUBSET listed :
          Foremost /\ UploadSnapshot(listed, found)
    \/ Syncing /\ ImportSnapshot
    \/ Syncing /\ RefuseSnapshot
    \/ \E i \in Syncs : Apart /\ i = Latest /\ Ages(i)
    \/ \E i \in Syncs : Syncing /\ Overruns(i)
    \/ \E set \in SUBSET Packages \ {installed} : Changes(set) /\ InventoryChanges(set)
    \/ \E set \in SUBSET Packages \ {affected} : Apart /\ OsvChanges(set)
    \/ \E u \in Users : Access0 /\ OidcStart(u)
    \/ \E u \in Users : Access0 /\ OidcCallback(u)
    \/ \E u \in Users, role \in Roles : Access1 /\ BeginLogin(u, role)
    \/ \E u \in Users : Access0 /\ CommitLogin(u)
    \/ \E u \in Users : Access0 /\ Logout(u)
    \/ \E u \in Users, s \in Logins : Access0 /\ SessionExpires(u, s)
    \/ \E a, t \in Users, role \in Roles : Access1 /\ BeginRole(a, t, role)
    \/ \E a, t \in Users, role \in Roles : Access1 /\ BeginCreate(a, t, role)
    \/ \E a, t \in Users, state \in States : Access1 /\ BeginStatus(a, t, state)
    \/ \E a \in Users, state \in States : Access1 /\ BeginProvider(a, state)
    \/ \E a \in Users : Access0 /\ CommitRole(a)
    \/ \E a \in Users : Access0 /\ CommitStatus(a)
    \/ \E a \in Users : Access0 /\ CommitCreate(a)
    \/ \E a \in Users : Access0 /\ CommitProvider(a)
    \/ \E u \in Users : Access0 /\ RequestFails(u)
    \/ \E p \in Processes, c \in Certificates : Certifying /\ Install(p, c)
    \/ \E p \in Processes, c \in Certificates : Certifying /\ Bootstrap(p, c)
    \/ \E p \in Processes, c \in Certificates : Certifying /\ Generate(p, c)
    \/ \E p \in Processes : Certifying /\ Flush(p)
    \/ \E p \in Processes : Certifying /\ WriteCertificate(p)
    \/ \E p \in Processes : Certifying /\ WriteKey(p)
    \/ \E p \in Processes : Certifying /\ Finish(p)
    \/ \E p \in Processes : Certifying /\ InstallFails(p)
    \/ \E p \in Processes : Certifying /\ ProcessStops(p)

\* SyncFairness, for the behaviours in which the synchronisation moves.
MCFairness ==
    /\ \A w \in Workers :
          WF_syncVars(Syncing /\ (worker[w].pc = "idle" => Turn(w)) /\ Work(w))
    /\ \A i \in Syncs : WF_syncVars(Syncing /\ Overruns(i))

MCSpec == MCInit /\ [][MCNext]_mcVars /\ MCFairness

\* Every component's state is of its type.
TypeOK == EvidenceTypeOK /\ SyncTypeOK /\ AccessTypeOK /\ CertificateTypeOK
=============================================================================
