--------------------------- MODULE ServicesProofs ---------------------------
(***************************************************************************)
(* Proofs about MCServices, the services put side by side: whatever moves, *)
(* every service only does what its own specification allows.  What is     *)
(* proved of each service therefore holds where they are composed, and     *)
(* what TLC checks of the composition is a statement about each of them,   *)
(* for any values of the constants.                                        *)
(***************************************************************************)
EXTENDS MCServices, EvidenceProofs, VulnerabilitySyncProofs, AdministrationProofs

-----------------------------------------------------------------------------
(* A step of the composition *)

EachSteps ==
    /\ [EvidenceNext]_evidenceVars
    /\ [SyncNext]_syncVars
    /\ [AccessNext]_accessVars
    /\ [CertificateNext]_certificateVars

\* Only one service moves.
LEMMA OneMoves ==
    /\ EvidenceNext /\ UNCHANGED <<syncVars, accessVars, certificateVars>> => EachSteps
    /\ SyncNext /\ UNCHANGED <<evidenceVars, accessVars, certificateVars>> => EachSteps
    /\ AccessNext /\ UNCHANGED <<evidenceVars, syncVars, certificateVars>> => EachSteps
    /\ CertificateNext /\ UNCHANGED <<evidenceVars, syncVars, accessVars>> => EachSteps
BY DEF EachSteps

LEMMA ReportsMove ==
    ASSUME Reports,
           \/ \E u \in Uploads :
                 \/ Receive(u) \/ Store(u) \/ ReadHost(u) \/ ReadInventory(u)
                 \/ Commit(u) \/ CommitFails(u) \/ Discard(u) \/ UploadStops(u) \/ RetentionEnds(u)
           \/ \E d \in Removals :
                 \/ PurgeExpired(d) \/ CommitRemoval(d) \/ RemovalFails(d)
                 \/ \E i \in Ids : DeleteArtifact(d, i) \/ RemoveObject(d, i)
           \/ CreateHost \/ DeleteHost
           \/ RevokeToken \/ IssueToken \/ RevokeKey \/ RegisterKey
    PROVE  EachSteps
<1>1. EvidenceNext
  BY DEF EvidenceNext
<1>2. UNCHANGED <<syncVars, accessVars, certificateVars>>
  BY DEF Reports
<1> QED
  BY <1>1, <1>2, OneMoves

LEMMA SyncMoves ==
    ASSUME Syncing \/ Event,
           \/ Ask \/ Queue
           \/ \E w \in Workers : Work(w) \/ WorkerStops(w)
           \/ \E listed \in SUBSET Packages : \E found \in SUBSET listed :
                 UploadSnapshot(listed, found)
           \/ Applies(Import) \/ ImportSnapshot \/ RefuseSnapshot
           \/ \E i \in Syncs : Ages(i) \/ Overruns(i)
           \/ \E set \in SUBSET Packages : InventoryChanges(set) \/ OsvChanges(set)
    PROVE  EachSteps
<1>1. SyncNext
  BY DEF SyncNext
<1>2. UNCHANGED <<evidenceVars, accessVars, certificateVars>>
  BY DEF Syncing, Event, Rest
<1> QED
  BY <1>1, <1>2, OneMoves

LEMMA AccessMoves ==
    ASSUME Accessing,
           \/ \E u \in Users :
                 \/ OidcStart(u) \/ OidcCallback(u) \/ CommitLogin(u) \/ Logout(u)
                 \/ RequestFails(u)
                 \/ \E role \in Roles : BeginLogin(u, role)
                 \/ \E s \in Logins : SessionExpires(u, s)
           \/ \E a \in Users :
                 \/ \E t \in Users, role \in Roles :
                       BeginRole(a, t, role) \/ BeginCreate(a, t, role)
                 \/ \E t \in Users, state \in States : BeginStatus(a, t, state)
                 \/ \E state \in States : BeginProvider(a, state)
                 \/ CommitRole(a) \/ CommitStatus(a) \/ CommitCreate(a) \/ CommitProvider(a)
    PROVE  EachSteps
<1>1. AccessNext
  BY DEF AccessNext
<1>2. UNCHANGED <<evidenceVars, syncVars, certificateVars>>
  BY DEF Accessing
<1> QED
  BY <1>1, <1>2, OneMoves

LEMMA CertificatesMove ==
    ASSUME Certifying, NEW p \in Processes,
           \/ \E c \in Certificates : Install(p, c) \/ Bootstrap(p, c) \/ Generate(p, c)
           \/ Flush(p) \/ WriteCertificate(p) \/ WriteKey(p) \/ Finish(p)
           \/ InstallFails(p) \/ ProcessStops(p)
    PROVE  EachSteps
<1>1. CertificateNext
  BY DEF CertificateNext
<1>2. UNCHANGED <<evidenceVars, syncVars, accessVars>>
  BY DEF Certifying
<1> QED
  BY <1>1, <1>2, OneMoves

LEMMA StepMoves == [MCNext]_mcVars => EachSteps
<1> SUFFICES ASSUME [MCNext]_mcVars PROVE EachSteps
  OBVIOUS
<1>1. CASE UNCHANGED mcVars
  BY <1>1 DEF mcVars, EachSteps
<1>2. ASSUME NEW u \in Uploads,
             \/ Reports /\ Takes(u) /\ Receive(u)
             \/ Vault /\ Store(u)
             \/ Reports /\ ReadHost(u)
             \/ Inventoried /\ ReadInventory(u)
             \/ Reports /\ Commit(u)
             \/ Vault /\ CommitFails(u)
             \/ Vault /\ Discard(u)
             \/ Vault /\ UploadStops(u)
             \/ Vault /\ RetentionEnds(u)
      PROVE  EachSteps
  BY <1>2, ReportsMove DEF Vault, Inventoried
<1>3. ASSUME NEW d \in Removals,
             \/ Vault /\ PurgeExpired(d)
             \/ Vault /\ CommitRemoval(d)
             \/ Vault /\ RemovalFails(d)
             \/ \E i \in Ids : Vault /\ DeleteArtifact(d, i)
             \/ \E i \in Ids : Vault /\ RemoveObject(d, i)
      PROVE  EachSteps
  BY <1>3, ReportsMove DEF Vault
<1>4. ASSUME \/ Inventoried /\ CreateHost
             \/ Inventoried /\ DeleteHost
             \/ Inventoried /\ RevokeToken /\ Waits
             \/ Inventoried /\ IssueToken
             \/ Vault /\ RevokeKey /\ Waits
             \/ Vault /\ RegisterKey
      PROVE  EachSteps
  BY <1>4, ReportsMove DEF Vault, Inventoried
<1>5. ASSUME NEW w \in Workers,
             \/ Sweeps(w)
             \/ Syncing /\ Enqueue(w)
             \/ Syncing /\ Claim(w)
             \/ Syncing /\ Start(w)
             \/ Syncing /\ ReadPackages(w)
             \/ Syncing /\ Fetch(w)
             \/ Syncing /\ Succeed(w)
             \/ Syncing /\ Fail(w)
             \/ Event /\ WorkerStops(w)
      PROVE  EachSteps
  BY <1>5, SyncMoves DEF Work, Sweeps
<1>6. ASSUME \/ Apart /\ Ask
             \/ Syncing /\ Queue
             \/ \E listed \in SUBSET Packages : \E found \in SUBSET listed :
                   Foremost /\ UploadSnapshot(listed, found)
             \/ Syncing /\ ImportSnapshot
             \/ Syncing /\ RefuseSnapshot
             \/ \E i \in Syncs : Apart /\ i = Latest /\ Ages(i)
             \/ \E i \in Syncs : Syncing /\ Overruns(i)
             \/ \E set \in SUBSET Packages \ {installed} : Changes(set) /\ InventoryChanges(set)
             \/ \E set \in SUBSET Packages \ {affected} : Apart /\ OsvChanges(set)
      PROVE  EachSteps
  BY <1>6, SyncMoves DEF Apart, Foremost, Changes
<1>7. ASSUME NEW u \in Users,
             \/ Access0 /\ OidcStart(u)
             \/ Access0 /\ OidcCallback(u)
             \/ \E role \in Roles : Access1 /\ BeginLogin(u, role)
             \/ Access0 /\ CommitLogin(u)
             \/ Access0 /\ Logout(u)
             \/ \E s \in Logins : Access0 /\ SessionExpires(u, s)
             \/ Access0 /\ RequestFails(u)
      PROVE  EachSteps
  BY <1>7, AccessMoves DEF Access0, Access1
<1>8. ASSUME NEW a \in Users,
             \/ \E t \in Users, role \in Roles : Access1 /\ BeginRole(a, t, role)
             \/ \E t \in Users, role \in Roles : Access1 /\ BeginCreate(a, t, role)
             \/ \E t \in Users, state \in States : Access1 /\ BeginStatus(a, t, state)
             \/ \E state \in States : Access1 /\ BeginProvider(a, state)
             \/ Access0 /\ CommitRole(a)
             \/ Access0 /\ CommitStatus(a)
             \/ Access0 /\ CommitCreate(a)
             \/ Access0 /\ CommitProvider(a)
      PROVE  EachSteps
  BY <1>8, AccessMoves DEF Access0, Access1
<1>9. ASSUME NEW p \in Processes,
             \/ \E c \in Certificates : Certifying /\ Install(p, c)
             \/ \E c \in Certificates : Certifying /\ Bootstrap(p, c)
             \/ \E c \in Certificates : Certifying /\ Generate(p, c)
             \/ Certifying /\ Flush(p)
             \/ Certifying /\ WriteCertificate(p)
             \/ Certifying /\ WriteKey(p)
             \/ Certifying /\ Finish(p)
             \/ Certifying /\ InstallFails(p)
             \/ Certifying /\ ProcessStops(p)
      PROVE  EachSteps
  BY <1>9, CertificatesMove
<1>10. ASSUME NEW x \in Appliers,
              \/ Syncing /\ ReadInstalled(x)
              \/ \E p \in Packages : Syncing /\ ReadMatch(x, p)
              \/ Syncing /\ ReadActive(x)
       PROVE  EachSteps
  <2>1. Syncing /\ Applies(x)
    BY <1>10 DEF Applies
  <2> QED
    BY <2>1, SyncMoves DEF Work, Appliers
<1> QED
  BY <1>1, <1>2, <1>3, <1>4, <1>5, <1>6, <1>7, <1>8, <1>9, <1>10 DEF MCNext

-----------------------------------------------------------------------------
(* The theorems *)

LEMMA ServicesStart == MCInit => EvidenceInit /\ SyncInit /\ AccessInit /\ CertificateInit
BY DEF MCInit

ServicesInv == EvidenceInv /\ SyncInv /\ AccessInv /\ CertificateInv

LEMMA ServicesInvariant == MCSpec => []ServicesInv
<1>1. MCInit => ServicesInv
  BY ServicesStart, EvidenceInitially, SyncInitially, AccessInitially, CertificateInitially
     DEF ServicesInv
<1>2. ServicesInv /\ [MCNext]_mcVars => ServicesInv'
  <2> SUFFICES ASSUME ServicesInv, EachSteps PROVE ServicesInv'
    BY StepMoves
  <2>1. EvidenceInv'
    BY VaultStep, InventoryStep DEF ServicesInv, EachSteps, EvidenceInv
  <2>2. SyncInv' /\ AccessInv' /\ CertificateInv'
    BY SyncPreserved, AccessStep, CertificateStep DEF ServicesInv, EachSteps
  <2> QED
    BY <2>1, <2>2 DEF ServicesInv
<1> QED
  BY <1>1, <1>2, PTL DEF MCSpec

\* Side by side the services do what each of them may do alone, for any values of the
\* constants: the composition leaves each service's state to that service's handlers.
THEOREM ServicesKeepTheirSpecifications ==
    MCSpec => /\ EvidenceSpec
              /\ SyncInit /\ [][SyncNext]_syncVars
              /\ AccessSpec
              /\ CertificateSpec
<1>1. [MCNext]_mcVars =>
         /\ [EvidenceNext]_evidenceVars /\ [SyncNext]_syncVars
         /\ [AccessNext]_accessVars /\ [CertificateNext]_certificateVars
  BY StepMoves DEF EachSteps
<1> QED
  BY <1>1, ServicesStart, PTL DEF MCSpec, EvidenceSpec, AccessSpec, CertificateSpec

\* Reports and evidence, synchronisation runs, accounts and certificates have their types
\* in every state of the composition.
THEOREM ServicesTypeCorrect == MCSpec => []TypeOK
<1>1. ServicesInv => TypeOK
  BY DEF ServicesInv, TypeOK, EvidenceInv, VaultInv, SyncInv, AccessInv, CertificateInv
<1> QED
  BY <1>1, ServicesInvariant, PTL

\* The invariants of the services, in every state of the composition: evidence is kept and
\* deleted evidence gone, the newest inventory is shown, a run has one worker, an
\* administrator remains, the certificate and the key belong together.  The evidence is
\* accepted, released, removed and deleted as in the archive.
THEOREM ServicesAreSafe ==
    MCSpec => /\ []( /\ EvidenceKept /\ DeletedMeansGone /\ NewestInventoryShown
                     /\ OneWorkerPerRun /\ AdminRemains /\ SettledPair )
              /\ ArchiveSpec
<1>1. ServicesInv => /\ EvidenceKept /\ DeletedMeansGone /\ NewestInventoryShown
                     /\ OneWorkerPerRun /\ AdminRemains /\ SettledPair
  BY DEF ServicesInv, EvidenceInv, VaultInv, InventoryInv, SyncInv, AccessInv,
     CertificateInv
<1> QED
  BY <1>1, ServicesInvariant, ServicesKeepTheirSpecifications, ImplementsArchive, PTL
=============================================================================
