---------------------------- MODULE AdministrationProofs ----------------------------
(***************************************************************************)
(* Proofs about what administrators change: the accounts (Access, for any  *)
(* users and any number of logins) and the certificate of the console      *)
(* (Certificates, for any processes and any certificates).                 *)
(***************************************************************************)
EXTENDS Access, Certificates, TLAPS

-----------------------------------------------------------------------------
(* Accounts: the inductive invariant *)

\* What a request carries: a login that may still be completed, a role to give,
\* a state to set; administrators spare themselves.
RequestInv ==
    \A u \in Users :
        /\ request[u].op = "login" => issued[u] < MaxLogins
        /\ request[u].op \in {"login", "role", "create"} => request[u].value \in Roles
        /\ request[u].op = "role" /\ request[u].target = u => request[u].value = "admin"
        /\ request[u].op = "status" /\ request[u].target = u => request[u].value = "on"

AccessInv == AccessTypeOK /\ RequestInv /\ AdminRemains

-----------------------------------------------------------------------------
(* Types and requests *)

LEMMA AccessInitially == AccessInit => AccessInv
<1> SUFFICES ASSUME AccessInit PROVE AccessInv
  OBVIOUS
<1>1. Unknown \in Account /\ First \in Account /\ First.role = "admin"
  BY DEF Unknown, First, Account, Roles
<1>2. None \in Request /\ None.op = "none"
  BY <1>1 DEF None, Request, Users, Roles, States
<1>3. AccessTypeOK
  <2>1. account \in [Users -> Account]
    BY <1>1 DEF AccessInit
  <2>2. issued \in [Users -> 0..MaxLogins]
    BY AccessAssumption DEF AccessInit
  <2>3. provider \in [protocol : {"oidc", "radius"}, enabled : BOOLEAN]
    BY DEF AccessInit
  <2>4. QED
    BY <1>2, <2>1, <2>2, <2>3 DEF AccessInit, AccessTypeOK
<1>4. RequestInv
  BY <1>2 DEF AccessInit, RequestInv
<1>5. Root \in Users /\ account[Root] = First
  BY DEF AccessInit, Users
<1>6. AdminRemains
  BY <1>5 DEF AdminRemains, IsAdmin, Active, First
<1>7. QED
  BY <1>3, <1>4, <1>6 DEF AccessInv

\* A request that begins, or ends without writing, leaves the accounts alone.
LEMMA BeginStep ==
    ASSUME AccessTypeOK, RequestInv, NEW u \in Users,
           \/ \E role \in Roles : BeginLogin(u, role)
           \/ \E t \in Users, role \in Roles : BeginRole(u, t, role) \/ BeginCreate(u, t, role)
           \/ \E t \in Users, state \in States : BeginStatus(u, t, state)
           \/ \E state \in States : BeginProvider(u, state)
           \/ RequestFails(u)
    PROVE  AccessTypeOK' /\ RequestInv' /\ UNCHANGED <<account, excused>>
<1>0. Unknown \in Account /\ None \in Request /\ None.op = "none"
  BY DEF Unknown, None, Account, Request, Users, Roles, States
<1>1. ASSUME NEW role \in Roles, BeginLogin(u, role)
      PROVE  AccessTypeOK' /\ RequestInv' /\ UNCHANGED <<account, excused>>
  <2>1. [None EXCEPT !.op = "login", !.target = u, !.value = role, !.saw = account[u]] \in Request
    BY DEF AccessTypeOK, None, Request
  <2>2. AccessTypeOK'
    BY <1>1, <2>1 DEF BeginLogin, AccessTypeOK
  <2>3. RequestInv'
    BY <1>1 DEF BeginLogin, AccessTypeOK, RequestInv, None
  <2>4. QED
    BY <1>1, <2>2, <2>3 DEF BeginLogin
<1>2. ASSUME NEW op \in {"role", "status", "create", "provider"}, NEW t \in Users,
             NEW value \in Roles \union States, Begin(u, op, t, value),
             op \in {"role", "create"} => value \in Roles,
             op = "role" /\ t = u => value = "admin",
             op = "status" /\ t = u => value = "on"
      PROVE  AccessTypeOK' /\ RequestInv' /\ UNCHANGED <<account, excused>>
  <2> DEFINE live == IF op = "status" /\ value = "off" THEN session[t] ELSE {}
             new  == [op |-> op, target |-> t, value |-> value, saw |-> account[t], live |-> live]
  <2>1. live \in SUBSET Logins
    BY DEF AccessTypeOK
  <2>2. account[t] \in Account
    BY DEF AccessTypeOK
  <2> HIDE DEF live
  <2>3. new \in Request
    BY <2>1, <2>2 DEF Request
  <2>4. request' = [request EXCEPT ![u] = new]
    BY <1>2 DEF Begin, live
  <2>5. new.op = op /\ new.target = t /\ new.value = value
    OBVIOUS
  <2> HIDE DEF new
  <2>6. AccessTypeOK'
    BY <1>2, <2>3, <2>4 DEF Begin, AccessTypeOK
  <2>7. RequestInv'
    BY <1>2, <2>4, <2>5 DEF Begin, AccessTypeOK, RequestInv
  <2>8. QED
    BY <1>2, <2>6, <2>7 DEF Begin
<1>3. ASSUME NEW t \in Users, NEW role \in Roles, BeginRole(u, t, role)
      PROVE  AccessTypeOK' /\ RequestInv' /\ UNCHANGED <<account, excused>>
  BY <1>2, <1>3 DEF BeginRole, SpareSelf, Roles
<1>4. ASSUME NEW t \in Users, NEW role \in Roles, BeginCreate(u, t, role)
      PROVE  AccessTypeOK' /\ RequestInv' /\ UNCHANGED <<account, excused>>
  BY <1>2, <1>4 DEF BeginCreate
<1>5. ASSUME NEW t \in Users, NEW state \in States, BeginStatus(u, t, state)
      PROVE  AccessTypeOK' /\ RequestInv' /\ UNCHANGED <<account, excused>>
  BY <1>2, <1>5 DEF BeginStatus, SpareSelf, States
<1>6. ASSUME NEW state \in States, BeginProvider(u, state)
      PROVE  AccessTypeOK' /\ RequestInv' /\ UNCHANGED <<account, excused>>
  BY <1>2, <1>6 DEF BeginProvider
<1>7. CASE RequestFails(u)
  BY <1>0, <1>7 DEF RequestFails, AccessTypeOK, RequestInv
<1>8. QED
  BY <1>1, <1>3, <1>4, <1>5, <1>6, <1>7

\* Sign-on, logout and expiry concern sessions and the browser only.
LEMMA SessionStep ==
    ASSUME AccessTypeOK, RequestInv, NEW u \in Users,
           \/ OidcStart(u) \/ OidcCallback(u) \/ Logout(u)
           \/ \E s \in Logins : SessionExpires(u, s)
    PROVE  AccessTypeOK' /\ RequestInv' /\ UNCHANGED <<account, excused>>
<1>1. CASE OidcStart(u)
  BY <1>1 DEF OidcStart, AccessTypeOK, RequestInv
<1>2. CASE OidcCallback(u)
  BY <1>2 DEF OidcCallback, AccessTypeOK, RequestInv
<1>3. CASE Logout(u)
  BY <1>3 DEF Logout, AccessTypeOK, RequestInv
<1>4. CASE \E s \in Logins : SessionExpires(u, s)
  BY <1>4 DEF SessionExpires, AccessTypeOK, RequestInv
<1>5. QED
  BY <1>1, <1>2, <1>3, <1>4

-----------------------------------------------------------------------------
(* Commits *)

\* A login keeps an account as it is, apart from a role the provider maps.
LEMMA SignedOnKeeps ==
    ASSUME AccessTypeOK, RequestInv, NEW u \in Users, CommitLogin(u)
    PROVE  /\ SignedOn(u, request[u]) \in Account
           /\ IsAdmin(u) /\ ~excused' => SignedOn(u, request[u]).exists
                                         /\ SignedOn(u, request[u]).active
                                         /\ SignedOn(u, request[u]).role = "admin"
<1>1. account[u] \in Account /\ request[u].value \in Roles /\ request[u].op = "login"
  BY DEF AccessTypeOK, RequestInv, CommitLogin
<1>2. CASE ~request[u].saw.exists
  BY <1>1, <1>2 DEF CommitLogin, SignedOn, Account, IsAdmin, Active
<1>3. CASE request[u].saw.exists /\ request[u].saw.source = "provider"
           /\ request[u].saw.role # request[u].value
  <2>1. SignedOn(u, request[u]) = [account[u] EXCEPT !.role = request[u].value]
    BY <1>3 DEF SignedOn
  <2>2. IsAdmin(u) /\ ~excused' => SignedOn(u, request[u]).role = "admin"
    BY DEF CommitLogin
  <2>3. QED
    BY <1>1, <2>1, <2>2 DEF Account, IsAdmin, Active
<1>4. CASE request[u].saw.exists /\ ~(request[u].saw.source = "provider"
           /\ request[u].saw.role # request[u].value)
  BY <1>1, <1>4 DEF SignedOn, IsAdmin, Active
<1>5. QED
  BY <1>2, <1>3, <1>4

LEMMA LoginStep ==
    ASSUME AccessInv, NEW u \in Users, CommitLogin(u)
    PROVE  AccessInv'
<1>1. AccessTypeOK /\ RequestInv /\ AdminRemains
  BY DEF AccessInv
<1>2. None \in Request /\ None.op = "none"
  BY DEF Unknown, None, Account, Request, Users, Roles, States
<1>3. issued[u] + 1 \in Logins /\ issued[u] \in Nat
  BY <1>1, AccessAssumption DEF AccessTypeOK, RequestInv, CommitLogin, Logins
<1>4. AccessTypeOK'
  <2>1. issued' \in [Users -> 0..MaxLogins]
    BY <1>1, <1>3, AccessAssumption DEF AccessTypeOK, CommitLogin, Logins
  <2>2. session' \in [Users -> SUBSET Logins]
    BY <1>1, <1>3 DEF AccessTypeOK, CommitLogin
  <2>3. account' \in [Users -> Account]
    BY <1>1, SignedOnKeeps DEF AccessTypeOK, CommitLogin
  <2>4. excused' \in BOOLEAN
    BY DEF CommitLogin
  <2>5. QED
    BY <1>1, <1>2, <2>1, <2>2, <2>3, <2>4 DEF AccessTypeOK, CommitLogin
<1>5. RequestInv'
  BY <1>1, <1>2 DEF AccessTypeOK, RequestInv, CommitLogin
<1>6. ASSUME NEW v \in Users, IsAdmin(v), ~excused' PROVE IsAdmin(v)'
  <2>1. account' = [account EXCEPT ![u] = SignedOn(u, request[u])]
    BY DEF CommitLogin
  <2>2. CASE v = u
    BY <1>1, <1>6, <2>1, <2>2, SignedOnKeeps DEF AccessTypeOK, IsAdmin, Active
  <2>3. CASE v # u
    BY <1>1, <1>6, <2>1, <2>3 DEF AccessTypeOK, IsAdmin, Active
  <2>4. QED
    BY <2>2, <2>3
<1>7. excused => excused'
  BY DEF CommitLogin
<1>8. AdminRemains'
  BY <1>1, <1>6, <1>7 DEF AdminRemains
<1>9. QED
  BY <1>4, <1>5, <1>8 DEF AccessInv

\* What an administrator commits leaves the administrator one, or is excused.
LEMMA AdministrationStep ==
    ASSUME AccessInv, NEW a \in Users,
           CommitRole(a) \/ CommitStatus(a) \/ CommitCreate(a) \/ CommitProvider(a)
    PROVE  AccessInv'
<1>1. AccessTypeOK /\ RequestInv
  BY DEF AccessInv
<1>2. None \in Request /\ None.op = "none"
  BY DEF Unknown, None, Account, Request, Users, Roles, States
<1>3. request[a] \in Request /\ request[a].target \in Users /\ account[request[a].target] \in Account
  BY <1>1 DEF AccessTypeOK, Request
<1>4. /\ request' = [request EXCEPT ![a] = None]
      /\ excused' = (excused \/ ~IsAdmin(a))
      /\ UNCHANGED <<issued, signOn>>
  BY DEF CommitRole, CommitStatus, CommitCreate, CommitProvider, Commits
<1>5. RequestInv'
  BY <1>1, <1>2, <1>4 DEF AccessTypeOK, RequestInv
<1>6. account' \in [Users -> Account] /\ (IsAdmin(a) => IsAdmin(a)')
  <2>1. CASE CommitRole(a)
    <3>1. request[a].value \in Roles /\ (request[a].target = a => request[a].value = "admin")
      BY <1>1, <2>1 DEF RequestInv, CommitRole, Commits
    <3>2. QED
      BY <1>1, <1>3, <2>1, <3>1 DEF AccessTypeOK, CommitRole, Account, IsAdmin, Active
  <2>2. CASE CommitStatus(a)
    <3>1. request[a].target = a => request[a].value = "on"
      BY <1>1, <2>2 DEF RequestInv, CommitStatus, Commits
    <3>2. account'[request[a].target].active =
             IF request[a].saw.active # (request[a].value = "on") THEN request[a].value = "on"
             ELSE account[request[a].target].active
      BY <1>1, <1>3, <2>2 DEF AccessTypeOK, CommitStatus, Account
    <3>3. account' = [account EXCEPT ![request[a].target].active =
                        account'[request[a].target].active]
      BY <2>2, <3>2 DEF CommitStatus
    <3>4. account'[request[a].target].active \in BOOLEAN
      BY <1>3, <3>2 DEF Account
    <3>5. request[a].target = a /\ IsAdmin(a) => account'[a].active
      BY <3>1, <3>2 DEF IsAdmin, Active
    <3>6. QED
      BY <1>1, <1>3, <3>3, <3>4, <3>5 DEF AccessTypeOK, Account, IsAdmin, Active
  <2>3. CASE CommitCreate(a)
    <3>1. request[a].value \in Roles
      BY <1>1, <2>3 DEF RequestInv, CommitCreate, Commits
    <3>2. QED
      BY <1>1, <1>3, <2>3, <3>1 DEF AccessTypeOK, CommitCreate, Account, IsAdmin, Active
  <2>4. CASE CommitProvider(a)
    BY <1>1, <2>4 DEF AccessTypeOK, CommitProvider, IsAdmin, Active
  <2>5. QED
    BY <2>1, <2>2, <2>3, <2>4
<1>7. session' \in [Users -> SUBSET Logins]
  BY <1>1, <1>3 DEF AccessTypeOK, CommitRole, CommitStatus, CommitCreate, CommitProvider
<1>8. provider' \in [protocol : {"oidc", "radius"}, enabled : BOOLEAN]
  <2>1. CASE CommitProvider(a)
    <3>1. (request[a].value = "on") \in BOOLEAN
      OBVIOUS
    <3>2. QED
      BY <1>1, <2>1, <3>1 DEF AccessTypeOK, CommitProvider
  <2>2. CASE ~CommitProvider(a)
    BY <1>1, <2>2 DEF AccessTypeOK, CommitRole, CommitStatus, CommitCreate
  <2>3. QED
    BY <2>1, <2>2
<1>9. excused' \in BOOLEAN
  BY <1>4
<1>10. AccessTypeOK'
  BY <1>1, <1>2, <1>4, <1>6, <1>7, <1>8, <1>9 DEF AccessTypeOK
<1>11. AdminRemains'
  BY <1>4, <1>6 DEF AdminRemains
<1>12. QED
  BY <1>5, <1>10, <1>11 DEF AccessInv

LEMMA AccessStep == AccessInv /\ [AccessNext]_accessVars => AccessInv'
<1> SUFFICES ASSUME AccessInv, [AccessNext]_accessVars PROVE AccessInv'
  OBVIOUS
<1>1. ASSUME UNCHANGED <<account, excused>> PROVE AdminRemains'
  BY <1>1 DEF AccessInv, AdminRemains, IsAdmin, Active
<1>2. CASE UNCHANGED accessVars
  BY <1>1, <1>2 DEF accessVars, AccessInv, AccessTypeOK, RequestInv
<1>3. CASE AccessNext
  BY <1>1, <1>3, BeginStep, SessionStep, LoginStep, AdministrationStep DEF AccessNext, AccessInv
<1>4. QED
  BY <1>2, <1>3

-----------------------------------------------------------------------------
(* Accounts: the theorems *)

\* Every reachable state has its types.
THEOREM AccessTypeCorrect == AccessSpec => []AccessTypeOK
<1>1. AccessInv => AccessTypeOK
  BY DEF AccessInv
<1>2. QED
  BY <1>1, AccessInitially, AccessStep, PTL DEF AccessSpec

\* The platform keeps an active administrator, with any number of users whose
\* requests and logins overlap, except for the two ways that are excused.
THEOREM NobodyLocksEverybodyOut == AccessSpec => []AdminRemains
<1>1. AccessInv => AdminRemains
  BY DEF AccessInv
<1>2. QED
  BY <1>1, AccessInitially, AccessStep, PTL DEF AccessSpec

-----------------------------------------------------------------------------
(* Certificates: the inductive invariant *)

\* A process that installs has a certificate, and one that only starts takes an
\* active one.
HoldsCertificate == \A p \in Processes : Busy(p) => process[p].cert \in Certificates

\* While nobody overlaps, one process at most is writing; the files have what it
\* has written, and what it does not have to record is still active.
SoleWriter ==
    ~overlap =>
        /\ \A p, q \in Processes : Busy(p) /\ Busy(q) => p = q
        /\ \A p \in Processes :
              /\ process[p].pc \in {"half", "written"} => certFile = process[p].cert
              /\ process[p].pc = "written" => keyFile = process[p].cert
              /\ Busy(p) /\ ~process[p].recording => process[p].cert \in active

\* The last to write has come to its end: nobody is writing.
Quiet == settled => \A p \in Processes : ~Busy(p)

CertificateInv ==
    CertificateTypeOK /\ HoldsCertificate /\ SoleWriter /\ Quiet /\ SettledPair

-----------------------------------------------------------------------------
(* Certificates: the steps *)

LEMMA CertificateInitially == CertificateInit => CertificateInv
<1> SUFFICES ASSUME CertificateInit PROVE CertificateInv
  OBVIOUS
<1>1. Down \in Process
  BY DEF Down, Process
<1>2. CertificateTypeOK
  BY <1>1 DEF CertificateInit, CertificateTypeOK
<1>3. \A p \in Processes : ~Busy(p) /\ process[p].pc = "down"
  BY DEF CertificateInit, Busy, Down
<1>4. HoldsCertificate /\ SoleWriter /\ Quiet /\ SettledPair
  BY <1>3 DEF CertificateInit, HoldsCertificate, SoleWriter, Quiet, SettledPair
<1>5. QED
  BY <1>2, <1>4 DEF CertificateInv

\* A process that begins overlaps with those that are writing already.
LEMMA BeginsStep ==
    ASSUME CertificateInv, NEW p \in Processes, NEW doing \in Process, Begins(p, doing),
           ~Busy(p), doing.pc \in {"read", "flushed"}, doing.cert \in Certificates,
           ~doing.recording => doing.cert \in active
    PROVE  CertificateInv'
<1>1. CertificateTypeOK'
  BY DEF CertificateInv, CertificateTypeOK, Begins
<1>2. HoldsCertificate'
  BY DEF CertificateInv, CertificateTypeOK, HoldsCertificate, Busy, Begins
<1>3. SoleWriter'
  BY DEF CertificateInv, CertificateTypeOK, SoleWriter, Busy, Begins
<1>4. Quiet' /\ SettledPair'
  BY DEF Begins, Quiet, SettledPair
<1>5. QED
  BY <1>1, <1>2, <1>3, <1>4 DEF CertificateInv

\* Installing and starting both begin in this way.
LEMMA StartStep ==
    ASSUME CertificateInv, NEW p \in Processes, NEW c \in Certificates,
           Install(p, c) \/ (Bootstrap(p, c) /\ active # {}) \/ Generate(p, c)
    PROVE  CertificateInv'
<1>1. CASE Install(p, c)
  <2>1. [Down EXCEPT !.pc = "read", !.recording = TRUE, !.cert = c, !.saw = active] \in Process
    BY DEF CertificateInv, CertificateTypeOK, Process, Down
  <2>2. QED
    BY <1>1, <2>1, BeginsStep DEF Install, Busy, Down
<1>2. CASE Bootstrap(p, c) /\ active # {}
  <2>1. [Down EXCEPT !.pc = "flushed", !.starting = TRUE, !.cert = c] \in Process
    BY DEF Process, Down
  <2>2. QED
    BY <1>2, <2>1, BeginsStep DEF Bootstrap, Busy, Down
<1>3. CASE Generate(p, c)
  <2>1. [Down EXCEPT !.pc = "read", !.starting = TRUE, !.recording = TRUE, !.cert = c,
                     !.saw = active] \in Process
    BY DEF CertificateInv, CertificateTypeOK, Process, Down
  <2>2. QED
    BY <1>3, <2>1, BeginsStep DEF Generate, Busy, Down
<1>4. QED
  BY <1>1, <1>2, <1>3

\* A writer goes on to its next file.
LEMMA WriteStep ==
    ASSUME CertificateInv, NEW p \in Processes, Flush(p) \/ WriteCertificate(p) \/ WriteKey(p)
    PROVE  CertificateInv'
<1>1. Busy(p) /\ process[p].cert \in Certificates /\ ~settled
  BY DEF CertificateInv, HoldsCertificate, Quiet, Busy, Flush, WriteCertificate, WriteKey
<1>2. CertificateTypeOK'
  BY <1>1 DEF CertificateInv, CertificateTypeOK, Process, Moves, Flush, WriteCertificate, WriteKey
<1>3. HoldsCertificate'
  BY <1>1 DEF CertificateInv, CertificateTypeOK, HoldsCertificate, Busy, Process, Moves, Flush,
              WriteCertificate, WriteKey
<1>4. SoleWriter'
  <2>1. CASE Flush(p)
    BY <1>1, <2>1 DEF CertificateInv, CertificateTypeOK, SoleWriter, Busy, Process, Moves, Flush
  <2>2. CASE WriteCertificate(p)
    BY <1>1, <2>2 DEF CertificateInv, CertificateTypeOK, SoleWriter, Busy, Process, Moves,
                      WriteCertificate
  <2>3. CASE WriteKey(p)
    BY <1>1, <2>3 DEF CertificateInv, CertificateTypeOK, SoleWriter, Busy, Process, Moves, WriteKey
  <2>4. QED
    BY <2>1, <2>2, <2>3
<1>5. Quiet' /\ SettledPair'
  BY <1>1 DEF Quiet, SettledPair, Moves, Flush, WriteCertificate, WriteKey
<1>6. QED
  BY <1>2, <1>3, <1>4, <1>5 DEF CertificateInv

\* A writer that was alone leaves the pair it recorded, or found active.
LEMMA FinishStep ==
    ASSUME CertificateInv, NEW p \in Processes, Finish(p)
    PROVE  CertificateInv'
<1>1. Busy(p) /\ process[p].cert \in Certificates
  BY DEF CertificateInv, HoldsCertificate, Busy, Finish
<1>2. process' = [process EXCEPT ![p] = Serving] /\ Serving \in Process /\ Serving.pc = "idle"
  BY DEF Finish, Serving, Down, Process
<1>3. CertificateTypeOK'
  BY <1>1, <1>2 DEF CertificateInv, CertificateTypeOK, Finish
<1>4. HoldsCertificate'
  BY <1>2 DEF CertificateInv, CertificateTypeOK, HoldsCertificate, Busy
<1>5. overlap' = overlap /\ certFile' = certFile /\ keyFile' = keyFile
  BY DEF Finish
<1>6. ~overlap => \A q \in Processes : ~Busy(q)'
  BY <1>1, <1>2 DEF CertificateInv, CertificateTypeOK, SoleWriter, Busy
<1>7. ~overlap => \A q \in Processes : process'[q].pc \notin {"half", "written"}
  BY <1>6 DEF Busy
<1>8. SoleWriter'
  BY <1>5, <1>6, <1>7 DEF SoleWriter
<1>9. Quiet'
  BY <1>6 DEF Quiet, Finish
<1>10. SettledPair'
  <2> SUFFICES ASSUME ~overlap PROVE certFile' = keyFile' /\ certFile' \in active'
    BY DEF SettledPair, Finish
  <2>1. process[p].pc = "written"
    BY DEF Finish
  <2>2. certFile = process[p].cert /\ keyFile = process[p].cert
    BY <2>1 DEF CertificateInv, SoleWriter
  <2>3. ~process[p].recording => process[p].cert \in active
    BY <1>1 DEF CertificateInv, SoleWriter
  <2>4. process[p].cert \in active'
    BY <2>3 DEF Finish
  <2>5. QED
    BY <1>5, <2>2, <2>4
<1>11. QED
  BY <1>3, <1>4, <1>8, <1>9, <1>10 DEF CertificateInv

\* An upload that fails, a process that stops and one that generates a certificate leave the
\* files as they are.
LEMMA StopStep ==
    ASSUME CertificateInv, NEW p \in Processes, InstallFails(p) \/ ProcessStops(p) \/ Generates(p)
    PROVE  CertificateInv'
<1> DEFINE Generating == [Down EXCEPT !.pc = "generating", !.starting = TRUE]
<1>1. PICK rest \in {Down, Serving, Generating} : process' = [process EXCEPT ![p] = rest]
  <2>1. CASE InstallFails(p) /\ ~process[p].starting
    BY <2>1 DEF InstallFails
  <2>2. CASE InstallFails(p) /\ process[p].starting
    BY <2>2 DEF InstallFails
  <2>3. CASE ProcessStops(p)
    BY <2>3 DEF ProcessStops
  <2>4. CASE Generates(p)
    BY <2>4 DEF Generates
  <2>5. QED
    BY <2>1, <2>2, <2>3, <2>4
<1>2. rest \in Process /\ rest.pc \in {"down", "idle", "generating"}
  <2>1. Down \in Process /\ Down.pc = "down"
    BY DEF Down, Process
  <2>2. Serving \in Process /\ Serving.pc = "idle"
    BY DEF Serving, Down, Process
  <2>3. Generating \in Process /\ Generating.pc = "generating"
    BY DEF Down, Process
  <2>4. QED
    BY <2>1, <2>2, <2>3
<1>3. UNCHANGED <<stored, active, certFile, keyFile, overlap, settled>>
  BY DEF InstallFails, ProcessStops, Generates
<1>4. CertificateTypeOK'
  BY <1>1, <1>2, <1>3 DEF CertificateInv, CertificateTypeOK
<1>5. \A q \in Processes : process'[q] = process[q] \/ ~Busy(q)'
  BY <1>1, <1>2 DEF CertificateInv, CertificateTypeOK, Busy
<1>6. \A q \in Processes : Busy(q)' => Busy(q) /\ process'[q] = process[q]
  BY <1>5 DEF Busy
<1>7. HoldsCertificate' /\ Quiet'
  BY <1>3, <1>6 DEF CertificateInv, HoldsCertificate, Quiet
<1>8. SoleWriter'
  <2>1. \A q \in Processes : process'[q].pc \in {"half", "written"} => Busy(q)'
    BY DEF Busy
  <2>2. QED
    BY <1>3, <1>6, <2>1 DEF CertificateInv, SoleWriter
<1>9. SettledPair'
  BY <1>3 DEF CertificateInv, SettledPair
<1>10. QED
  BY <1>4, <1>7, <1>8, <1>9 DEF CertificateInv

LEMMA CertificateStep == CertificateInv /\ [CertificateNext]_certificateVars => CertificateInv'
<1> SUFFICES ASSUME CertificateInv, [CertificateNext]_certificateVars PROVE CertificateInv'
  OBVIOUS
<1>1. CASE UNCHANGED certificateVars
  BY <1>1 DEF certificateVars, CertificateInv, CertificateTypeOK, HoldsCertificate, SoleWriter,
              Quiet, SettledPair, Busy
<1>2. ASSUME NEW p \in Processes, NEW c \in Certificates, Bootstrap(p, c), active = {}
      PROVE  Generates(p)
  BY <1>2 DEF Bootstrap
<1>3. CASE CertificateNext
  BY <1>2, <1>3, StartStep, WriteStep, FinishStep, StopStep DEF CertificateNext
<1>4. QED
  BY <1>1, <1>3

-----------------------------------------------------------------------------
(* Certificates: the theorems *)

\* Every reachable state has its types; what is active is on record.
THEOREM CertificateTypeCorrect == CertificateSpec => []CertificateTypeOK
<1>1. CertificateInv => CertificateTypeOK
  BY DEF CertificateInv
<1>2. QED
  BY <1>1, CertificateInitially, CertificateStep, PTL DEF CertificateSpec

\* However many processes upload, start and stop: a writer that was alone and came
\* to its end leaves a certificate with its own key, and an active one.
THEOREM SoleWriterSettles == CertificateSpec => []SettledPair
<1>1. CertificateInv => SettledPair
  BY DEF CertificateInv
<1>2. QED
  BY <1>1, CertificateInitially, CertificateStep, PTL DEF CertificateSpec
=============================================================================
