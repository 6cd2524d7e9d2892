------------------------------- MODULE Access -------------------------------
(***************************************************************************)
(* Who may use the console: accounts, their roles, their sessions.  The    *)
(* platform starts with one local administrator; every other account comes *)
(* from the identity provider, preprovisioned by an administrator or made  *)
(* at its first login.  A provider login sets the role the provider maps,  *)
(* until an administrator sets the role by hand.                           *)
(*                                                                         *)
(* A request reads what it needs when it begins and writes when it ends;   *)
(* requests of different users interleave.  Only an attribute whose value  *)
(* differs from the one that was read is written.  A user has one request  *)
(* at a time; roles other than the administrator's are one role.           *)
(***************************************************************************)
EXTENDS Integers, FiniteSets

CONSTANTS
    Federated,   \* users the identity provider knows
    Root,        \* the local administrator
    MaxLogins    \* logins a user may complete

ASSUME AccessAssumption == Root \notin Federated /\ MaxLogins \in Nat

Users  == Federated \union {Root}
Roles  == {"admin", "other"}
States == {"on", "off"}
Logins == 1..MaxLogins

VARIABLES
    account,     \* the users table
    session,     \* the sessions of a user that are not revoked
    issued,      \* how many sessions a user has been given
    provider,    \* the identity provider: its protocol, whether it is enabled
    signOn,      \* OIDC: the browser is at the provider, or has come back
    request,     \* the request of a user that is being handled
    excused      \* ghost: an administrator's rights were lost in a known way

accessVars == <<account, session, issued, provider, signOn, request, excused>>

Account == [exists : BOOLEAN, role : Roles, source : {"manual", "provider"}, active : BOOLEAN]

Request == [op : {"none", "login", "role", "status", "create", "provider"}, target : Users,
            value : Roles \union States, saw : Account, live : SUBSET Logins]

AccessTypeOK ==
    /\ account \in [Users -> Account]
    /\ session \in [Users -> SUBSET Logins]
    /\ issued \in [Users -> 0..MaxLogins]
    /\ provider \in [protocol : {"oidc", "radius"}, enabled : BOOLEAN]
    /\ signOn \in [Users -> {"no", "away", "back"}]
    /\ request \in [Users -> Request]
    /\ excused \in BOOLEAN

Unknown == [exists |-> FALSE, role |-> "other", source |-> "manual", active |-> TRUE]
First   == [exists |-> TRUE, role |-> "admin", source |-> "manual", active |-> TRUE]
None    == [op |-> "none", target |-> Root, value |-> "off", saw |-> Unknown, live |-> {}]

AccessInit ==
    /\ account = [u \in Users |-> IF u = Root THEN First ELSE Unknown]
    /\ session = [u \in Users |-> {}]
    /\ issued = [u \in Users |-> 0]
    /\ provider \in [protocol : {"oidc", "radius"}, enabled : {FALSE}]
    /\ signOn = [u \in Users |-> "no"]
    /\ request = [u \in Users |-> None]
    /\ excused = FALSE

-----------------------------------------------------------------------------
(* Login *)

Active(u) == account[u].exists /\ account[u].active
IsAdmin(u) == Active(u) /\ account[u].role = "admin"

OidcStart(u) ==
    /\ u \in Federated
    /\ provider = [protocol |-> "oidc", enabled |-> TRUE]
    /\ signOn[u] = "no"
    /\ signOn' = [signOn EXCEPT ![u] = "away"]
    /\ UNCHANGED <<account, session, issued, provider, request, excused>>

\* The transaction is used up before the code is exchanged, and the provider
\* accepts a code once; a transaction that has expired is as good as used.
OidcCallback(u) ==
    /\ signOn[u] = "away"
    /\ \/ provider.enabled /\ signOn' = [signOn EXCEPT ![u] = "back"]
       \/ signOn' = [signOn EXCEPT ![u] = "no"]
    /\ UNCHANGED <<account, session, issued, provider, request, excused>>

\* The password is right, the RADIUS server accepts, or the code is exchanged.
Authenticated(u) ==
    \/ u = Root
    \/ provider.protocol = "radius" /\ provider.enabled
    \/ signOn[u] = "back"

\* login and jit_user read the account; an unknown one is to be made.
BeginLogin(u, role) ==
    /\ request[u] = None
    /\ Authenticated(u)
    /\ u = Root => Active(u) /\ role = account[u].role
    /\ account[u].exists => account[u].active
    /\ issued[u] < MaxLogins
    /\ request' = [request EXCEPT ![u] = [None EXCEPT !.op = "login", !.target = u,
                                                     !.value = role, !.saw = account[u]]]
    /\ signOn' = [signOn EXCEPT ![u] = "no"]
    /\ UNCHANGED <<account, session, issued, provider, excused>>

\* The account after a login that asserts a role.
SignedOn(u, r) ==
    IF ~r.saw.exists
    THEN [exists |-> TRUE, role |-> r.value, source |-> "provider", active |-> TRUE]
    ELSE IF r.saw.source = "provider" /\ r.saw.role # r.value
    THEN [account[u] EXCEPT !.role = r.value]
    ELSE account[u]

CommitLogin(u) ==
    LET r == request[u] IN
    /\ r.op = "login"
    /\ r.saw.exists \/ ~account[u].exists        \* else the insert conflicts
    /\ account' = [account EXCEPT ![u] = SignedOn(u, r)]
    /\ issued' = [issued EXCEPT ![u] = @ + 1]
    /\ session' = [session EXCEPT ![u] = @ \union {issued[u] + 1}]
    /\ request' = [request EXCEPT ![u] = None]
    /\ excused' = (excused \/ (IsAdmin(u) /\ SignedOn(u, r).role # "admin"))
    /\ UNCHANGED <<provider, signOn>>

Logout(u) ==
    /\ Active(u) /\ session[u] # {}
    /\ session' = [session EXCEPT ![u] = {}]
    /\ UNCHANGED <<account, issued, provider, signOn, request, excused>>

SessionExpires(u, s) ==
    /\ s \in session[u]
    /\ session' = [session EXCEPT ![u] = @ \ {s}]
    /\ UNCHANGED <<account, issued, provider, signOn, request, excused>>

-----------------------------------------------------------------------------
(* Administration *)

\* current_user and require_admin, when the request begins.
Admitted(a) == session[a] # {} /\ IsAdmin(a)

\* Mutant: only the role is protected.
SpareRole(a, t, value) == a = t => value # "other"

\* Administrators may not take their own role or disable themselves.
SpareSelf(a, t, value) == a = t => value \notin {"other", "off"}

Begin(a, op, t, value) ==
    /\ request[a] = None
    /\ Admitted(a)
    /\ request' = [request EXCEPT ![a] =
                     [op |-> op, target |-> t, value |-> value, saw |-> account[t],
                      live |-> IF op = "status" /\ value = "off" THEN session[t] ELSE {}]]
    /\ UNCHANGED <<account, session, issued, provider, signOn, excused>>

BeginRole(a, t, role) ==
    account[t].exists /\ SpareSelf(a, t, role) /\ Begin(a, "role", t, role)

BeginStatus(a, t, state) ==
    account[t].exists /\ SpareSelf(a, t, state) /\ Begin(a, "status", t, state)

BeginCreate(a, t, role) ==
    t \in Federated /\ Begin(a, "create", t, role)

BeginProvider(a, state) == Begin(a, "provider", a, state)

\* The administrator who acts may have lost the rights since the request began.
Commits(a, op) ==
    /\ request[a].op = op
    /\ request' = [request EXCEPT ![a] = None]
    /\ excused' = (excused \/ ~IsAdmin(a))
    /\ UNCHANGED <<issued, signOn>>

CommitRole(a) ==
    LET r == request[a] IN
    /\ Commits(a, "role")
    /\ account' = [account EXCEPT
          ![r.target].role   = IF r.saw.role # r.value THEN r.value ELSE @,
          ![r.target].source = IF r.saw.source # "manual" THEN "manual" ELSE @]
    /\ UNCHANGED <<session, provider>>

\* The sessions that were read are revoked with the account.
CommitStatus(a) ==
    LET r == request[a] IN
    /\ Commits(a, "status")
    /\ account' = [account EXCEPT
          ![r.target].active = IF r.saw.active # (r.value = "on") THEN r.value = "on" ELSE @]
    /\ session' = [session EXCEPT ![r.target] = @ \ r.live]
    /\ UNCHANGED provider

CommitCreate(a) ==
    LET r == request[a] IN
    /\ Commits(a, "create")
    /\ ~account[r.target].exists                 \* else the insert conflicts
    /\ account' = [account EXCEPT ![r.target] =
          [exists |-> TRUE, role |-> r.value, source |-> "manual", active |-> TRUE]]
    /\ UNCHANGED <<session, provider>>

CommitProvider(a) ==
    /\ Commits(a, "provider")
    /\ provider' = [provider EXCEPT !.enabled = (request[a].value = "on")]
    /\ UNCHANGED <<account, session>>

\* A conflict or an error: nothing is written.
RequestFails(u) ==
    /\ request[u] # None
    /\ request' = [request EXCEPT ![u] = None]
    /\ UNCHANGED <<account, session, issued, provider, signOn, excused>>

AccessNext ==
    \/ \E u \in Users :
          \/ OidcStart(u) \/ OidcCallback(u) \/ CommitLogin(u) \/ Logout(u) \/ RequestFails(u)
          \/ \E role \in Roles : BeginLogin(u, role)
          \/ \E s \in Logins : SessionExpires(u, s)
    \/ \E a \in Users :
          \/ \E t \in Users, role \in Roles : BeginRole(a, t, role) \/ BeginCreate(a, t, role)
          \/ \E t \in Users, state \in States : BeginStatus(a, t, state)
          \/ \E state \in States : BeginProvider(a, state)
          \/ CommitRole(a) \/ CommitStatus(a) \/ CommitCreate(a) \/ CommitProvider(a)

AccessSpec == AccessInit /\ [][AccessNext]_accessVars

-----------------------------------------------------------------------------

\* There is always an active administrator: the platform is never locked out by
\* role changes, disabled accounts and logins in any order, unless a change was
\* committed for an administrator who lost the rights while it was handled, or
\* the identity provider took the role away (update_user_role,
\* update_user_status, jit_user).
AdminRemains == (\E u \in Users : IsAdmin(u)) \/ excused
=============================================================================
