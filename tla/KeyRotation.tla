---------------------------- MODULE KeyRotation ----------------------------
(***************************************************************************)
(* Two-phase rotation of a tenant's platform command signing key, with the *)
(* enrollment and re-enrollment of the agents that trust it.               *)
(*                                                                         *)
(* The platform signs every control response with the key recorded in the  *)
(* agent's row.  An agent verifies it with the key pinned in a file, or    *)
(* with the pending key it remembers in state.json.  An administrator      *)
(* stages a successor, waits for the acknowledgements, and activates it.   *)
(*                                                                         *)
(* One action is one database transaction of the platform, or one step of  *)
(* an agent process between two points where it can crash.  A key is its   *)
(* version number.  Of the capabilities of an agent, the two that decide    *)
(* anything here are kept: signed control, without which an agent gives up *)
(* its own enrollment, and key rotation, without which its acknowledgement *)
(* is not counted.  A row has those named when the agent enrolled until a  *)
(* heartbeat names them all.  Sequence numbers and the expiry of an        *)
(* envelope are left out: every answer here is fresh and genuine.          *)
(***************************************************************************)
EXTENDS Naturals

CONSTANTS
    Agents,             \* managed hosts, each with its LinuxAgent row
    Procs,              \* lsa_agent.py processes a host may run (daemon, once)
    Tokens,             \* enrollment tokens
    Reusable,           \* the tokens of type "reusable"; the others are one_time
    MaxKeys,            \* bound: signing keys a tenant ever creates
    KeyFileWritable,    \* may the service write the directory of the pinned key?
    FilesKept,          \* do operators leave state.json in place (UI guidance)?
    NamedAtEnrollment   \* the capabilities an agent names in its enrollment request

ASSUME RotationConstants ==
    /\ MaxKeys \in Nat \ {0}
    /\ Reusable \subseteq Tokens
    /\ KeyFileWritable \in BOOLEAN
    /\ FilesKept \in BOOLEAN
    /\ NamedAtEnrollment \subseteq {"signed-control", "key-rotation"}

VARIABLES
    status,  \* platform_command_signing_keys.status, per version
    row,     \* linux_agents: credentials live?, signing key, pending key, acknowledged?,
             \* key rotation among the capabilities it last named?
    token,   \* agent_enrollment_tokens: state and the key it is pinned to
    late,    \* heartbeats whose client gave up before they were handled
    file,    \* the pinned key file of each host
    disk,    \* state.json of each host: trusted key and pending key
    run,     \* the agent processes of each host
    reply    \* the enrollment response on its way to each host

vars == <<status, row, token, late, file, disk, run, reply>>
hostVars == <<file, disk, run, reply>>

-----------------------------------------------------------------------------
Keys  == 1..MaxKeys
NoKey == 0
KeyOrNone == Keys \union {NoKey}

\* platform_command_key_id and pending_platform_trust; no state.json is NoKey.
Trust   == [kid : KeyOrNone, pend : KeyOrNone]
NoTrust == [kid |-> NoKey, pend |-> NoKey]

\* A verified answer in the process that asked for it.  "filed" is an activation
\* whose key file is written and whose state.json is not.
Answer   == [kind : {"none", "plain", "staged", "activated", "filed"},
             key : KeyOrNone, next : KeyOrNone]
NoAnswer == [kind |-> "none", key |-> NoKey, next |-> NoKey]

Phases  == {"idle", "policy", "heartbeat", "poll"}
Process == [pc : Phases, mem : Trust, ans : Answer]
Resting == [pc |-> "idle", mem |-> NoTrust, ans |-> NoAnswer]

Row     == [live : BOOLEAN, key : KeyOrNone, pend : KeyOrNone, acked : BOOLEAN, able : BOOLEAN]

Reply   == [key : KeyOrNone, next : KeyOrNone]
NoReply == [key |-> NoKey, next |-> NoKey]

TypeOK ==
    /\ status \in [Keys -> {"unused", "staged", "active", "retired", "revoked"}]
    /\ row \in [Agents -> Row]
    /\ token \in [Tokens -> [state : {"none", "creating", "live", "spent", "revoked"},
                             key : KeyOrNone]]
    /\ late \subseteq Agents \X KeyOrNone
    /\ file \in [Agents -> KeyOrNone]
    /\ disk \in [Agents -> Trust]
    /\ run \in [Agents -> [Procs -> Process]]
    /\ reply \in [Agents -> Reply]

\* Mutant: versions are counted from zero.
InitAtVersionZero ==
    /\ status = [k \in 0..MaxKeys - 1 |-> IF k = 0 THEN "active" ELSE "unused"]
    /\ row = [a \in Agents |-> [live |-> FALSE, key |-> NoKey,
                                pend |-> NoKey, acked |-> FALSE, able |-> FALSE]]
    /\ token = [t \in Tokens |-> [state |-> "none", key |-> NoKey]]
    /\ late = {}
    /\ file = [a \in Agents |-> NoKey]
    /\ disk = [a \in Agents |-> NoTrust]
    /\ run = [a \in Agents |-> [p \in Procs |-> Resting]]
    /\ reply = [a \in Agents |-> NoReply]

\* A tenant whose first key was created when its console was first opened.
Init ==
    /\ status = [k \in Keys |-> IF k = 1 THEN "active" ELSE "unused"]
    /\ row = [a \in Agents |-> [live |-> FALSE, key |-> NoKey,
                                pend |-> NoKey, acked |-> FALSE, able |-> FALSE]]
    /\ token = [t \in Tokens |-> [state |-> "none", key |-> NoKey]]
    /\ late = {}
    /\ file = [a \in Agents |-> NoKey]
    /\ disk = [a \in Agents |-> NoTrust]
    /\ run = [a \in Agents |-> [p \in Procs |-> Resting]]
    /\ reply = [a \in Agents |-> NoReply]

-----------------------------------------------------------------------------
(* The administrator: keys *)

NoneStaged == \A k \in Keys : status[k] # "staged"

\* Mutant: any free version number is taken.
AnyFreeVersion(k) == status[k] = "unused"

\* The successor of the newest key: versions are created in order.
Newest(k) == status[k] = "unused" /\ \A j \in Keys : j < k => status[j] # "unused"

Stage(k) ==
    /\ NoneStaged
    /\ Newest(k)
    /\ status' = [status EXCEPT ![k] = "staged"]
    /\ row' = [a \in Agents |-> IF row[a].live
                                THEN [row[a] EXCEPT !.pend = k, !.acked = FALSE]
                                ELSE row[a]]
    /\ UNCHANGED <<token, late, hostVars>>

Acknowledged(a, k) == row[a].able /\ row[a].pend = k /\ row[a].acked

\* Every agent that is not revoked must have acknowledged k; all of them are
\* then signed for with k, and the tokens pinned to the current key are revoked.
Activate(k) ==
    /\ status[k] = "staged"
    /\ \A a \in Agents : row[a].live => Acknowledged(a, k)
    /\ \E current \in Keys :
        /\ status[current] = "active"
        /\ status' = [status EXCEPT ![current] = "retired", ![k] = "active"]
        /\ token' = [t \in Tokens |->
                        IF token[t].state = "live" /\ token[t].key = current
                        THEN [token[t] EXCEPT !.state = "revoked"] ELSE token[t]]
    /\ row' = [a \in Agents |-> IF row[a].live
                                THEN [row[a] EXCEPT !.key = k, !.pend = NoKey, !.acked = FALSE]
                                ELSE row[a]]
    /\ UNCHANGED <<late, hostVars>>

\* Revoked agents are cleared as well.
Abort(k) ==
    /\ status[k] = "staged"
    /\ status' = [status EXCEPT ![k] = "revoked"]
    /\ row' = [a \in Agents |-> IF row[a].pend = k
                                THEN [row[a] EXCEPT !.pend = NoKey, !.acked = FALSE]
                                ELSE row[a]]
    /\ UNCHANGED <<token, late, hostVars>>

-----------------------------------------------------------------------------
(* The administrator: agents and enrollment tokens *)

\* The pending key and the acknowledgement are left in the row.
Revoke(a) ==
    /\ row[a].live
    /\ row' = [row EXCEPT ![a].live = FALSE]
    /\ UNCHANGED <<status, token, late, hostVars>>

\* For an agent whose host or credentials were lost.
PrepareReenrollment(a) ==
    /\ row[a].key # NoKey
    /\ row' = [row EXCEPT ![a] =
                  [row[a] EXCEPT !.live = FALSE, !.pend = NoKey, !.acked = FALSE]]
    /\ UNCHANGED <<status, token, late, hostVars>>

\* The transaction reads the tokens and the active key without locking the tenant
\* (a tenant has one live reusable token) ...
BeginToken(t) ==
    /\ token[t].state = "none"
    /\ t \in Reusable => \A u \in Reusable : token[u].state # "live"
    /\ \E k \in Keys : /\ status[k] = "active"
                       /\ token' = [token EXCEPT ![t] = [state |-> "creating", key |-> k]]
    /\ UNCHANGED <<status, row, late, hostVars>>

\* ... and the token is visible to others when it commits.
CommitToken(t) ==
    /\ token[t].state = "creating"
    /\ token' = [token EXCEPT ![t].state = "live"]
    /\ UNCHANGED <<status, row, late, hostVars>>

RevokeToken(t) ==
    /\ token[t].state = "live"
    /\ token' = [token EXCEPT ![t].state = "revoked"]
    /\ UNCHANGED <<status, row, late, hostVars>>

\* Expired, or max_uses reached.
ExpireToken(t) ==
    /\ token[t].state = "live"
    /\ token' = [token EXCEPT ![t].state = "spent"]
    /\ UNCHANGED <<status, row, late, hostVars>>

-----------------------------------------------------------------------------
(* The host's operator *)

\* The platform's half of an enrollment: a fresh row, or a revoked one revived
\* with whatever acknowledgement it still carries.
EnrollAgent(a, t) ==
    LET staged == {k \in Keys : status[k] = "staged"}
        next   == IF staged = {} THEN NoKey ELSE CHOOSE k \in staged : TRUE
    IN  /\ row' = [row EXCEPT ![a] = [live |-> TRUE, key |-> token[t].key,
                                      pend |-> next, acked |-> row[a].acked,
                                      able |-> "key-rotation" \in NamedAtEnrollment]]
        /\ token' = IF t \in Reusable THEN token ELSE [token EXCEPT ![t].state = "spent"]
        /\ reply' = [reply EXCEPT ![a] = [key |-> token[t].key, next |-> next]]

\* The console's command: it pins the token's key, then asks for an enrollment
\* unless state.json exists.  A token that is not live, or an agent that is,
\* makes the platform refuse, and the pinned key stays as it was written.
RunEnrollCommand(a, t) ==
    /\ token[t].state \notin {"none", "creating"}
    /\ reply[a] = NoReply
    /\ disk[a] = NoTrust \/ ~ row[a].live
    /\ file' = [file EXCEPT ![a] = token[t].key]
    /\ IF /\ disk[a] = NoTrust
          /\ token[t].state = "live" /\ status[token[t].key] # "revoked"
          /\ ~ row[a].live
       THEN EnrollAgent(a, t)
       ELSE UNCHANGED <<row, token, reply>>
    /\ UNCHANGED <<status, late, disk, run>>

\* Mutant: the proof of an enrollment is given up when no rotation is staged.
FinishWhileStaged(a) ==
    /\ reply[a] # NoReply
    /\ reply' = [reply EXCEPT ![a] = NoReply]
    /\ disk' = IF /\ reply[a].key = file[a] /\ reply[a].next # NoKey
                  /\ "signed-control" \in NamedAtEnrollment
               THEN [disk EXCEPT ![a] = [kid |-> reply[a].key, pend |-> reply[a].next]]
               ELSE disk
    /\ UNCHANGED <<status, row, token, late, file, run>>

\* The signed proof is checked against the pinned file, and state.json is written; but
\* an enrollment for which the platform does not require signed control, because the
\* request did not name it, is given up, with the row live and the token used.
FinishEnrollment(a) ==
    /\ reply[a] # NoReply
    /\ reply' = [reply EXCEPT ![a] = NoReply]
    /\ disk' = IF reply[a].key = file[a] /\ "signed-control" \in NamedAtEnrollment
               THEN [disk EXCEPT ![a] = [kid |-> reply[a].key, pend |-> reply[a].next]]
               ELSE disk
    /\ UNCHANGED <<status, row, token, late, file, run>>

LoseEnrollmentReply(a) ==
    /\ reply[a] # NoReply
    /\ reply' = [reply EXCEPT ![a] = NoReply]
    /\ UNCHANGED <<status, row, token, late, file, disk, run>>

\* Without this a host whose agent was revoked cannot enroll again.
RemoveState(a) ==
    /\ ~ FilesKept
    /\ disk[a] # NoTrust
    /\ \A p \in Procs : run[a][p] = Resting
    /\ disk' = [disk EXCEPT ![a] = NoTrust]
    /\ UNCHANGED <<status, row, token, late, file, run, reply>>

-----------------------------------------------------------------------------
(* The agent's cycle and the platform's answers to it *)

\* The response the platform signs for a: the proposal of the staged key when
\* one is pending, the descriptor of a key that superseded another, or neither.
SignedAnswer(a) ==
    LET k == row[a].key
        n == row[a].pend
    IN  IF n # NoKey
        THEN IF status[n] = "staged"
             THEN [kind |-> "staged", key |-> k, next |-> n]
             ELSE [kind |-> "plain", key |-> k, next |-> NoKey]
        ELSE IF status[k] = "active" /\ k > 1
             THEN [kind |-> "activated", key |-> k, next |-> k]
             ELSE [kind |-> "plain", key |-> k, next |-> NoKey]

BeginCycle(a, p) ==
    /\ run[a][p].pc = "idle"
    /\ disk[a] # NoTrust
    /\ run' = [run EXCEPT ![a][p] = [pc |-> "policy", mem |-> disk[a], ans |-> NoAnswer]]
    /\ UNCHANGED <<status, row, token, late, file, disk, reply>>

\* Mutant: a heartbeat for another key than the pending one is accepted.
AcceptsAnyKey(a, p) == row[a].live

\* A heartbeat acknowledges the pending key of the process, if it has one; a
\* heartbeat for any key but the one pending in the row is refused as a whole.
Acceptable(a, p) ==
    /\ row[a].live
    /\ run[a][p].pc = "heartbeat" =>
           run[a][p].mem.pend \in {NoKey, row[a].pend}

\* The row after a heartbeat for key k, or NoKey: it names the agent's capabilities.
AfterHeartbeat(a, k) ==
    [row EXCEPT ![a] = [row[a] EXCEPT !.able = TRUE, !.acked = row[a].acked \/ k # NoKey]]

\* The platform handles the request of the current phase.
Call(a, p) ==
    /\ run[a][p].pc # "idle"
    /\ run[a][p].ans = NoAnswer
    /\ Acceptable(a, p)
    /\ row' = IF run[a][p].pc = "heartbeat" THEN AfterHeartbeat(a, run[a][p].mem.pend) ELSE row
    /\ run' = [run EXCEPT ![a][p].ans = SignedAnswer(a)]
    /\ UNCHANGED <<status, token, late, file, disk, reply>>

\* 401 for a revoked agent, 409 for an acknowledgement of another key.
Refused(a, p) ==
    /\ run[a][p].pc # "idle"
    /\ run[a][p].ans = NoAnswer
    /\ ~ Acceptable(a, p)
    /\ run' = [run EXCEPT ![a][p] = Resting]
    /\ UNCHANGED <<status, row, token, late, file, disk, reply>>

\* verify_control_response, then apply_platform_key_rotation.
Verifies(a, mem, ans) == ans.key \in {file[a], mem.pend}

\* Mutant: an activation is applied only by an agent that already runs on the key.
AppliesOwnKeyOnly(mem, ans) ==
    CASE ans.kind = "plain"     -> TRUE
      [] ans.kind = "staged"    -> ans.key = mem.kid /\ ans.next > mem.kid
      [] ans.kind = "activated" -> ans.key = mem.kid
      [] OTHER                  -> FALSE

Applies(mem, ans) ==
    CASE ans.kind = "plain"     -> TRUE
      [] ans.kind = "staged"    -> ans.key = mem.kid /\ ans.next > mem.kid
      [] ans.kind = "activated" -> ans.key \in {mem.kid, mem.pend}
      [] OTHER                  -> FALSE

Trusts(a, mem, ans) == Verifies(a, mem, ans) /\ Applies(mem, ans)

Following(phase) == IF phase = "policy" THEN "heartbeat" ELSE "poll"

\* Mutant: the proposed key is not remembered.
LearnNothing(a, p) ==
    LET r == run[a][p]
    IN  /\ r.ans.kind \in {"plain", "staged"}
        /\ Trusts(a, r.mem, r.ans)
        /\ disk' = [disk EXCEPT ![a] = r.mem]
        /\ run' = [run EXCEPT ![a][p].pc = Following(r.pc), ![a][p].ans = NoAnswer]
        /\ UNCHANGED <<status, row, token, late, file, reply>>

\* A plain or staged answer changes the memory of the process, which is saved.
Learn(a, p) ==
    LET r    == run[a][p]
        kept == [kid |-> r.mem.kid, pend |-> r.ans.next]
    IN  /\ r.ans.kind \in {"plain", "staged"}
        /\ Trusts(a, r.mem, r.ans)
        /\ disk' = [disk EXCEPT ![a] = kept]
        /\ run' = [run EXCEPT ![a][p] =
                      [pc |-> Following(r.pc), mem |-> kept, ans |-> NoAnswer]]
        /\ UNCHANGED <<status, row, token, late, file, reply>>

\* Mutant: state.json is saved before the pinned key file is replaced.
SaveStateFirst(a, p) ==
    LET r == run[a][p]
    IN  /\ r.ans.kind = "activated"
        /\ Trusts(a, r.mem, r.ans)
        /\ disk' = [disk EXCEPT ![a] = [kid |-> r.ans.key, pend |-> NoKey]]
        /\ run' = [run EXCEPT ![a][p].mem = [kid |-> r.ans.key, pend |-> NoKey],
                              ![a][p].ans.kind = "filed"]
        /\ UNCHANGED <<status, row, token, late, file, reply>>

\* Mutant: a key is pinned as soon as it is proposed.
PinProposedKey(a, p) ==
    LET r == run[a][p]
    IN  /\ r.ans.kind \in {"staged", "activated"}
        /\ Trusts(a, r.mem, r.ans)
        /\ file' = [file EXCEPT ![a] = r.ans.next]
        /\ run' = [run EXCEPT ![a][p].mem = [kid |-> r.ans.next, pend |-> NoKey],
                              ![a][p].ans.kind = "filed"]
        /\ UNCHANGED <<status, row, token, late, disk, reply>>

\* An activation first replaces the pinned key file ...
PinKey(a, p) ==
    LET r == run[a][p]
    IN  /\ r.ans.kind = "activated"
        /\ Trusts(a, r.mem, r.ans)
        /\ KeyFileWritable
        /\ file' = [file EXCEPT ![a] = r.ans.key]
        /\ run' = [run EXCEPT ![a][p].mem = [kid |-> r.ans.key, pend |-> NoKey],
                              ![a][p].ans.kind = "filed"]
        /\ UNCHANGED <<status, row, token, late, disk, reply>>

\* ... and then saves state.json.
SaveState(a, p) ==
    LET r == run[a][p]
    IN  /\ r.ans.kind = "filed"
        /\ disk' = [disk EXCEPT ![a] = r.mem]
        /\ run' = [run EXCEPT ![a][p] =
                      [pc |-> Following(r.pc), mem |-> r.mem, ans |-> NoAnswer]]
        /\ UNCHANGED <<status, row, token, late, file, reply>>

\* An untrusted answer ends the cycle, or only one of the remediation polls; a
\* key file that cannot be replaced (an OSError, not a RuntimeError) ends it.
RejectAnswer(a, p) ==
    LET r == run[a][p]
    IN  /\ r.ans.kind \in {"plain", "staged", "activated"}
        /\ \/ /\ ~ Trusts(a, r.mem, r.ans)
              /\ run' = [run EXCEPT ![a][p] = Resting]
           \/ /\ ~ Trusts(a, r.mem, r.ans)
              /\ r.pc = "poll"
              /\ run' = [run EXCEPT ![a][p].ans = NoAnswer]
           \/ /\ r.ans.kind = "activated" /\ ~ KeyFileWritable
              /\ run' = [run EXCEPT ![a][p] = Resting]
        /\ UNCHANGED <<status, row, token, late, file, disk, reply>>

\* The cycle's last statement saves the memory once more.
EndCycle(a, p) ==
    /\ run[a][p].pc = "poll"
    /\ run[a][p].ans = NoAnswer
    /\ disk' = [disk EXCEPT ![a] = run[a][p].mem]
    /\ run' = [run EXCEPT ![a][p] = Resting]
    /\ UNCHANGED <<status, row, token, late, file, reply>>

\* Where enrollment already names key rotation, a heartbeat that acknowledges nothing
\* finds nothing to change in a row.
Matters(k) == k # NoKey \/ "key-rotation" \notin NamedAtEnrollment

\* A crash, a failed scan, a timeout or a lost response.  A heartbeat whose
\* client gave up may still be on its way to the platform.
Fail(a, p) ==
    LET r == run[a][p]
    IN  /\ r.pc # "idle"
        /\ \/ late' = late
           \/ /\ r.pc = "heartbeat" /\ r.ans = NoAnswer /\ Matters(r.mem.pend)
              /\ late' = late \union {<<a, r.mem.pend>>}
        /\ run' = [run EXCEPT ![a][p] = Resting]
        /\ UNCHANGED <<status, row, token, file, disk, reply>>

LateHeartbeat(a, k) ==
    /\ <<a, k>> \in late
    /\ late' = late \ {<<a, k>>}
    /\ row' = IF row[a].live /\ k \in {NoKey, row[a].pend} THEN AfterHeartbeat(a, k) ELSE row
    /\ UNCHANGED <<status, token, hostVars>>

-----------------------------------------------------------------------------
Cycle(a, p) ==
    \/ BeginCycle(a, p) \/ Call(a, p) \/ Refused(a, p)
    \/ Learn(a, p) \/ PinKey(a, p) \/ SaveState(a, p)
    \/ RejectAnswer(a, p) \/ EndCycle(a, p) \/ Fail(a, p)

Operator(a) ==
    \/ \E t \in Tokens : RunEnrollCommand(a, t)
    \/ FinishEnrollment(a) \/ LoseEnrollmentReply(a) \/ RemoveState(a)

Administrator ==
    \/ \E k \in Keys : Stage(k) \/ Activate(k) \/ Abort(k)
    \/ \E a \in Agents : Revoke(a) \/ PrepareReenrollment(a)
    \/ \E t \in Tokens : BeginToken(t) \/ CommitToken(t) \/ RevokeToken(t) \/ ExpireToken(t)

Next ==
    \/ Administrator
    \/ \E a \in Agents : Operator(a)
    \/ \E a \in Agents, p \in Procs : Cycle(a, p)
    \/ \E a \in Agents, k \in KeyOrNone : LateHeartbeat(a, k)

Spec == Init /\ [][Next]_vars

\* The daemon restarts its cycle for ever (its loop, and systemd's restarts), the
\* remediation polls of a cycle are few, and a request repeated for ever is
\* answered, and the answer kept, again and again: no crash or loss strikes every
\* cycle at the same step.
AgentFairness ==
    \A a \in Agents, p \in Procs :
        /\ WF_vars(BeginCycle(a, p)) /\ WF_vars(Refused(a, p))
        /\ WF_vars(RejectAnswer(a, p)) /\ SF_vars(EndCycle(a, p))
        /\ SF_vars(SaveState(a, p))
        /\ \A phase \in {"policy", "heartbeat"} : SF_vars(run[a][p].pc = phase /\ Call(a, p))
        /\ \A phase \in {"policy", "heartbeat", "poll"} :
               SF_vars(run[a][p].pc = phase /\ (Learn(a, p) \/ PinKey(a, p)))

FairSpec == Spec /\ AgentFairness

\* An operator who runs the enrollment command again until the host is enrolled, who
\* removes the state of a revoked agent unless told to keep it, and who has a row
\* without a host behind it revoked, as the agent's message for a refused enrollment
\* says.  No loss or revocation strikes every enrollment before the host has its answer.
PersistentOperator ==
    \A a \in Agents :
        /\ \A t \in Tokens : SF_vars(RunEnrollCommand(a, t))
        /\ SF_vars(~ row[a].live /\ RemoveState(a))
        /\ WF_vars(row[a].live /\ disk[a] = NoTrust /\ reply[a] = NoReply /\ Revoke(a))
        /\ WF_vars(FinishEnrollment(a)) /\ SF_vars(row[a].live /\ FinishEnrollment(a))

RecoverySpec == FairSpec /\ PersistentOperator

-----------------------------------------------------------------------------
(* Properties *)

\* The platform signs for the agent and the agent has its local state.
Enrolled(a) == row[a].live /\ disk[a] # NoTrust

\* No agent is stranded: whatever crashes, losses, aborted rotations and
\* re-enrollments happened, the key the platform signs with for an enrolled
\* agent is pinned in its file or pending in its state.json.
AgentCanVerify ==
    \A a \in Agents : Enrolled(a) => row[a].key \in {file[a], disk[a].pend}

\* An acknowledgement counted for an enrolled agent is one the agent can honour:
\* the acknowledged key is still pending in its state.json.
AcknowledgedIsHeld ==
    \A a \in Agents : Enrolled(a) /\ row[a].acked /\ row[a].pend # NoKey
                          => disk[a].pend = row[a].pend

\* The response the platform would sign now is one the agent applies.
AnswerIsTrusted(a) == Trusts(a, disk[a], SignedAnswer(a))

\* The console's promise about staging a key: no agent is ever interrupted.
StagingKeepsAgentsConnected ==
    \A a \in Agents : Enrolled(a) => AnswerIsTrusted(a)

\* What the code does guarantee: an agent refuses the platform's responses only
\* while a rotation is staged that it met before applying the previous one.
OnlyMissedActivationDisconnects ==
    \A a \in Agents :
        Enrolled(a) /\ ~ AnswerIsTrusted(a)
            => /\ disk[a].kid # row[a].key
               /\ disk[a].pend = row[a].key
               /\ row[a].pend \in Keys /\ status[row[a].pend] = "staged"

\* One key signs for the tenant, at most one waits, and the waiting key is newer.
OneSigner ==
    /\ \E k \in Keys : \A j \in Keys : status[j] = "active" <=> j = k
    /\ \A j, k \in Keys : status[j] = "staged" /\ status[k] \notin {"unused", "staged"} => j > k
    /\ \A j, k \in Keys : status[j] = "staged" /\ status[k] = "staged" => j = k

\* The pinned key of an enrolled agent is replaced only by the newer key that was
\* pending in its state.json, never by one that was not cross-signed to it.
PinOnlyAdvances ==
    [][\A a \in Agents : Enrolled(a) /\ file'[a] # file[a]
            => file'[a] = disk[a].pend /\ file'[a] > file[a]]_vars

\* An agent on the current key acknowledges a staged one, unless it is revoked or
\* loses its state, or the rotation ends first.
EventuallyAcknowledged ==
    \A a \in Agents :
        (~ NoneStaged /\ Enrolled(a) /\ disk[a].kid = row[a].key)
            ~> \/ \E k \in Keys : status[k] = "staged" /\ Acknowledged(a, k)
               \/ NoneStaged \/ ~ Enrolled(a)

\* An agent moves its pin to the key that was activated for it, unless it is
\* revoked or loses its state, or another rotation is staged first.
EventuallyPinned ==
    \A a \in Agents :
        (Enrolled(a) /\ status[row[a].key] = "active")
            ~> \/ file[a] = row[a].key /\ disk[a].kid = row[a].key
               \/ ~ Enrolled(a) \/ ~ NoneStaged

\* A host that lost its enrollment gets one again, on the platform and in its own
\* state.json, while a usable token exists and its operator keeps running the console's
\* command: no lost answer, refused proof or revocation leaves it without one for ever.
ReenrollmentSucceeds ==
    \A a \in Agents, t \in Tokens :
        <>[](token[t].state = "live") => []<>Enrolled(a)

\* An enrolled agent as the abstract specification sees it: without the processes, the
\* answers and acknowledgements under way and the enrollment.
View(a) ==
    IF Enrolled(a) THEN [signer |-> row[a].key, pin |-> file[a], pend |-> disk[a].pend]
    ELSE [signer |-> NoKey, pin |-> NoKey, pend |-> NoKey]

Handover == INSTANCE KeyHandover WITH ring <- status, agent <- [a \in Agents |-> View(a)]

\* Two databases that never see each other's state, and messages that are late or lost,
\* implement the handover of KeyHandover: the signer is switched for the whole fleet in
\* one step, at a moment when every enrolled agent holds the new key durably.
HandoverSpec == Handover!Spec
=============================================================================
