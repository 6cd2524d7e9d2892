------------------------- MODULE KeyRotationProofs -------------------------
(***************************************************************************)
(* Proofs about KeyRotation, for any number of agents, keys and tokens.    *)
(*                                                                         *)
(* Types and the ledger of keys need no assumption.  What relates a host   *)
(* to the platform assumes that at most one agent process runs on a host:  *)
(* the run rotation_twoprocs shows that two lose each other's pending key. *)
(***************************************************************************)
EXTENDS KeyRotation, TLAPS

SingleProcess == \A p, q \in Procs : p = q

-----------------------------------------------------------------------------
(* The inductive invariant *)

Past(k) == status[k] \in {"active", "retired"}
Used(k) == k # NoKey => status[k] # "unused"

\* The platform holds a's acknowledgement of the staged key k, or may still get it.
Committed(a, k) == status[k] = "staged" /\ (row[a].acked \/ <<a, k>> \in late)

\* The key signs for a without ever having been proposed to it.
NeverProposed(k) == k = 1 \/ status[k] # "active"

\* Versions are created in order.
InOrder == \A i, j \in Keys : i < j /\ status[j] # "unused" => status[i] # "unused"

KeysInv ==
    /\ Past(1)
    /\ OneSigner
    /\ InOrder

TokensInv ==
    \A t \in Tokens : token[t].state # "none" => token[t].key \in Keys /\ Past(token[t].key)

LateInv == \A a \in Agents, k \in Keys : <<a, k>> \in late => status[k] # "unused"

RowInv(a) ==
    row[a].live =>
        /\ row[a].key \in Keys
        /\ Past(row[a].key)
        /\ row[a].pend # NoKey => status[row[a].pend] = "staged"
        /\ \A k \in Keys : status[k] = "staged" => row[a].pend = k

DiskKeys(a) ==
    disk[a] # NoTrust =>
        /\ disk[a].kid \in Keys
        /\ Past(disk[a].kid)
        /\ Used(disk[a].pend)
        /\ disk[a].pend # NoKey => disk[a].pend > disk[a].kid

DiskInv(a) ==
    row[a].live /\ disk[a] # NoTrust =>
        /\ row[a].key \in {file[a], disk[a].pend}
        /\ NeverProposed(row[a].key) => file[a] = row[a].key /\ disk[a].kid = row[a].key
        /\ file[a] # disk[a].kid => file[a] = disk[a].pend /\ file[a] = row[a].key
        /\ \A k \in Keys : Committed(a, k) => disk[a].pend = k

ReplyKeys(a) ==
    reply[a] # NoReply =>
        /\ disk[a] = NoTrust
        /\ file[a] = reply[a].key
        /\ reply[a].key \in Keys
        /\ Past(reply[a].key)
        /\ Used(reply[a].next)
        /\ reply[a].next # NoKey => reply[a].next > reply[a].key

ReplyInv(a) ==
    row[a].live /\ reply[a] # NoReply =>
        /\ row[a].key \in {reply[a].key, reply[a].next}
        /\ NeverProposed(row[a].key) => row[a].key = reply[a].key
        /\ \A k \in Keys : Committed(a, k) => reply[a].next = k

ProcInv(a, p) ==
    /\ disk[a] = NoTrust \/ run[a][p].pc = "idle" => run[a][p] = Resting
    /\ run[a][p].pc # "idle" /\ run[a][p].ans.kind # "filed" => run[a][p].mem = disk[a]

AnswerKeys(a, p) ==
    LET ans == run[a][p].ans
    IN  /\ ans.kind = "plain" => ans.next = NoKey
        /\ ans.kind = "staged" => ans.next \in Keys /\ Used(ans.next)
        /\ ans.kind \in {"activated", "filed"} => ans.key \in Keys /\ Past(ans.key)
        /\ ans.kind = "filed" => run[a][p].mem = [kid |-> ans.key, pend |-> NoKey]

AnswerInv(a, p) ==
    LET ans == run[a][p].ans
    IN  row[a].live =>
            /\ ans.kind \in {"plain", "activated", "filed"} =>
                   \A k \in Keys : ~ Committed(a, k)
            /\ ans.kind = "plain" => file[a] = row[a].key /\ disk[a].kid = row[a].key
            /\ ans.kind = "staged" =>
                   /\ row[a].key \in {ans.key, ans.next}
                   /\ \A k \in Keys : Committed(a, k) => ans.next = k
            /\ ans.kind \in {"activated", "filed"} => ans.key = row[a].key
            /\ ans.kind = "filed" => file[a] = ans.key

AgentInv(a) ==
    /\ RowInv(a) /\ DiskKeys(a) /\ DiskInv(a) /\ ReplyKeys(a) /\ ReplyInv(a)
    /\ \A p \in Procs : ProcInv(a, p) /\ AnswerKeys(a, p) /\ AnswerInv(a, p)

IInv ==
    /\ TypeOK /\ KeysInv /\ TokensInv /\ LateInv
    /\ \A a \in Agents : AgentInv(a)

-----------------------------------------------------------------------------
(* Types *)

\* The platform's answer is an answer.
LEMMA SignedAnswerType ==
    ASSUME TypeOK, NEW a \in Agents
    PROVE  SignedAnswer(a) \in Answer
BY DEF TypeOK, Row, SignedAnswer, Answer, KeyOrNone, NoKey

\* What the handlers leave of a row is a row.
LEMMA RowTypes ==
    ASSUME NEW r \in Row, NEW k \in KeyOrNone, NEW acked \in BOOLEAN
    PROVE  /\ [r EXCEPT !.live = FALSE] \in Row
           /\ [r EXCEPT !.live = FALSE, !.pend = NoKey, !.acked = FALSE] \in Row
           /\ [r EXCEPT !.pend = NoKey, !.acked = FALSE] \in Row
           /\ [r EXCEPT !.key = k, !.pend = NoKey, !.acked = FALSE] \in Row
           /\ [r EXCEPT !.able = TRUE, !.acked = acked] \in Row
<1>1. NoKey \in KeyOrNone
  BY DEF KeyOrNone
<1> QED
  BY <1>1 DEF Row

\* A heartbeat leaves a row in every row.
LEMMA HeartbeatType ==
    ASSUME TypeOK, NEW a \in Agents, NEW k \in KeyOrNone
    PROVE  AfterHeartbeat(a, k) \in [Agents -> Row]
<1>1. row \in [Agents -> Row] /\ row[a] \in Row
  BY DEF TypeOK
<1>2. (row[a].acked \/ k # NoKey) \in BOOLEAN
  BY <1>1 DEF Row
<1>3. [row[a] EXCEPT !.able = TRUE, !.acked = row[a].acked \/ k # NoKey] \in Row
  BY <1>1, <1>2, RowTypes
<1> QED
  BY <1>1, <1>3 DEF AfterHeartbeat

\* Of a row, it changes the capabilities, and the acknowledgement if it carries one.
LEMMA HeartbeatRow ==
    ASSUME TypeOK, NEW a \in Agents, NEW k \in KeyOrNone, row' = AfterHeartbeat(a, k),
           NEW b \in Agents
    PROVE  /\ row'[b].live = row[b].live /\ row'[b].key = row[b].key /\ row'[b].pend = row[b].pend
           /\ row'[b].acked => row[b].acked \/ (b = a /\ k # NoKey)
<1>1. row[a] \in Row /\ row[b] \in Row
  BY DEF TypeOK
<1>2. row'[b] = IF b = a THEN [row[a] EXCEPT !.able = TRUE, !.acked = row[a].acked \/ k # NoKey]
                ELSE row[b]
  BY DEF TypeOK, AfterHeartbeat
<1>3. QED
  BY <1>1, <1>2 DEF Row

\* Every variable keeps its type.
LEMMA TypeStep == TypeOK /\ [Next]_vars => TypeOK'
<1> SUFFICES ASSUME TypeOK, [Next]_vars PROVE TypeOK'
  OBVIOUS
<1> USE RotationConstants
<1>1. CASE UNCHANGED vars
  BY <1>1 DEF TypeOK, vars
<1>2. ASSUME NEW k \in Keys, Stage(k) PROVE TypeOK'
  <2>1. status' \in [Keys -> {"unused", "staged", "active", "retired", "revoked"}]
    BY <1>2 DEF TypeOK, Stage
  <2>2. k \in KeyOrNone
    BY DEF KeyOrNone
  <2>3. row \in [Agents -> Row]
    BY DEF TypeOK
  <2>4. row' = [a \in Agents |-> IF row[a].live
                                 THEN [row[a] EXCEPT !.pend = k, !.acked = FALSE] ELSE row[a]]
    BY <1>2 DEF Stage
  <2>5. row' \in [Agents -> Row]
    BY <2>2, <2>3, <2>4 DEF Row
  <2>6. UNCHANGED <<token, late, file, disk, run, reply>>
    BY <1>2 DEF Stage, hostVars
  <2> QED
    BY <2>1, <2>5, <2>6 DEF TypeOK
<1>3. ASSUME NEW k \in Keys, Activate(k) PROVE TypeOK'
  <2>1. PICK current \in Keys :
           /\ status' = [status EXCEPT ![current] = "retired", ![k] = "active"]
           /\ token' = [t \in Tokens |->
                           IF token[t].state = "live" /\ token[t].key = current
                           THEN [token[t] EXCEPT !.state = "revoked"] ELSE token[t]]
    BY <1>3 DEF Activate
  <2>2. status' \in [Keys -> {"unused", "staged", "active", "retired", "revoked"}]
    BY <2>1 DEF TypeOK
  <2>3. token' \in [Tokens -> [state : {"none", "creating", "live", "spent", "revoked"},
                               key : KeyOrNone]]
    BY <2>1 DEF TypeOK
  <2>4. row' \in [Agents -> Row]
    <3>1. ASSUME NEW a \in Agents
          PROVE  [row[a] EXCEPT !.key = k, !.pend = NoKey, !.acked = FALSE] \in Row
      <4>1. row[a] \in Row /\ k \in KeyOrNone
        BY DEF TypeOK, KeyOrNone
      <4> QED
        BY <4>1, RowTypes
    <3>2. QED
      BY <1>3, <3>1 DEF TypeOK, Activate
  <2>5. QED
    BY <1>3, <2>2, <2>3, <2>4 DEF TypeOK, Activate, hostVars
<1>4. ASSUME NEW k \in Keys, Abort(k) PROVE TypeOK'
  <2>1. row' \in [Agents -> Row]
    <3>1. ASSUME NEW a \in Agents PROVE [row[a] EXCEPT !.pend = NoKey, !.acked = FALSE] \in Row
      <4>1. row[a] \in Row /\ NoKey \in KeyOrNone
        BY DEF TypeOK, KeyOrNone
      <4> QED
        BY <4>1, RowTypes
    <3>2. QED
      BY <1>4, <3>1 DEF TypeOK, Abort
  <2>2. status' \in [Keys -> {"unused", "staged", "active", "retired", "revoked"}]
    BY <1>4 DEF TypeOK, Abort
  <2>3. QED
    BY <1>4, <2>1, <2>2 DEF TypeOK, Abort, hostVars
<1>5. ASSUME NEW a \in Agents, Revoke(a) \/ PrepareReenrollment(a) PROVE TypeOK'
  <2>1. row' \in [Agents -> Row]
    <3>1. /\ [row[a] EXCEPT !.live = FALSE] \in Row
          /\ [row[a] EXCEPT !.live = FALSE, !.pend = NoKey, !.acked = FALSE] \in Row
      <4>1. row[a] \in Row /\ NoKey \in KeyOrNone
        BY DEF TypeOK, KeyOrNone
      <4> QED
        BY <4>1, RowTypes
    <3>2. CASE Revoke(a)
      BY <3>1, <3>2 DEF TypeOK, Revoke
    <3>3. CASE PrepareReenrollment(a)
      BY <3>1, <3>3 DEF TypeOK, PrepareReenrollment
    <3>4. QED
      BY <1>5, <3>2, <3>3
  <2>2. UNCHANGED <<status, token, late, file, disk, run, reply>>
    BY <1>5 DEF Revoke, PrepareReenrollment, hostVars
  <2>3. QED
    BY <2>1, <2>2 DEF TypeOK
<1>6. ASSUME NEW t \in Tokens, BeginToken(t) \/ CommitToken(t) \/ RevokeToken(t) \/ ExpireToken(t)
      PROVE  TypeOK'
  <2>1. CASE BeginToken(t)
    BY <2>1 DEF TypeOK, BeginToken, hostVars, KeyOrNone
  <2>2. CASE CommitToken(t)
    BY <2>2 DEF TypeOK, CommitToken, hostVars
  <2>3. CASE RevokeToken(t)
    BY <2>3 DEF TypeOK, RevokeToken, hostVars
  <2>4. CASE ExpireToken(t)
    BY <2>4 DEF TypeOK, ExpireToken, hostVars
  <2>5. QED
    BY <1>6, <2>1, <2>2, <2>3, <2>4
<1>7. ASSUME NEW a \in Agents, NEW t \in Tokens, RunEnrollCommand(a, t) PROVE TypeOK'
  <2>1. file' \in [Agents -> KeyOrNone]
    BY <1>7 DEF TypeOK, RunEnrollCommand
  <2>2. CASE EnrollAgent(a, t)
    <3> DEFINE staged == {k \in Keys : status[k] = "staged"}
               next   == IF staged = {} THEN NoKey ELSE CHOOSE k \in staged : TRUE
    <3>1. next \in KeyOrNone
      BY DEF KeyOrNone
    <3> HIDE DEF next
    <3>2. token[t].key \in KeyOrNone
      BY DEF TypeOK
    <3>3. row' \in [Agents -> Row]
      BY <2>2, <3>1, <3>2 DEF EnrollAgent, next, TypeOK, Row
    <3>4. token' \in [Tokens -> [state : {"none", "creating", "live", "spent", "revoked"},
                                 key : KeyOrNone]]
      BY <2>2 DEF EnrollAgent, TypeOK
    <3>5. reply' \in [Agents -> Reply]
      BY <2>2, <3>1, <3>2 DEF EnrollAgent, next, TypeOK, Reply
    <3>6. QED
      BY <1>7, <2>1, <3>3, <3>4, <3>5 DEF RunEnrollCommand, TypeOK
  <2>3. CASE UNCHANGED <<row, token, reply>>
    BY <1>7, <2>1, <2>3 DEF RunEnrollCommand, TypeOK
  <2>4. QED
    BY <1>7, <2>2, <2>3 DEF RunEnrollCommand
<1>8. ASSUME NEW a \in Agents, FinishEnrollment(a) \/ LoseEnrollmentReply(a) \/ RemoveState(a)
      PROVE  TypeOK'
  <2>1. NoReply \in Reply /\ NoTrust \in Trust
    BY DEF NoReply, NoTrust, Reply, Trust, KeyOrNone
  <2>2. CASE FinishEnrollment(a)
    <3>1. [kid |-> reply[a].key, pend |-> reply[a].next] \in Trust
      BY DEF TypeOK, Reply, Trust
    <3>2. QED
      BY <2>1, <2>2, <3>1 DEF TypeOK, FinishEnrollment
  <2>3. CASE LoseEnrollmentReply(a)
    BY <2>1, <2>3 DEF TypeOK, LoseEnrollmentReply
  <2>4. CASE RemoveState(a)
    BY <2>1, <2>4 DEF TypeOK, RemoveState
  <2>5. QED
    BY <1>8, <2>2, <2>3, <2>4
<1>9. ASSUME NEW a \in Agents, NEW p \in Procs, Cycle(a, p) PROVE TypeOK'
  <2> USE DEF TypeOK, Process, Phases
  <2>1. NoAnswer \in Answer /\ Resting \in Process
    BY DEF NoAnswer, Resting, Answer, Trust, NoTrust, KeyOrNone, NoKey
  <2>2. run[a][p] \in Process
    OBVIOUS
  <2>3. CASE BeginCycle(a, p)
    BY <2>1, <2>2, <2>3 DEF BeginCycle
  <2>4. CASE Call(a, p)
    <3>1. run' \in [Agents -> [Procs -> Process]]
      BY <2>2, <2>4, SignedAnswerType DEF Call
    <3>2. row' \in [Agents -> Row]
      BY <2>4, HeartbeatType DEF Call, Trust
    <3>3. QED
      BY <2>4, <3>1, <3>2 DEF Call
  <2>5. CASE Refused(a, p)
    BY <2>1, <2>2, <2>5 DEF Refused
  <2>6. CASE Learn(a, p)
    BY <2>1, <2>2, <2>6 DEF Learn, Following, Trust, Answer
  <2>7. CASE PinKey(a, p)
    BY <2>2, <2>7 DEF PinKey, Trust, Answer, KeyOrNone, NoKey
  <2>8. CASE SaveState(a, p)
    BY <2>1, <2>2, <2>8 DEF SaveState, Following
  <2>9. CASE RejectAnswer(a, p)
    <3>1. run' = [run EXCEPT ![a][p] = Resting] \/ run' = [run EXCEPT ![a][p].ans = NoAnswer]
      BY <2>9 DEF RejectAnswer
    <3>2. run' \in [Agents -> [Procs -> Process]]
      <4>1. CASE run' = [run EXCEPT ![a][p] = Resting]
        BY <2>1, <4>1
      <4>2. CASE run' = [run EXCEPT ![a][p].ans = NoAnswer]
        BY <2>1, <2>2, <4>2
      <4>3. QED
        BY <3>1, <4>1, <4>2
    <3>3. QED
      BY <2>9, <3>2 DEF RejectAnswer
  <2>10. CASE EndCycle(a, p)
    BY <2>1, <2>2, <2>10 DEF EndCycle
  <2>11. CASE Fail(a, p)
    BY <2>1, <2>2, <2>11 DEF Fail, Trust, KeyOrNone
  <2>12. QED
    BY <1>9, <2>3, <2>4, <2>5, <2>6, <2>7, <2>8, <2>9, <2>10, <2>11 DEF Cycle
<1>10. ASSUME NEW a \in Agents, NEW k \in KeyOrNone, LateHeartbeat(a, k) PROVE TypeOK'
  BY <1>10, HeartbeatType DEF TypeOK, LateHeartbeat, hostVars
<1>11. QED
  BY <1>1, <1>2, <1>3, <1>4, <1>5, <1>6, <1>7, <1>8, <1>9, <1>10 DEF Next, Administrator, Operator

\* The initial state has its types.
LEMMA TypeInit == Init => TypeOK
BY RotationConstants DEF Init, TypeOK, Row, Keys, KeyOrNone, NoKey, NoTrust, Trust, Resting, Process,
                         Phases, NoAnswer, Answer, NoReply, Reply

\* Type correctness of every reachable state.
THEOREM TypeCorrect == Spec => []TypeOK
<1>1. QED
  BY TypeInit, TypeStep, PTL DEF Spec

-----------------------------------------------------------------------------
(* The platform's part of the invariant *)

\* Only the three operations on a rotation touch the key ledger.
LEMMA LedgerSteps ==
    Next => UNCHANGED status \/ \E k \in Keys : Stage(k) \/ Activate(k) \/ Abort(k)
<1> SUFFICES ASSUME Next PROVE UNCHANGED status \/ \E k \in Keys : Stage(k) \/ Activate(k) \/ Abort(k)
  OBVIOUS
<1>1. CASE Administrator
  BY <1>1 DEF Administrator, Revoke, PrepareReenrollment, BeginToken, CommitToken, RevokeToken,
              ExpireToken
<1>2. ASSUME NEW a \in Agents, Operator(a) PROVE UNCHANGED status
  BY <1>2 DEF Operator, RunEnrollCommand, FinishEnrollment, LoseEnrollmentReply, RemoveState
<1>3. ASSUME NEW a \in Agents, NEW p \in Procs, Cycle(a, p) PROVE UNCHANGED status
  BY <1>3 DEF Cycle, BeginCycle, Call, Refused, Learn, PinKey, SaveState, RejectAnswer, EndCycle, Fail
<1>4. ASSUME NEW a \in Agents, NEW k \in KeyOrNone, LateHeartbeat(a, k) PROVE UNCHANGED status
  BY <1>4 DEF LateHeartbeat
<1>5. QED
  BY <1>1, <1>2, <1>3, <1>4 DEF Next

\* What each of them does to it.
LEMMA StageLedger ==
    ASSUME TypeOK, KeysInv, NEW k \in Keys, Stage(k)
    PROVE  /\ status[k] = "unused"
           /\ \A j \in Keys : status'[j] = IF j = k THEN "staged" ELSE status[j]
           /\ \A j \in Keys : status[j] # "staged" /\ (status[j] # "unused" => k > j)
<1>1. status[k] = "unused" /\ \A j \in Keys : status[j] # "staged"
  BY DEF Stage, Newest, NoneStaged
<1>2. \A j \in Keys : status'[j] = IF j = k THEN "staged" ELSE status[j]
  BY DEF Stage, TypeOK
<1>3. \A j \in Keys : status[j] # "unused" => k > j
  BY <1>1 DEF KeysInv, InOrder, Keys
<1>4. QED
  BY <1>1, <1>2, <1>3

\* Activation keeps the ledgers of keys and tokens.
LEMMA ActivateLedger ==
    ASSUME TypeOK, KeysInv, NEW k \in Keys, Activate(k)
    PROVE  /\ status[k] = "staged" /\ k # 1
           /\ \E current \in Keys :
                /\ status[current] = "active"
                /\ \A j \in Keys : status'[j] = IF j = k THEN "active"
                                                ELSE IF j = current THEN "retired" ELSE status[j]
           /\ \A j \in Keys : status'[j] # "staged"
<1>1. status[k] = "staged" /\ k # 1
  BY DEF Activate, KeysInv, Past
<1>2. PICK current \in Keys :
        status[current] = "active" /\ status' = [status EXCEPT ![current] = "retired", ![k] = "active"]
  BY DEF Activate
<1>3. \A j \in Keys : status'[j] = IF j = k THEN "active"
                                   ELSE IF j = current THEN "retired" ELSE status[j]
  BY <1>1, <1>2 DEF TypeOK
<1>4. \A j \in Keys : status[j] = "staged" => j = k
  BY <1>1 DEF KeysInv, OneSigner
<1>5. \A j \in Keys : status'[j] # "staged"
  BY <1>3, <1>4
<1>6. \E c \in Keys : /\ status[c] = "active"
                      /\ \A j \in Keys : status'[j] = IF j = k THEN "active"
                                           ELSE IF j = c THEN "retired" ELSE status[j]
  BY <1>2, <1>3, Zenon
<1>7. QED
  BY <1>1, <1>5, <1>6

\* Aborting keeps the ledgers of keys and tokens.
LEMMA AbortLedger ==
    ASSUME TypeOK, KeysInv, NEW k \in Keys, Abort(k)
    PROVE  /\ status[k] = "staged"
           /\ \A j \in Keys : status'[j] = IF j = k THEN "revoked" ELSE status[j]
           /\ \A j \in Keys : status'[j] # "staged"
<1>1. status[k] = "staged" /\ \A j \in Keys : status'[j] = IF j = k THEN "revoked" ELSE status[j]
  BY DEF Abort, TypeOK
<1>2. \A j \in Keys : status[j] = "staged" => j = k
  BY <1>1 DEF KeysInv, OneSigner
<1>3. QED
  BY <1>1, <1>2

\* A key never goes back: what was active stays past, what was used stays used.
LEMMA KeysAdvance ==
    ASSUME TypeOK, KeysInv, Next, NEW k \in Keys
    PROVE  /\ Past(k) => Past(k)'
           /\ status[k] # "unused" => status'[k] # "unused"
<1>1. CASE UNCHANGED status
  BY <1>1 DEF Past
<1>2. ASSUME NEW j \in Keys, Stage(j)
      PROVE  (Past(k) => Past(k)') /\ (status[k] # "unused" => status'[k] # "unused")
  BY <1>2, StageLedger DEF Past
<1>3. ASSUME NEW j \in Keys, Activate(j)
      PROVE  (Past(k) => Past(k)') /\ (status[k] # "unused" => status'[k] # "unused")
  BY <1>3, ActivateLedger DEF Past
<1>4. ASSUME NEW j \in Keys, Abort(j)
      PROVE  (Past(k) => Past(k)') /\ (status[k] # "unused" => status'[k] # "unused")
  BY <1>4, AbortLedger DEF Past
<1>5. QED
  BY <1>1, <1>2, <1>3, <1>4, LedgerSteps

\* The key ledger keeps one signer and at most one, newer, staged key.
LEMMA KeysStep == TypeOK /\ KeysInv /\ Next => KeysInv'
<1> SUFFICES ASSUME TypeOK, KeysInv, Next PROVE KeysInv'
  OBVIOUS
<1>1. Past(1)'
  <2>1. 1 \in Keys
    BY RotationConstants DEF Keys
  <2>2. QED
    BY <2>1, KeysAdvance DEF KeysInv
<1>2. ASSUME UNCHANGED status PROVE OneSigner'
  BY <1>2 DEF KeysInv, OneSigner
<1>3. PICK signer \in Keys : \A j \in Keys : status[j] = "active" <=> j = signer
  BY DEF KeysInv, OneSigner
<1>4. ASSUME NEW k \in Keys, Stage(k) PROVE OneSigner'
  <2>1. \A j \in Keys : status'[j] = "active" <=> j = signer
    BY <1>3, <1>4, StageLedger
  <2>2. \A j, i \in Keys : status'[j] = "staged" /\ status'[i] \notin {"unused", "staged"} => j > i
    BY <1>4, StageLedger
  <2>3. \A j, i \in Keys : status'[j] = "staged" /\ status'[i] = "staged" => j = i
    BY <1>4, StageLedger
  <2>4. QED
    BY <2>1, <2>2, <2>3 DEF OneSigner
<1>5. ASSUME NEW k \in Keys, Activate(k) PROVE OneSigner'
  <2>1. \A j \in Keys : status'[j] = "active" <=> j = k
    BY <1>3, <1>5, ActivateLedger
  <2>2. QED
    BY <1>5, <2>1, ActivateLedger DEF OneSigner
<1>6. ASSUME NEW k \in Keys, Abort(k) PROVE OneSigner'
  <2>1. \A j \in Keys : status'[j] = "active" <=> j = signer
    BY <1>3, <1>6, AbortLedger
  <2>2. QED
    BY <1>6, <2>1, AbortLedger DEF OneSigner
<1>7. OneSigner'
  BY <1>2, <1>4, <1>5, <1>6, LedgerSteps DEF KeysInv
<1>8. InOrder'
  <2>1. CASE UNCHANGED status
    BY <2>1 DEF KeysInv, InOrder
  <2>2. ASSUME NEW k \in Keys, Stage(k) PROVE InOrder'
    <3>1. \A i \in Keys : i < k => status[i] # "unused"
      BY <2>2 DEF Stage, Newest
    <3>2. \A j \in Keys : status'[j] = IF j = k THEN "staged" ELSE status[j]
      BY <2>2, StageLedger
    <3>3. QED
      BY <3>1, <3>2 DEF KeysInv, InOrder
  <2>3. ASSUME NEW k \in Keys, Activate(k) PROVE InOrder'
    BY <2>3, ActivateLedger DEF KeysInv, InOrder
  <2>4. ASSUME NEW k \in Keys, Abort(k) PROVE InOrder'
    BY <2>4, AbortLedger DEF KeysInv, InOrder
  <2>5. QED
    BY <2>1, <2>2, <2>3, <2>4, LedgerSteps
<1>9. QED
  BY <1>1, <1>7, <1>8 DEF KeysInv

\* An enrollment token is pinned to a key that is, or was, the signer.
LEMMA TokensStep == TypeOK /\ KeysInv /\ TokensInv /\ Next => TokensInv'
<1> SUFFICES ASSUME TypeOK, KeysInv, TokensInv, Next, NEW t \in Tokens, token'[t].state # "none"
             PROVE  token'[t].key \in Keys /\ status'[token'[t].key] \in {"active", "retired"}
  BY DEF TokensInv, Past
<1>1. \/ token[t].state # "none" /\ token'[t].key = token[t].key
      \/ token'[t].key \in Keys /\ status[token'[t].key] = "active"
  <2>1. CASE UNCHANGED token
    BY <2>1
  <2>2. ASSUME NEW k \in Keys, Activate(k)
        PROVE  token[t].state # "none" /\ token'[t].key = token[t].key
    BY <2>2 DEF Activate, TypeOK
  <2>3. ASSUME NEW u \in Tokens, BeginToken(u)
        PROVE  \/ token[t].state # "none" /\ token'[t].key = token[t].key
               \/ token'[t].key \in Keys /\ status[token'[t].key] = "active"
    BY <2>3 DEF BeginToken, TypeOK
  <2>4. ASSUME NEW u \in Tokens, CommitToken(u) \/ RevokeToken(u) \/ ExpireToken(u)
        PROVE  token[t].state # "none" /\ token'[t].key = token[t].key
    <3>1. \E state \in {"live", "revoked", "spent"} : token' = [token EXCEPT ![u].state = state]
      BY <2>4 DEF CommitToken, RevokeToken, ExpireToken
    <3>2. token[u].state # "none"
      BY <2>4 DEF CommitToken, RevokeToken, ExpireToken
    <3>3. QED
      BY <3>1, <3>2 DEF TypeOK
  <2>5. ASSUME NEW a \in Agents, NEW u \in Tokens, RunEnrollCommand(a, u)
        PROVE  token[t].state # "none" /\ token'[t].key = token[t].key
    <3>1. token' = token \/ token' = [token EXCEPT ![u].state = "spent"]
      <4>1. CASE EnrollAgent(a, u)
        BY <4>1, Zenon DEF EnrollAgent
      <4>2. CASE UNCHANGED <<row, token, reply>>
        BY <4>2
      <4>3. QED
        BY <2>5, <4>1, <4>2 DEF RunEnrollCommand
    <3>2. token[u].state # "none"
      BY <2>5 DEF RunEnrollCommand
    <3>3. CASE token' = token
      BY <3>3
    <3>4. CASE token' = [token EXCEPT ![u].state = "spent"]
      <4>1. token'[t].key = token[t].key /\ (t # u => token'[t] = token[t])
        BY <3>4 DEF TypeOK
      <4>2. QED
        BY <3>2, <4>1
    <3>5. QED
      BY <3>1, <3>3, <3>4
  <2>6. ASSUME NEW a \in Agents, Operator(a)
        PROVE  UNCHANGED token \/ \E u \in Tokens : RunEnrollCommand(a, u)
    BY <2>6 DEF Operator, FinishEnrollment, LoseEnrollmentReply, RemoveState
  <2>7. ASSUME NEW a \in Agents, NEW p \in Procs, Cycle(a, p) PROVE UNCHANGED token
    BY <2>7 DEF Cycle, BeginCycle, Call, Refused, Learn, PinKey, SaveState, RejectAnswer, EndCycle,
                Fail
  <2>8. ASSUME NEW a \in Agents, NEW k \in KeyOrNone, LateHeartbeat(a, k) PROVE UNCHANGED token
    BY <2>8 DEF LateHeartbeat
  <2>9. CASE Administrator
    BY <2>1, <2>2, <2>3, <2>4, <2>9 DEF Administrator, Stage, Abort, Revoke, PrepareReenrollment
  <2>10. QED
    BY <2>1, <2>5, <2>6, <2>7, <2>8, <2>9 DEF Next
<1>2. token'[t].key \in Keys /\ status[token'[t].key] \in {"active", "retired"}
  BY <1>1 DEF TokensInv, Past
<1>3. \A k \in Keys : status[k] \in {"active", "retired"} => status'[k] \in {"active", "retired"}
  BY KeysAdvance DEF Past
<1>4. QED
  BY <1>2, <1>3

\* A late heartbeat is for a key that was staged once.
LEMMA LateStep ==
    ASSUME TypeOK, KeysInv, LateInv, Next, \A a \in Agents : AgentInv(a)
    PROVE  LateInv'
<1> SUFFICES ASSUME NEW b \in Agents, NEW k \in Keys, <<b, k>> \in late'
             PROVE  status'[k] # "unused"
  BY DEF LateInv
<1>1. CASE <<b, k>> \in late
  BY <1>1, KeysAdvance DEF LateInv
<1>2. CASE <<b, k>> \notin late
  <2>1. PICK a \in Agents, p \in Procs : Fail(a, p)
    <3>1. CASE Administrator
      BY <1>2, <3>1 DEF Administrator, Stage, Activate, Abort, Revoke, PrepareReenrollment,
                        BeginToken, CommitToken, RevokeToken, ExpireToken
    <3>2. ASSUME NEW a \in Agents, Operator(a) PROVE FALSE
      BY <1>2, <3>2 DEF Operator, RunEnrollCommand, FinishEnrollment, LoseEnrollmentReply, RemoveState
    <3>3. ASSUME NEW a \in Agents, NEW p \in Procs, Cycle(a, p) PROVE Fail(a, p)
      BY <1>2, <3>3 DEF Cycle, BeginCycle, Call, Refused, Learn, PinKey, SaveState, RejectAnswer,
                        EndCycle
    <3>4. ASSUME NEW a \in Agents, NEW j \in KeyOrNone, LateHeartbeat(a, j) PROVE FALSE
      BY <1>2, <3>4 DEF LateHeartbeat
    <3>5. QED
      BY <3>1, <3>2, <3>3, <3>4 DEF Next
  <2>2. /\ run[a][p].pc # "idle" /\ run[a][p].ans = NoAnswer
        /\ b = a /\ k = run[a][p].mem.pend
    BY <1>2, <2>1 DEF Fail
  <2>3. AgentInv(a)
    OBVIOUS
  <2>4. k = disk[a].pend /\ disk[a] # NoTrust
    BY <2>2, <2>3 DEF AgentInv, ProcInv, NoAnswer, Resting
  <2>5. status[k] # "unused"
    BY <2>3, <2>4 DEF AgentInv, DiskKeys, Used, Keys, NoKey
  <2>6. QED
    BY <2>5, KeysAdvance
<1>3. QED
  BY <1>1, <1>2

-----------------------------------------------------------------------------
(* A host's part of the invariant, action by action *)

\* A host nobody touches, and whose late heartbeats at most disappear.
LEMMA HostFrame ==
    ASSUME NEW b \in Agents, AgentInv(b), status' = status, row'[b] = row[b],
           \A k \in Keys : <<b, k>> \in late' => <<b, k>> \in late,
           file'[b] = file[b], disk'[b] = disk[b], run'[b] = run[b], reply'[b] = reply[b]
    PROVE  AgentInv(b)'
<1>1. \A k \in Keys : Committed(b, k)' => Committed(b, k)
  BY DEF Committed
<1>2. RowInv(b)' /\ DiskKeys(b)' /\ ReplyKeys(b)'
  BY DEF AgentInv, RowInv, DiskKeys, ReplyKeys, Past, Used
<1>3. DiskInv(b)' /\ ReplyInv(b)'
  BY <1>1 DEF AgentInv, DiskInv, ReplyInv, NeverProposed
<1>4. ASSUME NEW p \in Procs PROVE ProcInv(b, p)' /\ AnswerKeys(b, p)' /\ AnswerInv(b, p)'
  BY <1>1 DEF AgentInv, ProcInv, AnswerKeys, AnswerInv, Past, Used
<1>5. QED
  BY <1>2, <1>3, <1>4 DEF AgentInv

\* What a host knows of keys outlives a change of the key ledger.
LEMMA KeysFrame ==
    ASSUME TypeOK, KeysInv, Next, NEW b \in Agents, AgentInv(b), UNCHANGED hostVars
    PROVE  /\ DiskKeys(b)' /\ ReplyKeys(b)'
           /\ \A p \in Procs : ProcInv(b, p)' /\ AnswerKeys(b, p)'
<1>1. \A k \in Keys : Past(k) => Past(k)'
  BY KeysAdvance
<1>2. \A k \in KeyOrNone : Used(k) => Used(k)'
  BY KeysAdvance DEF KeyOrNone, Used
<1>3. disk[b].pend \in KeyOrNone /\ reply[b].next \in KeyOrNone
  BY DEF TypeOK, Trust, Reply
<1>4. DiskKeys(b)'
  BY <1>1, <1>2, <1>3 DEF AgentInv, DiskKeys, hostVars
<1>5. ReplyKeys(b)'
  BY <1>1, <1>2, <1>3 DEF AgentInv, ReplyKeys, hostVars
<1>6. ASSUME NEW p \in Procs PROVE ProcInv(b, p)' /\ AnswerKeys(b, p)'
  BY <1>1, <1>2 DEF AgentInv, ProcInv, AnswerKeys, hostVars, KeyOrNone
<1>7. QED
  BY <1>4, <1>5, <1>6

\* Staging: nobody can have acknowledged a key that did not exist.
LEMMA StageStep ==
    ASSUME TypeOK, KeysInv, LateInv, NEW b \in Agents, AgentInv(b), NEW k \in Keys, Stage(k)
    PROVE  AgentInv(b)'
<1>1. Next /\ UNCHANGED hostVars
  BY DEF Next, Administrator, Stage
<1>2. /\ status[k] = "unused"
      /\ \A j \in Keys : status'[j] = IF j = k THEN "staged" ELSE status[j]
      /\ \A j \in Keys : status[j] # "staged"
  BY StageLedger
<1>3. row'[b] = IF row[b].live THEN [row[b] EXCEPT !.pend = k, !.acked = FALSE] ELSE row[b]
  BY DEF Stage
<1>4. /\ row'[b].live = row[b].live /\ row'[b].key = row[b].key
      /\ row[b].live => row'[b].pend = k /\ row'[b].acked = FALSE
  BY <1>3 DEF TypeOK
<1>5. row[b].live => \A j \in Keys : ~ Committed(b, j)'
  BY <1>2, <1>4, ZenonT(60) DEF Committed, Stage, LateInv
<1>6. row[b].live => (NeverProposed(row[b].key)' <=> NeverProposed(row[b].key))
  BY <1>2, <1>4 DEF NeverProposed, AgentInv, RowInv, Past
<1>7. RowInv(b)'
  BY <1>2, <1>4 DEF RowInv, AgentInv, Past
<1>8. DiskInv(b)'
  BY <1>1, <1>4, <1>5, <1>6 DEF DiskInv, AgentInv, hostVars, NeverProposed
<1>9. ReplyInv(b)'
  BY <1>1, <1>4, <1>5, <1>6 DEF ReplyInv, AgentInv, hostVars, NeverProposed
<1>10. ASSUME NEW p \in Procs PROVE AnswerInv(b, p)'
  BY <1>1, <1>4, <1>5 DEF AnswerInv, AgentInv, hostVars
<1>11. QED
  BY <1>1, <1>7, <1>8, <1>9, <1>10, KeysFrame DEF AgentInv

\* Activation: every live agent has acknowledged the key, and so holds it.
LEMMA ActivateStep ==
    ASSUME TypeOK, KeysInv, NEW b \in Agents, AgentInv(b), NEW k \in Keys, Activate(k)
    PROVE  AgentInv(b)'
<1>1. Next /\ UNCHANGED hostVars /\ UNCHANGED late
  BY DEF Next, Administrator, Activate
<1>2. /\ status[k] = "staged" /\ k # 1 /\ status'[k] = "active"
      /\ \A j \in Keys : status'[j] # "staged"
  BY ActivateLedger
<1>3. /\ row'[b].live = row[b].live
      /\ row[b].live => row'[b].key = k /\ row'[b].pend = NoKey
  <2>1. row[b] \in Row
    BY DEF TypeOK
  <2>2. QED
    BY <2>1 DEF Activate, Row
<1>4. row[b].live => Committed(b, k)
  BY <1>2 DEF Activate, Acknowledged, Committed
<1>5. row[b].live => ~ NeverProposed(row[b].key)' /\ \A j \in Keys : ~ Committed(b, j)'
  BY <1>2, <1>3 DEF NeverProposed, Committed
<1>6. RowInv(b)'
  BY <1>2, <1>3 DEF RowInv, Past
<1>7. DiskInv(b)'
  BY <1>1, <1>3, <1>4, <1>5 DEF DiskInv, AgentInv, hostVars
<1>8. ReplyInv(b)'
  BY <1>1, <1>3, <1>4, <1>5 DEF ReplyInv, AgentInv, hostVars
<1>9. ASSUME NEW p \in Procs PROVE AnswerInv(b, p)'
  BY <1>1, <1>3, <1>4, <1>5 DEF AnswerInv, AgentInv, hostVars
<1>10. QED
  BY <1>1, <1>6, <1>7, <1>8, <1>9, KeysFrame DEF AgentInv

\* An abort: nothing is staged any more, and the signing keys stay.
LEMMA AbortStep ==
    ASSUME TypeOK, KeysInv, NEW b \in Agents, AgentInv(b), NEW k \in Keys, Abort(k)
    PROVE  AgentInv(b)'
<1>1. Next /\ UNCHANGED hostVars
  BY DEF Next, Administrator, Abort
<1>2. /\ status[k] = "staged"
      /\ \A j \in Keys : status'[j] = IF j = k THEN "revoked" ELSE status[j]
      /\ \A j \in Keys : status'[j] # "staged"
  BY AbortLedger
<1>3. /\ row'[b].live = row[b].live /\ row'[b].key = row[b].key
      /\ row[b].live => row'[b].pend = NoKey
  <2>1. row'[b] = IF row[b].pend = k THEN [row[b] EXCEPT !.pend = NoKey, !.acked = FALSE] ELSE row[b]
    BY DEF Abort
  <2>2. row[b].live => row[b].pend = k
    BY <1>2 DEF AgentInv, RowInv
  <2>3. QED
    BY <2>1, <2>2 DEF TypeOK
<1>4. row[b].live => (NeverProposed(row[b].key)' <=> NeverProposed(row[b].key))
  BY <1>2, <1>3 DEF NeverProposed, AgentInv, RowInv, Past
<1>5. \A j \in Keys : ~ Committed(b, j)'
  BY <1>2 DEF Committed
<1>6. RowInv(b)'
  BY <1>2, <1>3 DEF RowInv, AgentInv, Past
<1>7. DiskInv(b)'
  BY <1>1, <1>3, <1>4, <1>5 DEF DiskInv, AgentInv, hostVars, NeverProposed
<1>8. ReplyInv(b)'
  BY <1>1, <1>3, <1>4, <1>5 DEF ReplyInv, AgentInv, hostVars, NeverProposed
<1>9. ASSUME NEW p \in Procs PROVE AnswerInv(b, p)'
  BY <1>1, <1>3, <1>5 DEF AnswerInv, AgentInv, hostVars
<1>10. QED
  BY <1>1, <1>6, <1>7, <1>8, <1>9, KeysFrame DEF AgentInv

\* A revoked agent is promised nothing.
LEMMA RevokeStep ==
    ASSUME TypeOK, KeysInv, NEW b \in Agents, AgentInv(b), NEW a \in Agents,
           Revoke(a) \/ PrepareReenrollment(a)
    PROVE  AgentInv(b)'
<1>1. UNCHANGED <<status, late, hostVars>>
  BY DEF Revoke, PrepareReenrollment
<1>2. CASE a = b
  <2>1. ~ row'[b].live
    <3>1. CASE Revoke(a)
      BY <1>2, <3>1 DEF Revoke, TypeOK, Row
    <3>2. CASE PrepareReenrollment(a)
      BY <1>2, <3>2 DEF PrepareReenrollment, TypeOK, Row
    <3>3. QED
      BY <3>1, <3>2
  <2>2. RowInv(b)' /\ DiskInv(b)' /\ ReplyInv(b)' /\ \A p \in Procs : AnswerInv(b, p)'
    BY <2>1 DEF RowInv, DiskInv, ReplyInv, AnswerInv
  <2>3. DiskKeys(b)' /\ ReplyKeys(b)' /\ \A p \in Procs : ProcInv(b, p)' /\ AnswerKeys(b, p)'
    BY <1>1 DEF AgentInv, DiskKeys, ReplyKeys, ProcInv, AnswerKeys, hostVars, Past, Used
  <2>4. QED
    BY <2>2, <2>3 DEF AgentInv
<1>3. CASE a # b
  <2>1. row'[b] = row[b]
    BY <1>3 DEF Revoke, PrepareReenrollment, TypeOK
  <2>2. QED
    BY <1>1, <2>1, HostFrame DEF hostVars
<1>4. QED
  BY <1>2, <1>3

\* The enrollment command: a host without local state gets a fresh, live row.
LEMMA EnrollStep ==
    ASSUME TypeOK, KeysInv, TokensInv, NEW b \in Agents, AgentInv(b), NEW t \in Tokens,
           RunEnrollCommand(b, t)
    PROVE  AgentInv(b)'
<1>1. /\ reply[b] = NoReply /\ UNCHANGED <<status, late, disk, run>>
      /\ file'[b] = token[t].key /\ token[t].key \in Keys /\ Past(token[t].key)
  BY DEF RunEnrollCommand, TokensInv, TypeOK
<1>2. disk[b] = NoTrust => \A p \in Procs : run[b][p] = Resting
  BY DEF AgentInv, ProcInv
<1>3. DiskKeys(b)' /\ \A p \in Procs : ProcInv(b, p)' /\ AnswerKeys(b, p)'
  BY <1>1 DEF AgentInv, DiskKeys, ProcInv, AnswerKeys, Past, Used
<1>4. CASE UNCHANGED <<row, token, reply>>
  <2>1. disk[b] = NoTrust \/ ~ row[b].live
    BY DEF RunEnrollCommand
  <2>2. RowInv(b)' /\ DiskInv(b)' /\ ReplyKeys(b)' /\ ReplyInv(b)'
    BY <1>1, <1>4, <2>1 DEF AgentInv, RowInv, DiskInv, ReplyKeys, ReplyInv, Past
  <2>3. \A p \in Procs : AnswerInv(b, p)'
    BY <1>1, <1>2, <1>4, <2>1 DEF AnswerInv, Resting, NoAnswer
  <2>4. QED
    BY <1>3, <2>2, <2>3 DEF AgentInv
<1>5. CASE disk[b] = NoTrust /\ EnrollAgent(b, t)
  <2> DEFINE staged == {k \in Keys : status[k] = "staged"}
             next   == IF staged = {} THEN NoKey ELSE CHOOSE k \in staged : TRUE
  <2>1. \A k \in Keys : status[k] = "staged" => next = k
    BY DEF KeysInv, OneSigner
  <2>2. next # NoKey => next \in Keys /\ status[next] = "staged"
    OBVIOUS
  <2>3. /\ row'[b] = [live |-> TRUE, key |-> token[t].key, pend |-> next, acked |-> row[b].acked,
                   able |-> "key-rotation" \in NamedAtEnrollment]
        /\ reply'[b] = [key |-> token[t].key, next |-> next]
    BY <1>5 DEF EnrollAgent, TypeOK
  <2> HIDE DEF next
  <2>4. next # NoKey => next > token[t].key
    BY <1>1, <2>2 DEF KeysInv, OneSigner, Past
  <2>5. RowInv(b)'
    BY <1>1, <2>1, <2>2, <2>3 DEF RowInv, Past
  <2>6. DiskInv(b)' /\ \A p \in Procs : AnswerInv(b, p)'
    BY <1>1, <1>2, <1>5 DEF DiskInv, AnswerInv, Resting, NoAnswer
  <2>7. ReplyKeys(b)'
    BY <1>1, <1>5, <2>2, <2>3, <2>4 DEF ReplyKeys, Past, Used
  <2>8. ReplyInv(b)'
    BY <1>1, <2>1, <2>3 DEF ReplyInv, Committed
  <2>9. QED
    BY <1>3, <2>5, <2>6, <2>7, <2>8 DEF AgentInv
<1>6. QED
  BY <1>4, <1>5 DEF RunEnrollCommand

\* The answer of the enrollment: written to state.json, or lost.
LEMMA ReplyStep ==
    ASSUME TypeOK, NEW b \in Agents, AgentInv(b),
           FinishEnrollment(b) \/ LoseEnrollmentReply(b) \/ RemoveState(b)
    PROVE  AgentInv(b)'
<1>1. UNCHANGED <<status, row, late, file, run>>
  BY DEF FinishEnrollment, LoseEnrollmentReply, RemoveState
<1>2. /\ RowInv(b)'
      /\ \A p \in Procs : AnswerKeys(b, p)'
      /\ \A k \in Keys : Committed(b, k)' <=> Committed(b, k)
  BY <1>1 DEF AgentInv, RowInv, AnswerKeys, Past, Used, Committed
<1>3. CASE FinishEnrollment(b)
  <2>1. /\ reply[b] # NoReply /\ disk[b] = NoTrust /\ file[b] = reply[b].key
        /\ \A p \in Procs : run[b][p] = Resting
    BY <1>3 DEF FinishEnrollment, AgentInv, ReplyKeys, ProcInv
  <2>2. /\ disk'[b] = [kid |-> reply[b].key, pend |-> reply[b].next] \/ disk' = disk
        /\ reply'[b] = NoReply
    BY <1>3, <2>1 DEF FinishEnrollment, TypeOK
  <2>3. DiskKeys(b)'
    <3>1. CASE disk'[b] = [kid |-> reply[b].key, pend |-> reply[b].next]
      BY <1>1, <2>1, <3>1 DEF DiskKeys, AgentInv, ReplyKeys, Past, Used
    <3>2. CASE disk' = disk
      BY <1>1, <3>2 DEF DiskKeys, AgentInv, Past, Used
    <3>3. QED
      BY <2>2, <3>1, <3>2
  <2>4. DiskInv(b)'
    <3>1. CASE disk'[b] = [kid |-> reply[b].key, pend |-> reply[b].next]
      BY <1>1, <1>2, <2>1, <3>1 DEF DiskInv, AgentInv, ReplyInv, NeverProposed
    <3>2. CASE disk' = disk
      BY <2>1, <3>2 DEF DiskInv
    <3>3. QED
      BY <2>2, <3>1, <3>2
  <2>5. ReplyKeys(b)' /\ ReplyInv(b)'
    BY <2>2 DEF ReplyKeys, ReplyInv
  <2>6. \A p \in Procs : ProcInv(b, p)' /\ AnswerInv(b, p)'
    BY <1>1, <2>1 DEF ProcInv, AnswerInv, Resting, NoAnswer
  <2>7. QED
    BY <1>2, <2>3, <2>4, <2>5, <2>6 DEF AgentInv
<1>4. CASE LoseEnrollmentReply(b)
  <2>1. disk' = disk /\ reply'[b] = NoReply
    BY <1>4 DEF LoseEnrollmentReply, TypeOK
  <2>2. DiskKeys(b)' /\ DiskInv(b)'
    BY <1>1, <1>2, <2>1 DEF DiskKeys, DiskInv, AgentInv, Past, Used, NeverProposed
  <2>3. ReplyKeys(b)' /\ ReplyInv(b)'
    BY <2>1 DEF ReplyKeys, ReplyInv
  <2>4. \A p \in Procs : ProcInv(b, p)' /\ AnswerInv(b, p)'
    BY <1>1, <1>2, <2>1 DEF ProcInv, AnswerInv, AgentInv
  <2>5. QED
    BY <1>2, <2>2, <2>3, <2>4 DEF AgentInv
<1>5. CASE RemoveState(b)
  <2>1. /\ disk[b] # NoTrust /\ disk'[b] = NoTrust /\ reply' = reply
        /\ \A p \in Procs : run[b][p] = Resting
    BY <1>5 DEF RemoveState, TypeOK
  <2>2. DiskKeys(b)' /\ DiskInv(b)'
    BY <2>1 DEF DiskKeys, DiskInv
  <2>3. ReplyKeys(b)' /\ ReplyInv(b)'
    BY <2>1 DEF ReplyKeys, ReplyInv, AgentInv
  <2>4. \A p \in Procs : ProcInv(b, p)' /\ AnswerInv(b, p)'
    BY <1>1, <2>1 DEF ProcInv, AnswerInv, Resting, NoAnswer
  <2>5. QED
    BY <1>2, <2>2, <2>3, <2>4 DEF AgentInv
<1>6. QED
  BY <1>3, <1>4, <1>5

\* A heartbeat handled after its client gave up: the key is one the host holds.
LEMMA LateHeartbeatStep ==
    ASSUME TypeOK, NEW b \in Agents, AgentInv(b), NEW k \in KeyOrNone, LateHeartbeat(b, k)
    PROVE  AgentInv(b)'
<1>1. UNCHANGED <<status, hostVars>> /\ <<b, k>> \in late /\ late' = late \ {<<b, k>>}
  BY DEF LateHeartbeat
<1>2. /\ row'[b].live = row[b].live /\ row'[b].key = row[b].key /\ row'[b].pend = row[b].pend
      /\ row'[b].acked => row[b].acked \/ (row[b].live /\ row[b].pend = k /\ k # NoKey)
  <2>1. CASE row[b].live /\ k \in {NoKey, row[b].pend}
    <3>1. row' = AfterHeartbeat(b, k)
      BY <2>1 DEF LateHeartbeat
    <3>2. QED
      BY <2>1, <3>1, HeartbeatRow
  <2>2. CASE ~ (row[b].live /\ k \in {NoKey, row[b].pend})
    <3>1. row' = row
      BY <2>2 DEF LateHeartbeat
    <3>2. QED
      BY <3>1
  <2>3. QED
    BY <2>1, <2>2
<1>3. RowInv(b)' /\ DiskKeys(b)' /\ ReplyKeys(b)'
  BY <1>1, <1>2 DEF AgentInv, RowInv, DiskKeys, ReplyKeys, hostVars, Past, Used
<1>4. row[b].live => \A j \in Keys : Committed(b, j)' => Committed(b, j)
  BY <1>1, <1>2 DEF Committed, AgentInv, RowInv
<1>5. DiskInv(b)' /\ ReplyInv(b)'
  BY <1>1, <1>2, <1>4 DEF AgentInv, DiskInv, ReplyInv, NeverProposed, hostVars
<1>6. ASSUME NEW p \in Procs PROVE ProcInv(b, p)' /\ AnswerKeys(b, p)' /\ AnswerInv(b, p)'
  BY <1>1, <1>2, <1>4 DEF AgentInv, ProcInv, AnswerKeys, AnswerInv, hostVars, Past, Used
<1>7. QED
  BY <1>3, <1>5, <1>6 DEF AgentInv

-----------------------------------------------------------------------------
(* The agent's cycle, step by step *)

\* Steps that change nothing but the process: a cycle begins, or ends early.
LEMMA QuietStep ==
    ASSUME TypeOK, SingleProcess, NEW b \in Agents, NEW p \in Procs, AgentInv(b),
           BeginCycle(b, p) \/ Refused(b, p) \/ RejectAnswer(b, p)
    PROVE  AgentInv(b)'
<1>1. UNCHANGED <<status, row, late, file, disk, reply>>
  BY DEF BeginCycle, Refused, RejectAnswer
<1>2. RowInv(b)' /\ DiskKeys(b)' /\ DiskInv(b)' /\ ReplyKeys(b)' /\ ReplyInv(b)'
  BY <1>1 DEF AgentInv, RowInv, DiskKeys, DiskInv, ReplyKeys, ReplyInv, Past, Used, NeverProposed,
              Committed
<1>3. ASSUME NEW q \in Procs PROVE ProcInv(b, q)' /\ AnswerKeys(b, q)' /\ AnswerInv(b, q)'
  <2>1. q = p
    BY DEF SingleProcess
  <2>2. CASE run'[b][p] = Resting
    BY <1>1, <2>1, <2>2 DEF ProcInv, AnswerKeys, AnswerInv, Resting, NoAnswer
  <2>3. CASE /\ disk[b] # NoTrust
             /\ run'[b][p] = [pc |-> "policy", mem |-> disk[b], ans |-> NoAnswer]
    BY <1>1, <2>1, <2>3 DEF ProcInv, AnswerKeys, AnswerInv, NoAnswer
  <2>4. CASE /\ run[b][p].pc = "poll" /\ run[b][p].ans.kind # "filed"
             /\ run'[b][p] = [run[b][p] EXCEPT !.ans = NoAnswer]
    <3>1. /\ run'[b][p].pc = "poll" /\ run'[b][p].ans = NoAnswer
          /\ run'[b][p].mem = run[b][p].mem
      BY <2>4 DEF TypeOK, Process
    <3>2. run[b][p].mem = disk[b] /\ disk[b] # NoTrust
      BY <2>4 DEF AgentInv, ProcInv, Resting
    <3>3. QED
      BY <1>1, <2>1, <3>1, <3>2 DEF ProcInv, AnswerKeys, AnswerInv, NoAnswer
  <2>5. CASE BeginCycle(b, p)
    BY <2>3, <2>5 DEF BeginCycle, TypeOK
  <2>6. CASE Refused(b, p)
    BY <2>2, <2>6 DEF Refused, TypeOK
  <2>7. CASE RejectAnswer(b, p)
    <3>1. run' = [run EXCEPT ![b][p] = Resting] => run'[b][p] = Resting
      BY DEF TypeOK
    <3>2. run' = [run EXCEPT ![b][p].ans = NoAnswer]
             => run'[b][p] = [run[b][p] EXCEPT !.ans = NoAnswer]
      BY DEF TypeOK
    <3>3. QED
      BY <2>2, <2>4, <2>7, <3>1, <3>2, Zenon DEF RejectAnswer
  <2>8. QED
    BY <2>5, <2>6, <2>7
<1>4. QED
  BY <1>2, <1>3 DEF AgentInv

\* A cycle that fails may leave its acknowledgement on the way.
LEMMA FailStep ==
    ASSUME TypeOK, SingleProcess, NEW b \in Agents, NEW p \in Procs, AgentInv(b), Fail(b, p)
    PROVE  AgentInv(b)'
<1>1. /\ UNCHANGED <<status, row, file, disk, reply>>
      /\ run'[b][p] = Resting /\ disk[b] # NoTrust /\ reply[b] = NoReply
  BY DEF Fail, TypeOK, AgentInv, ProcInv, ReplyKeys, Resting
<1>2. \A k \in Keys : <<b, k>> \in late' => <<b, k>> \in late \/ disk[b].pend = k
  BY DEF Fail, AgentInv, ProcInv, NoAnswer
<1>3. RowInv(b)' /\ DiskKeys(b)' /\ ReplyKeys(b)' /\ ReplyInv(b)'
  BY <1>1 DEF AgentInv, RowInv, DiskKeys, ReplyKeys, ReplyInv, Past, Used
<1>4. \A k \in Keys : Committed(b, k)' => Committed(b, k) \/ disk[b].pend = k
  BY <1>1, <1>2 DEF Committed
<1>5. DiskInv(b)'
  BY <1>1, <1>4 DEF AgentInv, DiskInv, NeverProposed
<1>6. ASSUME NEW q \in Procs PROVE ProcInv(b, q)' /\ AnswerKeys(b, q)' /\ AnswerInv(b, q)'
  <2>1. q = p
    BY DEF SingleProcess
  <2>2. QED
    BY <1>1, <2>1 DEF ProcInv, AnswerKeys, AnswerInv, Resting, NoAnswer
<1>7. QED
  BY <1>3, <1>5, <1>6 DEF AgentInv

\* The platform answers: what it promises is what its row says.
LEMMA CallStep ==
    ASSUME TypeOK, KeysInv, SingleProcess, NEW b \in Agents, NEW p \in Procs, AgentInv(b), Call(b, p)
    PROVE  AgentInv(b)'
<1> DEFINE r == run[b][p]
<1>1. /\ UNCHANGED <<status, late, file, disk, reply>>
      /\ row[b].live /\ r.pc # "idle" /\ r.ans = NoAnswer
      /\ disk[b] # NoTrust /\ r.mem = disk[b] /\ reply[b] = NoReply
  BY DEF Call, Acceptable, AgentInv, ProcInv, ReplyKeys, Resting, NoAnswer
<1>2. /\ row'[b].live = row[b].live /\ row'[b].key = row[b].key /\ row'[b].pend = row[b].pend
      /\ row'[b].acked => row[b].acked \/ (disk[b].pend # NoKey /\ disk[b].pend = row[b].pend)
  <2>1. CASE r.pc = "heartbeat"
    <3>1. row' = AfterHeartbeat(b, r.mem.pend) /\ r.mem.pend \in {NoKey, row[b].pend}
      BY <2>1 DEF Call, Acceptable
    <3>2. r.mem.pend \in KeyOrNone
      BY DEF TypeOK, Process, Trust
    <3>3. QED
      BY <1>1, <3>1, <3>2, HeartbeatRow
  <2>2. CASE r.pc # "heartbeat"
    BY <2>2 DEF Call
  <2>3. QED
    BY <2>1, <2>2
<1>3. \A k \in Keys : Committed(b, k)' => row[b].pend = k /\ disk[b].pend = k
  BY <1>1, <1>2 DEF Committed, AgentInv, RowInv, DiskInv
<1>4. /\ run'[b][p].pc = r.pc /\ run'[b][p].mem = r.mem
      /\ run'[b][p].ans = SignedAnswer(b)
  BY DEF Call, TypeOK, Process
<1>5. RowInv(b)' /\ DiskKeys(b)' /\ ReplyKeys(b)' /\ ReplyInv(b)'
  BY <1>1, <1>2 DEF AgentInv, RowInv, DiskKeys, ReplyKeys, ReplyInv, Past, Used
<1>6. DiskInv(b)'
  BY <1>1, <1>2, <1>3 DEF AgentInv, DiskInv, NeverProposed
<1>7. \/ /\ row[b].pend # NoKey /\ row[b].pend \in Keys /\ status[row[b].pend] = "staged"
         /\ SignedAnswer(b) = [kind |-> "staged", key |-> row[b].key, next |-> row[b].pend]
      \/ /\ row[b].pend = NoKey /\ ~ NeverProposed(row[b].key)
         /\ SignedAnswer(b) = [kind |-> "activated", key |-> row[b].key, next |-> row[b].key]
      \/ /\ row[b].pend = NoKey /\ NeverProposed(row[b].key)
         /\ SignedAnswer(b) = [kind |-> "plain", key |-> row[b].key, next |-> NoKey]
  BY <1>1 DEF SignedAnswer, AgentInv, RowInv, NeverProposed, TypeOK, Row, KeyOrNone, Keys
<1>8. ASSUME NEW q \in Procs PROVE ProcInv(b, q)' /\ AnswerKeys(b, q)' /\ AnswerInv(b, q)'
  <2>1. q = p
    BY DEF SingleProcess
  <2>2. ProcInv(b, p)'
    BY <1>1, <1>4 DEF ProcInv
  <2>3. AnswerKeys(b, p)'
    BY <1>1, <1>4, <1>7 DEF AnswerKeys, AgentInv, RowInv, Past, Used
  <2>4. NoKey \notin Keys
    BY DEF NoKey, Keys
  <2>5. AnswerInv(b, p)'
    BY <1>1, <1>2, <1>3, <1>4, <1>7, <2>4 DEF AnswerInv, AgentInv, DiskInv
  <2>6. QED
    BY <2>1, <2>2, <2>3, <2>5
<1>9. QED
  BY <1>5, <1>6, <1>8 DEF AgentInv

\* A plain or staged answer is learnt: the host still holds the signing key.
LEMMA LearnStep ==
    ASSUME TypeOK, SingleProcess, NEW b \in Agents, NEW p \in Procs, AgentInv(b), Learn(b, p)
    PROVE  AgentInv(b)'
<1> DEFINE r   == run[b][p]
           ans == r.ans
<1>1. /\ UNCHANGED <<status, row, late, file, reply>>
      /\ ans.kind \in {"plain", "staged"}
      /\ ans.key \in {file[b], r.mem.pend}
      /\ ans.kind = "staged" => ans.key = r.mem.kid /\ ans.next > r.mem.kid
  BY DEF Learn, Trusts, Verifies, Applies
<1>2. r.pc # "idle" /\ r.mem = disk[b] /\ disk[b] # NoTrust /\ reply[b] = NoReply
  BY <1>1 DEF AgentInv, ProcInv, ReplyKeys, Resting, NoAnswer
<1>3. /\ disk'[b] = [kid |-> disk[b].kid, pend |-> ans.next]
      /\ run'[b][p] = [pc |-> Following(r.pc),
                       mem |-> [kid |-> disk[b].kid, pend |-> ans.next], ans |-> NoAnswer]
  BY <1>2 DEF Learn, TypeOK
<1>4. disk[b].kid \in Keys /\ disk[b].kid # NoKey /\ NoKey \notin Keys
  BY <1>2 DEF AgentInv, DiskKeys, Keys, NoKey
<1>5. RowInv(b)' /\ ReplyKeys(b)' /\ ReplyInv(b)'
  BY <1>1, <1>2 DEF AgentInv, RowInv, ReplyKeys, ReplyInv, Past, Used
<1>6. \A k \in Keys : Committed(b, k)' <=> Committed(b, k)
  BY <1>1 DEF Committed
<1>7. DiskKeys(b)'
  <2>1. /\ ans.kind = "plain" => ans.next = NoKey
        /\ ans.kind = "staged" => ans.next \in Keys /\ Used(ans.next)
    BY DEF AgentInv, AnswerKeys
  <2>2. Used(ans.next) /\ (ans.next # NoKey => ans.next > disk[b].kid)
    BY <1>1, <1>2, <2>1 DEF Used
  <2>3. QED
    BY <1>1, <1>2, <1>3, <2>2 DEF AgentInv, DiskKeys, Past, Used
<1>8. DiskInv(b)'
  <2> SUFFICES ASSUME row[b].live PROVE DiskInv(b)'
    BY <1>1 DEF DiskInv
  <2>1. /\ row[b].key \in {file[b], disk[b].pend}
        /\ NeverProposed(row[b].key) => file[b] = row[b].key /\ disk[b].kid = row[b].key
        /\ file[b] # disk[b].kid => file[b] = disk[b].pend /\ file[b] = row[b].key
    BY <1>2 DEF AgentInv, DiskInv
  <2>2. NeverProposed(row[b].key)' <=> NeverProposed(row[b].key)
    BY <1>1 DEF NeverProposed
  <2>3. CASE ans.kind = "plain"
    <3>1. /\ file[b] = row[b].key /\ disk[b].kid = row[b].key
          /\ \A k \in Keys : ~ Committed(b, k)
      BY <2>3 DEF AgentInv, AnswerInv
    <3>2. QED
      BY <1>1, <1>3, <1>6, <2>2, <3>1 DEF DiskInv
  <2>4. CASE ans.kind = "staged"
    <3>1. /\ row[b].key \in {ans.key, ans.next}
          /\ \A k \in Keys : Committed(b, k) => ans.next = k
      BY <2>4 DEF AgentInv, AnswerInv
    <3>2. ans.key = disk[b].kid
      BY <1>1, <1>2, <2>4
    <3>3. QED
      BY <1>1, <1>3, <1>6, <2>1, <2>2, <3>1, <3>2 DEF DiskInv
  <2>5. QED
    BY <1>1, <2>3, <2>4
<1>9. ASSUME NEW q \in Procs PROVE ProcInv(b, q)' /\ AnswerKeys(b, q)' /\ AnswerInv(b, q)'
  <2>1. q = p
    BY DEF SingleProcess
  <2>2. disk'[b] # NoTrust /\ run'[b][p].pc # "idle"
    BY <1>3, <1>4 DEF NoTrust, Following
  <2>3. QED
    BY <1>3, <2>1, <2>2 DEF ProcInv, AnswerKeys, AnswerInv, NoAnswer
<1>10. QED
  BY <1>5, <1>7, <1>8, <1>9 DEF AgentInv

\* An activation reaches the key file: state.json still holds the same key as pending.
LEMMA PinKeyStep ==
    ASSUME TypeOK, SingleProcess, NEW b \in Agents, NEW p \in Procs, AgentInv(b), PinKey(b, p)
    PROVE  AgentInv(b)'
<1> DEFINE r   == run[b][p]
           ans == r.ans
<1>1. /\ UNCHANGED <<status, row, late, disk, reply>>
      /\ ans.kind = "activated" /\ file'[b] = ans.key
      /\ ans.key \in {r.mem.kid, r.mem.pend}
  BY DEF PinKey, Trusts, Applies, TypeOK
<1>2. r.pc # "idle" /\ r.mem = disk[b] /\ disk[b] # NoTrust /\ reply[b] = NoReply
  BY <1>1 DEF AgentInv, ProcInv, ReplyKeys, Resting, NoAnswer
<1>3. /\ run'[b][p].pc = r.pc
      /\ run'[b][p].mem = [kid |-> ans.key, pend |-> NoKey]
      /\ run'[b][p].ans.kind = "filed" /\ run'[b][p].ans.key = ans.key
  BY DEF PinKey, TypeOK, Process, Answer
<1>4. RowInv(b)' /\ DiskKeys(b)' /\ ReplyKeys(b)' /\ ReplyInv(b)'
  BY <1>1, <1>2 DEF AgentInv, RowInv, DiskKeys, ReplyKeys, ReplyInv, Past, Used
<1>5. \A k \in Keys : Committed(b, k)' <=> Committed(b, k)
  BY <1>1 DEF Committed
<1>6. DiskInv(b)'
  BY <1>1, <1>2, <1>5 DEF DiskInv, AgentInv, AnswerInv, NeverProposed
<1>7. ASSUME NEW q \in Procs PROVE ProcInv(b, q)' /\ AnswerKeys(b, q)' /\ AnswerInv(b, q)'
  <2>1. q = p
    BY DEF SingleProcess
  <2>2. ProcInv(b, p)' /\ AnswerKeys(b, p)'
    BY <1>1, <1>2, <1>3 DEF ProcInv, AnswerKeys, AgentInv, Past
  <2>3. AnswerInv(b, p)'
    BY <1>1, <1>3, <1>5 DEF AnswerInv, AgentInv
  <2>4. QED
    BY <2>1, <2>2, <2>3
<1>8. QED
  BY <1>4, <1>6, <1>7 DEF AgentInv

\* The activation is saved: the key file holds the signing key already.
LEMMA SaveStateStep ==
    ASSUME TypeOK, SingleProcess, NEW b \in Agents, NEW p \in Procs, AgentInv(b), SaveState(b, p)
    PROVE  AgentInv(b)'
<1> DEFINE r   == run[b][p]
           ans == r.ans
<1>1. /\ UNCHANGED <<status, row, late, file, reply>> /\ ans.kind = "filed"
      /\ r.mem = [kid |-> ans.key, pend |-> NoKey] /\ ans.key \in Keys /\ Past(ans.key)
      /\ disk[b] # NoTrust /\ reply[b] = NoReply
  BY DEF SaveState, AgentInv, ProcInv, AnswerKeys, ReplyKeys, Resting, NoAnswer
<1>2. /\ disk'[b] = [kid |-> ans.key, pend |-> NoKey]
      /\ run'[b][p] = [pc |-> Following(r.pc), mem |-> [kid |-> ans.key, pend |-> NoKey],
                       ans |-> NoAnswer]
  BY <1>1 DEF SaveState, TypeOK
<1>3. RowInv(b)' /\ ReplyKeys(b)' /\ ReplyInv(b)'
  BY <1>1 DEF AgentInv, RowInv, ReplyKeys, ReplyInv, Past, Used
<1>4. \A k \in Keys : Committed(b, k)' <=> Committed(b, k)
  BY <1>1 DEF Committed
<1>5. DiskKeys(b)'
  BY <1>1, <1>2 DEF DiskKeys, Past, Used
<1>6. DiskInv(b)'
  BY <1>1, <1>2, <1>4 DEF DiskInv, AgentInv, AnswerInv, NeverProposed
<1>7. ASSUME NEW q \in Procs PROVE ProcInv(b, q)' /\ AnswerKeys(b, q)' /\ AnswerInv(b, q)'
  <2>1. q = p
    BY DEF SingleProcess
  <2>2. disk'[b] # NoTrust /\ run'[b][p].pc # "idle"
    BY <1>1, <1>2 DEF NoTrust, Following, Keys, NoKey
  <2>3. QED
    BY <1>2, <2>1, <2>2 DEF ProcInv, AnswerKeys, AnswerInv, NoAnswer
<1>8. QED
  BY <1>3, <1>5, <1>6, <1>7 DEF AgentInv

\* The last save of a cycle rewrites what is there.
LEMMA EndCycleStep ==
    ASSUME TypeOK, SingleProcess, NEW b \in Agents, NEW p \in Procs, AgentInv(b), EndCycle(b, p)
    PROVE  AgentInv(b)'
<1>1. /\ UNCHANGED <<status, row, late, file, reply>>
      /\ disk'[b] = disk[b] /\ run'[b][p] = Resting
  BY DEF EndCycle, AgentInv, ProcInv, NoAnswer, TypeOK
<1>2. RowInv(b)' /\ DiskKeys(b)' /\ DiskInv(b)' /\ ReplyKeys(b)' /\ ReplyInv(b)'
  BY <1>1 DEF AgentInv, RowInv, DiskKeys, DiskInv, ReplyKeys, ReplyInv, Past, Used, NeverProposed,
              Committed
<1>3. ASSUME NEW q \in Procs PROVE ProcInv(b, q)' /\ AnswerKeys(b, q)' /\ AnswerInv(b, q)'
  <2>1. q = p
    BY DEF SingleProcess
  <2>2. QED
    BY <1>1, <2>1 DEF ProcInv, AnswerKeys, AnswerInv, Resting, NoAnswer
<1>4. QED
  BY <1>2, <1>3 DEF AgentInv

-----------------------------------------------------------------------------
(* The invariant is inductive *)

\* A new tenant has one key, and it signs.
LEMMA KeysInit == Init => KeysInv
<1> SUFFICES ASSUME Init PROVE KeysInv
  OBVIOUS
<1>1. 1 \in Keys
  BY RotationConstants DEF Keys
<1>2. \A k \in Keys : status[k] = IF k = 1 THEN "active" ELSE "unused"
  BY DEF Init
<1>3. Past(1) /\ InOrder
  BY <1>1, <1>2 DEF Past, InOrder, Keys
<1>4. OneSigner
  BY <1>1, <1>2 DEF OneSigner
<1>5. QED
  BY <1>3, <1>4 DEF KeysInv

\* The invariant holds before any host enrolls.
LEMMA InvInit == Init => IInv
<1> SUFFICES ASSUME Init PROVE IInv
  OBVIOUS
<1>1. KeysInv
  BY KeysInit
<1>2. TokensInv /\ LateInv
  BY DEF Init, TokensInv, LateInv
<1>3. ASSUME NEW a \in Agents PROVE AgentInv(a)
  BY DEF Init, AgentInv, RowInv, DiskKeys, DiskInv, ReplyKeys, ReplyInv, ProcInv, AnswerKeys,
         AnswerInv, Resting, NoAnswer
<1>4. QED
  BY TypeInit, <1>1, <1>2, <1>3 DEF IInv

\* The operator and the processes of a host leave every other host alone.
LEMMA OperatorFrame ==
    ASSUME TypeOK, NEW a \in Agents, Operator(a), NEW b \in Agents, a # b
    PROVE  /\ UNCHANGED <<status, late>>
           /\ row'[b] = row[b] /\ file'[b] = file[b] /\ disk'[b] = disk[b]
           /\ run'[b] = run[b] /\ reply'[b] = reply[b]
<1>1. ASSUME NEW t \in Tokens, RunEnrollCommand(a, t)
      PROVE  /\ UNCHANGED <<status, late>>
             /\ row'[b] = row[b] /\ file'[b] = file[b] /\ disk'[b] = disk[b]
             /\ run'[b] = run[b] /\ reply'[b] = reply[b]
  <2>1. row'[b] = row[b] /\ reply'[b] = reply[b]
    BY <1>1 DEF RunEnrollCommand, EnrollAgent, TypeOK
  <2>2. UNCHANGED <<status, late, disk, run>> /\ file'[b] = file[b]
    BY <1>1 DEF RunEnrollCommand, TypeOK
  <2>3. QED
    BY <2>1, <2>2
<1>2. CASE FinishEnrollment(a) \/ LoseEnrollmentReply(a) \/ RemoveState(a)
  BY <1>2 DEF FinishEnrollment, LoseEnrollmentReply, RemoveState, TypeOK
<1>3. QED
  BY <1>1, <1>2 DEF Operator

LEMMA CycleFrame ==
    ASSUME TypeOK, NEW a \in Agents, NEW p \in Procs, Cycle(a, p), NEW b \in Agents, a # b
    PROVE  /\ UNCHANGED <<status, reply>>
           /\ row'[b] = row[b] /\ file'[b] = file[b] /\ disk'[b] = disk[b] /\ run'[b] = run[b]
           /\ \A k \in Keys : <<b, k>> \in late' => <<b, k>> \in late
<1>1. /\ UNCHANGED <<status, reply>>
      /\ row'[b] = row[b] /\ file'[b] = file[b] /\ disk'[b] = disk[b] /\ run'[b] = run[b]
  <2>1. CASE Call(a, p)
    BY <2>1 DEF Call, AfterHeartbeat, TypeOK, Row
  <2>2. CASE ~ Call(a, p)
    BY <2>2 DEF Cycle, BeginCycle, Refused, Learn, PinKey, SaveState, RejectAnswer, EndCycle, Fail,
                TypeOK
  <2>3. QED
    BY <2>1, <2>2
<1>2. \A k \in Keys : <<b, k>> \in late' => <<b, k>> \in late
  BY DEF Cycle, BeginCycle, Call, Refused, Learn, PinKey, SaveState, RejectAnswer, EndCycle, Fail
<1>3. QED
  BY <1>1, <1>2

\* Every host keeps its part of the invariant whatever anybody does.
LEMMA AgentStep ==
    ASSUME SingleProcess, IInv, Next, NEW b \in Agents
    PROVE  AgentInv(b)'
<1> USE DEF IInv
<1>1. CASE Administrator
  <2>1. ASSUME NEW k \in Keys, Stage(k) \/ Activate(k) \/ Abort(k) PROVE AgentInv(b)'
    BY <2>1, StageStep, ActivateStep, AbortStep
  <2>2. ASSUME NEW a \in Agents, Revoke(a) \/ PrepareReenrollment(a) PROVE AgentInv(b)'
    BY <2>2, RevokeStep
  <2>3. ASSUME NEW t \in Tokens, BeginToken(t) \/ CommitToken(t) \/ RevokeToken(t) \/ ExpireToken(t)
        PROVE  AgentInv(b)'
    <3>1. UNCHANGED <<status, row, late, hostVars>>
      BY <2>3 DEF BeginToken, CommitToken, RevokeToken, ExpireToken
    <3>2. QED
      BY <3>1, HostFrame DEF hostVars
  <2>4. QED
    BY <1>1, <2>1, <2>2, <2>3 DEF Administrator
<1>2. ASSUME NEW a \in Agents, Operator(a) PROVE AgentInv(b)'
  <2>1. CASE a = b
    BY <1>2, <2>1, EnrollStep, ReplyStep DEF Operator
  <2>2. CASE a # b
    BY <1>2, <2>2, OperatorFrame, HostFrame
  <2>3. QED
    BY <2>1, <2>2
<1>3. ASSUME NEW a \in Agents, NEW p \in Procs, Cycle(a, p) PROVE AgentInv(b)'
  <2>1. CASE a = b
    BY <1>3, <2>1, QuietStep, FailStep, CallStep, LearnStep, PinKeyStep, SaveStateStep,
       EndCycleStep DEF Cycle
  <2>2. CASE a # b
    BY <1>3, <2>2, CycleFrame, HostFrame
  <2>3. QED
    BY <2>1, <2>2
<1>4. ASSUME NEW a \in Agents, NEW k \in KeyOrNone, LateHeartbeat(a, k) PROVE AgentInv(b)'
  <2>1. CASE a = b
    BY <1>4, <2>1, LateHeartbeatStep
  <2>2. CASE a # b
    BY <1>4, <2>2, HostFrame DEF LateHeartbeat, AfterHeartbeat, hostVars, TypeOK, Row
  <2>3. QED
    BY <2>1, <2>2
<1>5. QED
  BY <1>1, <1>2, <1>3, <1>4 DEF Next

\* Every step keeps the invariant.
LEMMA InvStep ==
    ASSUME SingleProcess, IInv, [Next]_vars
    PROVE  IInv'
<1>1. CASE UNCHANGED vars
  <2>1. TypeOK' /\ KeysInv' /\ TokensInv' /\ LateInv'
    BY <1>1 DEF vars, IInv, TypeOK, KeysInv, OneSigner, InOrder, TokensInv, LateInv, Past
  <2>2. ASSUME NEW a \in Agents PROVE AgentInv(a)'
    BY <1>1, HostFrame DEF vars, IInv
  <2>3. QED
    BY <2>1, <2>2 DEF IInv
<1>2. CASE Next
  <2>1. TypeOK'
    BY <1>2, TypeStep DEF IInv
  <2>2. KeysInv' /\ TokensInv' /\ LateInv'
    BY <1>2, KeysStep, TokensStep, LateStep DEF IInv
  <2>3. \A a \in Agents : AgentInv(a)'
    BY <1>2, AgentStep
  <2>4. QED
    BY <2>1, <2>2, <2>3 DEF IInv
<1>3. QED
  BY <1>1, <1>2

\* The invariant holds in every reachable state.
LEMMA Invariant == ASSUME SingleProcess PROVE Spec => []IInv
<1>1. IInv /\ [Next]_vars => IInv'
  BY InvStep
<1>2. QED
  BY <1>1, InvInit, PTL DEF Spec

-----------------------------------------------------------------------------
(* The theorems *)

\* At any moment exactly one key signs for the tenant, and a staged key is newer
\* than all the others: stage, activate and abort never leave two signers.
THEOREM SignerIsUnique == Spec => []OneSigner
<1>1. Init => TypeOK /\ KeysInv
  BY TypeInit, KeysInit
<1>2. TypeOK /\ KeysInv /\ [Next]_vars => (TypeOK /\ KeysInv)'
  <2>1. KeysInv /\ UNCHANGED vars => KeysInv'
    BY DEF vars, KeysInv, OneSigner, InOrder, Past
  <2>2. QED
    BY <2>1, TypeStep, KeysStep
<1>3. KeysInv => OneSigner
  BY DEF KeysInv
<1>4. QED
  BY <1>1, <1>2, <1>3, PTL DEF Spec

\* An enrolled agent always has the key that the platform signs with, pinned or
\* pending, whatever crashes, losses, aborts and re-enrollments happened.
THEOREM NoAgentIsStranded == ASSUME SingleProcess PROVE Spec => []AgentCanVerify
<1>1. IInv => AgentCanVerify
  BY DEF IInv, AgentInv, DiskInv, AgentCanVerify, Enrolled
<1>2. QED
  BY <1>1, Invariant, PTL

\* An acknowledgement that the platform counts is one the agent can honour.
THEOREM AcknowledgementIsHonest == ASSUME SingleProcess PROVE Spec => []AcknowledgedIsHeld
<1>1. IInv => AcknowledgedIsHeld
  <2> SUFFICES ASSUME IInv, NEW a \in Agents, Enrolled(a), row[a].acked, row[a].pend # NoKey
               PROVE  disk[a].pend = row[a].pend
    BY DEF AcknowledgedIsHeld
  <2>1. row[a].pend \in Keys /\ Committed(a, row[a].pend)
    BY DEF IInv, TypeOK, Row, KeyOrNone, AgentInv, RowInv, Enrolled, Committed
  <2>2. QED
    BY <2>1 DEF IInv, AgentInv, DiskInv, Enrolled
<1>2. QED
  BY <1>1, Invariant, PTL

\* A genuine answer is refused only by an agent that met the next rotation before
\* it applied the previous activation.
THEOREM OnlyMissedActivations ==
    ASSUME SingleProcess PROVE Spec => []OnlyMissedActivationDisconnects
<1>1. IInv => OnlyMissedActivationDisconnects
  <2> SUFFICES ASSUME IInv, NEW a \in Agents, Enrolled(a), ~ AnswerIsTrusted(a)
               PROVE  /\ disk[a].kid # row[a].key
                      /\ disk[a].pend = row[a].key
                      /\ row[a].pend \in Keys /\ status[row[a].pend] = "staged"
    BY DEF OnlyMissedActivationDisconnects
  <2>1. /\ row[a].live /\ disk[a] # NoTrust
        /\ RowInv(a) /\ DiskKeys(a) /\ DiskInv(a) /\ KeysInv
    BY DEF Enrolled, IInv, AgentInv
  <2>2. row[a].key \in {file[a], disk[a].pend} /\ row[a].key \in {disk[a].kid, disk[a].pend}
    BY <2>1 DEF DiskInv
  <2>3. ~ Applies(disk[a], SignedAnswer(a))
    <3>1. SignedAnswer(a).key = row[a].key
      BY DEF SignedAnswer
    <3>2. QED
      BY <2>2, <3>1 DEF AnswerIsTrusted, Trusts, Verifies
  <2>4. /\ row[a].pend # NoKey /\ row[a].pend \in Keys /\ status[row[a].pend] = "staged"
        /\ SignedAnswer(a) = [kind |-> "staged", key |-> row[a].key, next |-> row[a].pend]
    <3>1. row[a].pend # NoKey
      BY <2>2, <2>3 DEF SignedAnswer, Applies
    <3>2. QED
      BY <2>1, <3>1 DEF SignedAnswer, RowInv, IInv, TypeOK, Row, KeyOrNone
  <2>5. row[a].pend > disk[a].kid
    BY <2>1, <2>4 DEF DiskKeys, KeysInv, OneSigner, Past
  <2>6. row[a].key # disk[a].kid
    BY <2>3, <2>4, <2>5 DEF Applies
  <2>7. QED
    BY <2>2, <2>4, <2>6
<1>2. QED
  BY <1>1, Invariant, PTL

\* The key an activation writes to the file of an enrolled agent.
LEMMA PinKeyAdvances ==
    ASSUME IInv, NEW b \in Agents, NEW p \in Procs, PinKey(b, p), Enrolled(b), file'[b] # file[b]
    PROVE  file'[b] = disk[b].pend /\ file'[b] = row[b].key /\ file'[b] > file[b]
<1>1. /\ AgentInv(b) /\ row[b].live /\ disk[b] # NoTrust
      /\ run[b][p].ans.kind = "activated" /\ run[b][p].mem = disk[b]
  <2>1. AgentInv(b) /\ row[b].live /\ disk[b] # NoTrust
    BY DEF IInv, Enrolled
  <2>2. run[b][p].ans.kind = "activated"
    BY DEF PinKey
  <2>3. run[b][p].mem = disk[b]
    BY <2>1, <2>2 DEF AgentInv, ProcInv, Resting, NoAnswer
  <2>4. QED
    BY <2>1, <2>2, <2>3
<1>2. /\ file'[b] \in {disk[b].kid, disk[b].pend}
      /\ file'[b] = row[b].key
  <2>1. file'[b] = run[b][p].ans.key
    BY DEF PinKey, IInv, TypeOK
  <2>2. Applies(run[b][p].mem, run[b][p].ans)
    BY DEF PinKey, Trusts
  <2>3. run[b][p].ans.key \in {disk[b].kid, disk[b].pend}
    BY <1>1, <2>2 DEF Applies
  <2>4. run[b][p].ans.key = row[b].key
    BY <1>1 DEF AgentInv, AnswerInv
  <2>5. QED
    BY <2>1, <2>3, <2>4
<1>3. file[b] = disk[b].kid /\ file'[b] = disk[b].pend
  BY <1>1, <1>2 DEF AgentInv, DiskInv
<1>4. file'[b] # NoKey
  BY <1>1, <1>2 DEF AgentInv, RowInv, Keys, NoKey
<1>5. QED
  BY <1>1, <1>2, <1>3, <1>4 DEF AgentInv, DiskKeys

\* The pinned key of an enrolled agent only ever advances to its pending key.
THEOREM PinAdvances == ASSUME SingleProcess PROVE Spec => PinOnlyAdvances
<1> DEFINE Advance == \A a \in Agents : Enrolled(a) /\ file'[a] # file[a]
                          => file'[a] = disk[a].pend /\ file'[a] > file[a]
<1>1. ASSUME IInv, [Next]_vars PROVE Advance
  <2> SUFFICES ASSUME NEW b \in Agents, Enrolled(b), file'[b] # file[b]
               PROVE  file'[b] = disk[b].pend /\ file'[b] > file[b]
    OBVIOUS
  <2>1. ASSUME NEW a \in Agents, NEW t \in Tokens, RunEnrollCommand(a, t) PROVE FALSE
    <3>1. a # b
      BY <2>1 DEF RunEnrollCommand, Enrolled
    <3>2. file' = [file EXCEPT ![a] = token[t].key]
      BY <2>1 DEF RunEnrollCommand
    <3>3. file'[b] = file[b]
      BY <1>1, <3>1, <3>2 DEF IInv, TypeOK
    <3>4. QED
      BY <3>3
  <2>2. PICK p \in Procs : PinKey(b, p)
    <3> SUFFICES ASSUME \A p \in Procs : ~ PinKey(b, p) PROVE FALSE
      OBVIOUS
    <3>1. CASE UNCHANGED vars
      BY <3>1 DEF vars
    <3>2. CASE Administrator
      BY <3>2 DEF Administrator, Stage, Activate, Abort, Revoke, PrepareReenrollment, BeginToken,
                  CommitToken, RevokeToken, ExpireToken, hostVars
    <3>3. ASSUME NEW a \in Agents, Operator(a) PROVE FALSE
      <4>1. CASE \E t \in Tokens : RunEnrollCommand(a, t)
        BY <2>1, <4>1
      <4>2. CASE FinishEnrollment(a)
        BY <4>2 DEF FinishEnrollment
      <4>3. CASE LoseEnrollmentReply(a)
        BY <4>3 DEF LoseEnrollmentReply
      <4>4. CASE RemoveState(a)
        BY <4>4 DEF RemoveState
      <4>5. QED
        BY <3>3, <4>1, <4>2, <4>3, <4>4 DEF Operator
    <3>4. ASSUME NEW a \in Agents, NEW p \in Procs, Cycle(a, p) PROVE FALSE
      <4>1. CASE PinKey(a, p)
        <5>1. a # b
          BY <4>1
        <5>2. file' = [file EXCEPT ![a] = run[a][p].ans.key]
          BY <4>1 DEF PinKey
        <5>3. file'[b] = file[b]
          BY <1>1, <5>1, <5>2 DEF IInv, TypeOK
        <5>4. QED
          BY <5>3
      <4>2. CASE BeginCycle(a, p)
        BY <4>2 DEF BeginCycle
      <4>3. CASE Call(a, p)
        BY <4>3 DEF Call
      <4>4. CASE Refused(a, p)
        BY <4>4 DEF Refused
      <4>5. CASE Learn(a, p)
        BY <4>5 DEF Learn
      <4>6. CASE SaveState(a, p)
        BY <4>6 DEF SaveState
      <4>7. CASE RejectAnswer(a, p)
        BY <4>7 DEF RejectAnswer
      <4>8. CASE EndCycle(a, p)
        BY <4>8 DEF EndCycle
      <4>9. CASE Fail(a, p)
        BY <4>9 DEF Fail
      <4>10. QED
        BY <3>4, <4>1, <4>2, <4>3, <4>4, <4>5, <4>6, <4>7, <4>8, <4>9 DEF Cycle
    <3>5. ASSUME NEW a \in Agents, NEW k \in KeyOrNone, LateHeartbeat(a, k) PROVE FALSE
      BY <3>5 DEF LateHeartbeat, hostVars
    <3>6. QED
      BY <1>1, <3>1, <3>2, <3>3, <3>4, <3>5 DEF Next
  <2>3. QED
    BY <1>1, <2>2, PinKeyAdvances
<1>2. QED
  BY <1>1, Invariant, PTL DEF Spec, PinOnlyAdvances

-----------------------------------------------------------------------------
(* The rotation implements KeyHandover *)

\* The abstract agents change where a view changes, and nowhere else.
LEMMA ViewRow ==
    ASSUME NEW a \in Agents, NEW v, View(a)' = v, \A b \in Agents \ {a} : View(b)' = View(b)
    PROVE  [b \in Agents |-> View(b)]' = [[b \in Agents |-> View(b)] EXCEPT ![a] = v]
OBVIOUS

\* What the view of a host says of its keys.
ViewInv(a) ==
    /\ Enrolled(a) => /\ View(a) = [signer |-> row[a].key, pin |-> file[a], pend |-> disk[a].pend]
                      /\ View(a) \in Handover!Views /\ Handover!Accepts(View(a))
                      /\ View(a) # Handover!Away
                      /\ Past(row[a].key) /\ Used(disk[a].pend)
    /\ ~ Enrolled(a) => View(a) = Handover!Away

LEMMA ViewsInv == IInv => \A a \in Agents : ViewInv(a)
<1> SUFFICES ASSUME IInv, NEW a \in Agents PROVE ViewInv(a)
  OBVIOUS
<1>1. CASE Enrolled(a)
  <2>1. row[a].live /\ disk[a] # NoTrust /\ RowInv(a) /\ DiskKeys(a) /\ DiskInv(a)
    BY <1>1 DEF Enrolled, IInv, AgentInv
  <2>2. /\ row[a].key \in Keys /\ Past(row[a].key) /\ disk[a].kid \in Keys /\ Used(disk[a].pend)
        /\ row[a].key \in {file[a], disk[a].pend}
        /\ file[a] \in {disk[a].kid, row[a].key}
    BY <2>1 DEF RowInv, DiskKeys, DiskInv
  <2>3. View(a) = [signer |-> row[a].key, pin |-> file[a], pend |-> disk[a].pend]
    BY <1>1 DEF View
  <2>4. disk[a].pend \in Keys \union {NoKey}
    BY DEF IInv, TypeOK, Trust, KeyOrNone
  <2>5. View(a) \in Handover!Views
    BY <2>2, <2>3, <2>4 DEF Handover!Views, Handover!NoKey, NoKey
  <2>6. Handover!Accepts(View(a))
    BY <2>2, <2>3 DEF Handover!Accepts
  <2>7. View(a) # Handover!Away
    BY <2>2, <2>3 DEF Handover!Away, Handover!NoKey, Keys
  <2>8. QED
    BY <1>1, <2>2, <2>3, <2>5, <2>6, <2>7 DEF ViewInv
<1>2. CASE ~ Enrolled(a)
  BY <1>2 DEF ViewInv, View, Handover!Away, Handover!NoKey, NoKey
<1>3. QED
  BY <1>1, <1>2

LEMMA ViewsInvNext == IInv' => (\A a \in Agents : ViewInv(a))'
BY ViewsInv, PTL

LEMMA HandoverInitially == Init => Handover!Init
<1> SUFFICES ASSUME Init PROVE Handover!Init
  OBVIOUS
<1>1. \A a \in Agents : View(a) = Handover!Away
  BY DEF Init, View, Enrolled, Handover!Away, Handover!NoKey, NoKey
<1>2. [a \in Agents |-> View(a)] = [a \in Agents |-> Handover!Away]
  BY <1>1
<1>3. QED
  BY <1>2 DEF Init, Handover!Init

\* A step that concerns one host: its agent joins, leaves, remembers or pins a key.
LEMMA HostRefines ==
    ASSUME IInv, IInv', UNCHANGED status, NEW a \in Agents,
           \A b \in Agents \ {a} : View(b)' = View(b),
           Enrolled(a) /\ Enrolled(a)' =>
               /\ row'[a].key = row[a].key
               /\ \/ file'[a] = file[a]
                  \/ /\ disk'[a] = disk[a] /\ file'[a] = disk[a].pend
                     /\ file'[a] = row[a].key /\ file'[a] > file[a]
    PROVE  Handover!Next \/ UNCHANGED Handover!handover
<1> DEFINE agents == [b \in Agents |-> View(b)]
<1>1. /\ agents[a] = View(a) /\ agents'[a] = View(a)'
      /\ agents' = [agents EXCEPT ![a] = View(a)']
  BY ViewRow
<1>2. /\ Enrolled(a) => /\ View(a) = [signer |-> row[a].key, pin |-> file[a], pend |-> disk[a].pend]
                        /\ View(a) # Handover!Away
      /\ ~ Enrolled(a) => View(a) = Handover!Away
  BY ViewsInv DEF ViewInv
<1>3. /\ Enrolled(a)' => /\ View(a)' = [signer |-> row'[a].key, pin |-> file'[a], pend |-> disk'[a].pend]
                         /\ View(a)' \in Handover!Views /\ Handover!Accepts(View(a)')
                         /\ status[row'[a].key] \in {"active", "retired"}
                         /\ disk'[a].pend # NoKey => status[disk'[a].pend] # "unused"
      /\ ~ Enrolled(a)' => View(a)' = Handover!Away
  BY ViewsInvNext DEF ViewInv, Past, Used, Handover!Views, Handover!Accepts, Handover!NoKey,
     Handover!Away
<1>4. CASE ~ Enrolled(a) /\ ~ Enrolled(a)'
  BY <1>1, <1>2, <1>3, <1>4 DEF Handover!handover
<1>5. CASE ~ Enrolled(a) /\ Enrolled(a)'
  <2>1. Handover!Join(a)
    BY <1>1, <1>2, <1>3, <1>5 DEF Handover!Join, Handover!Joined
  <2>2. QED
    BY <2>1 DEF Handover!Next
<1>6. CASE Enrolled(a) /\ ~ Enrolled(a)'
  <2>1. Handover!Leave(a)
    BY <1>1, <1>2, <1>3, <1>6 DEF Handover!Leave, Handover!Joined
  <2>2. QED
    BY <2>1 DEF Handover!Next
<1>7. CASE Enrolled(a) /\ Enrolled(a)' /\ file'[a] = file[a]
  <2>1. View(a)' = [View(a) EXCEPT !.pend = View(a)'.pend] /\ View(a)'.pend = disk'[a].pend
    BY <1>2, <1>3, <1>7
  <2>2. Handover!Remember(a)
    BY <1>1, <1>2, <1>3, <1>7, <2>1 DEF Handover!Remember, Handover!Joined, Handover!NoKey, NoKey
  <2>3. QED
    BY <2>2 DEF Handover!Next
<1>8. CASE Enrolled(a) /\ Enrolled(a)' /\ file'[a] # file[a]
  <2>1. /\ View(a)' = [View(a) EXCEPT !.pin = View(a).pend]
        /\ View(a).pend = View(a).signer /\ View(a).pend > View(a).pin
    BY <1>2, <1>3, <1>8
  <2>2. Handover!Pin(a)
    BY <1>1, <1>2, <1>8, <2>1 DEF Handover!Pin, Handover!Joined
  <2>3. QED
    BY <2>2 DEF Handover!Next
<1>9. QED
  BY <1>4, <1>5, <1>6, <1>7, <1>8

\* An agent that is neither revoked nor enrolled by the step keeps its signer, and its
\* pinned key changes only to the pending one.
LEMMA CycleRefines ==
    ASSUME IInv, IInv', NEW a \in Agents, NEW p \in Procs, Cycle(a, p)
    PROVE  Handover!Next \/ UNCHANGED Handover!handover
<1>1. \A b \in Agents \ {a} : View(b)' = View(b)
  BY CycleFrame DEF View, Enrolled, IInv
<1>2. UNCHANGED status
  BY DEF Cycle, BeginCycle, Call, Refused, Learn, PinKey, SaveState, RejectAnswer, EndCycle, Fail
<1>3. row'[a].key = row[a].key
  <2>1. CASE Call(a, p)
    BY <2>1 DEF Call, AfterHeartbeat, IInv, TypeOK, Row
  <2>2. CASE ~ Call(a, p)
    BY <2>2 DEF Cycle, BeginCycle, Refused, Learn, PinKey, SaveState, RejectAnswer, EndCycle, Fail
  <2>3. QED
    BY <2>1, <2>2
<1>4. CASE PinKey(a, p)
  <2>1. disk' = disk
    BY <1>4 DEF PinKey
  <2>2. QED
    BY <1>1, <1>2, <1>3, <1>4, <2>1, PinKeyAdvances, HostRefines
<1>5. CASE ~ PinKey(a, p)
  <2>1. file' = file
    BY <1>5 DEF Cycle, BeginCycle, Call, Refused, Learn, SaveState, RejectAnswer, EndCycle, Fail
  <2>2. QED
    BY <1>1, <1>2, <1>3, <2>1, HostRefines
<1>6. QED
  BY <1>4, <1>5

LEMMA OperatorRefines ==
    ASSUME IInv, IInv', NEW a \in Agents, Operator(a)
    PROVE  Handover!Next \/ UNCHANGED Handover!handover
<1>1. UNCHANGED status /\ \A b \in Agents \ {a} : View(b)' = View(b)
  <2>1. UNCHANGED status
    BY DEF Operator, RunEnrollCommand, FinishEnrollment, LoseEnrollmentReply, RemoveState
  <2>2. QED
    BY <2>1, OperatorFrame DEF View, Enrolled, IInv
<1>2. ASSUME NEW t \in Tokens, RunEnrollCommand(a, t) PROVE ~ Enrolled(a)
  BY <1>2 DEF RunEnrollCommand, Enrolled
<1>3. CASE FinishEnrollment(a) \/ LoseEnrollmentReply(a) \/ RemoveState(a)
  <2>1. UNCHANGED <<row, file>>
    BY <1>3 DEF FinishEnrollment, LoseEnrollmentReply, RemoveState
  <2>2. QED
    BY <1>1, <2>1, HostRefines
<1>4. CASE ~ Enrolled(a)
  BY <1>1, <1>4, HostRefines
<1>5. QED
  BY <1>2, <1>3, <1>4 DEF Operator

\* The signer changes for all enrolled agents, each of which holds what it acknowledged.
LEMMA ActivateRefines ==
    ASSUME IInv, NEW k \in Keys, Activate(k)
    PROVE  Handover!Next
<1>1. status[k] = "staged"
  BY DEF Activate
<1>2. \A a \in Agents : Enrolled(a) => disk[a].pend = k
  <2> SUFFICES ASSUME NEW a \in Agents, Enrolled(a) PROVE disk[a].pend = k
    OBVIOUS
  <2>1. row[a].live /\ disk[a] # NoTrust /\ Committed(a, k)
    BY <1>1 DEF Enrolled, Activate, Acknowledged, Committed
  <2>2. QED
    BY <2>1 DEF IInv, AgentInv, DiskInv
<1>3. PICK current \in Keys : /\ status[current] = "active"
                              /\ status' = [status EXCEPT ![current] = "retired", ![k] = "active"]
  BY DEF Activate
<1>4. ASSUME NEW a \in Agents
      PROVE  View(a)' = IF View(a) # Handover!Away THEN [View(a) EXCEPT !.signer = k] ELSE View(a)
  <2>0. row[a] \in Row
    BY DEF IInv, TypeOK
  <2>1. /\ Enrolled(a)' = Enrolled(a) /\ UNCHANGED <<file, disk>>
        /\ Enrolled(a) => row'[a].key = k
    BY <2>0 DEF Activate, Enrolled, hostVars, Row
  <2>2. /\ Enrolled(a) => /\ View(a) = [signer |-> row[a].key, pin |-> file[a], pend |-> disk[a].pend]
                          /\ View(a) # Handover!Away
        /\ ~ Enrolled(a) => View(a) = Handover!Away
    BY ViewsInv DEF ViewInv
  <2>3. CASE Enrolled(a)
    <3>1. View(a)' = [signer |-> k, pin |-> file[a], pend |-> disk[a].pend]
      BY <2>1, <2>3 DEF View
    <3>2. QED
      BY <2>2, <2>3, <3>1
  <2>4. CASE ~ Enrolled(a)
    BY <2>1, <2>2, <2>4 DEF View, Handover!Away, Handover!NoKey, NoKey
  <2>5. QED
    BY <2>3, <2>4
<1>5. ASSUME NEW a \in Agents, View(a) # Handover!Away PROVE View(a).pend = k
  <2>1. Enrolled(a) /\ View(a).pend = disk[a].pend
    BY <1>5, ViewsInv DEF ViewInv
  <2>2. QED
    BY <1>2, <2>1
<1>6. [a \in Agents |-> View(a)]' =
        [a \in Agents |-> IF View(a) # Handover!Away THEN [View(a) EXCEPT !.signer = k] ELSE View(a)]
  BY <1>4
<1>7. Handover!Activate(k)
  BY <1>1, <1>3, <1>5, <1>6 DEF Handover!Activate, Handover!Joined
<1>8. QED
  BY <1>7 DEF Handover!Next

LEMMA KeysRefine ==
    ASSUME IInv, NEW k \in Keys, Stage(k) \/ Abort(k)
    PROVE  Handover!Next
<1>1. ASSUME NEW a \in Agents PROVE View(a)' = View(a)
  <2>1. UNCHANGED <<file, disk>>
    BY DEF Stage, Abort, hostVars
  <2>2. row[a] \in Row
    BY DEF IInv, TypeOK
  <2>3. row'[a].live = row[a].live /\ row'[a].key = row[a].key
    <3>1. CASE Stage(k)
      BY <2>2, <3>1 DEF Stage, Row
    <3>2. CASE Abort(k)
      BY <2>2, <3>2 DEF Abort, Row
    <3>3. QED
      BY <3>1, <3>2
  <2>4. QED
    BY <2>1, <2>3 DEF View, Enrolled
<1>2. [a \in Agents |-> View(a)]' = [a \in Agents |-> View(a)]
  BY <1>1
<1>3. Handover!Stage(k) \/ Handover!Abort(k)
  <2>1. CASE Stage(k)
    BY <1>2, <2>1 DEF Stage, Newest, NoneStaged, Handover!Stage
  <2>2. CASE Abort(k)
    BY <1>2, <2>2 DEF Abort, Handover!Abort
  <2>3. QED
    BY <2>1, <2>2
<1>4. QED
  BY <1>3 DEF Handover!Next

LEMMA RevokeRefines ==
    ASSUME IInv, IInv', NEW a \in Agents, Revoke(a) \/ PrepareReenrollment(a)
    PROVE  Handover!Next \/ UNCHANGED Handover!handover
<1>1. /\ UNCHANGED <<status, file, disk>> /\ ~ Enrolled(a)'
      /\ \A b \in Agents \ {a} : row'[b] = row[b]
  <2>1. row \in [Agents -> Row] /\ row[a] \in Row
    BY DEF IInv, TypeOK
  <2>2. CASE Revoke(a)
    <3>1. row' = [row EXCEPT ![a] = [row[a] EXCEPT !.live = FALSE]]
      BY <2>1, <2>2 DEF Revoke
    <3>2. QED
      BY <2>1, <2>2, <3>1 DEF Revoke, Enrolled, hostVars, Row
  <2>3. CASE PrepareReenrollment(a)
    BY <2>1, <2>3 DEF PrepareReenrollment, Enrolled, hostVars, Row
  <2>4. QED
    BY <2>2, <2>3
<1>2. \A b \in Agents \ {a} : View(b)' = View(b)
  BY <1>1 DEF View, Enrolled
<1>3. QED
  BY <1>1, <1>2, HostRefines

LEMMA HandoverRefines ==
    ASSUME IInv, IInv', [Next]_vars
    PROVE  Handover!Next \/ UNCHANGED Handover!handover
<1>1. CASE Administrator
  <2>1. ASSUME NEW k \in Keys, Stage(k) \/ Activate(k) \/ Abort(k) PROVE Handover!Next
    BY <2>1, KeysRefine, ActivateRefines
  <2>2. ASSUME NEW a \in Agents, Revoke(a) \/ PrepareReenrollment(a)
        PROVE  Handover!Next \/ UNCHANGED Handover!handover
    BY <2>2, RevokeRefines
  <2>3. ASSUME NEW t \in Tokens, BeginToken(t) \/ CommitToken(t) \/ RevokeToken(t) \/ ExpireToken(t)
        PROVE  UNCHANGED Handover!handover
    <3>1. UNCHANGED <<status, row, file, disk>>
      BY <2>3 DEF BeginToken, CommitToken, RevokeToken, ExpireToken, hostVars
    <3>2. QED
      BY <3>1 DEF Handover!handover, View, Enrolled
  <2>4. QED
    BY <1>1, <2>1, <2>2, <2>3 DEF Administrator
<1>2. CASE \E a \in Agents : Operator(a)
  BY <1>2, OperatorRefines
<1>3. CASE \E a \in Agents, p \in Procs : Cycle(a, p)
  BY <1>3, CycleRefines
<1>4. ASSUME NEW a \in Agents, NEW k \in KeyOrNone, LateHeartbeat(a, k)
      PROVE  UNCHANGED Handover!handover
  <2>1. /\ UNCHANGED <<status, file, disk>>
        /\ \A b \in Agents : row'[b].live = row[b].live /\ row'[b].key = row[b].key
    BY <1>4 DEF LateHeartbeat, AfterHeartbeat, hostVars, IInv, TypeOK, Row
  <2>2. \A b \in Agents : View(b)' = View(b)
    BY <2>1 DEF View, Enrolled
  <2>3. QED
    BY <2>1, <2>2 DEF Handover!handover
<1>5. CASE UNCHANGED vars
  BY <1>5 DEF vars, Handover!handover, View, Enrolled
<1>6. QED
  BY <1>1, <1>2, <1>3, <1>4, <1>5 DEF Next

\* Refinement: with one agent process per host the rotation, its crashes, lost answers
\* and enrollments hand the agents over as KeyHandover says.
THEOREM ImplementsHandover == ASSUME SingleProcess PROVE Spec => HandoverSpec
<1>1. Init => Handover!Init
  BY HandoverInitially
<1>2. IInv /\ IInv' /\ [Next]_vars => [Handover!Next]_(Handover!handover)
  BY HandoverRefines
<1>3. QED
  BY <1>1, <1>2, Invariant, PTL DEF Spec, HandoverSpec, Handover!Spec
=============================================================================
