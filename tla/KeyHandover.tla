---------------------------- MODULE KeyHandover ----------------------------
(***************************************************************************)
(* What the rotation of the platform's command signing key promises the    *)
(* enrolled agents: the signer changes for all of them at once, and only   *)
(* when every one of them already holds the new key; an agent pins nothing *)
(* but the key it is signed for with, newer than the one it had pinned;    *)
(* and it gives up a key it has not pinned only if it is not signed for    *)
(* with that key.                                                          *)
(***************************************************************************)
EXTENDS Naturals

CONSTANTS
    Agents,     \* managed hosts
    Keys        \* the keys a tenant may ever create, numbered in that order

NoKey == 0
Away  == [signer |-> NoKey, pin |-> NoKey, pend |-> NoKey]

VARIABLES
    ring,       \* the status of each key
    agent       \* each enrolled agent: the key that signs for it, and the two it accepts

handover == <<ring, agent>>

Init ==
    /\ ring = [k \in Keys |-> IF k = 1 THEN "active" ELSE "unused"]
    /\ agent = [a \in Agents |-> Away]

-----------------------------------------------------------------------------
Joined(a) == agent[a] # Away

Views == [signer : Keys, pin : Keys, pend : Keys \union {NoKey}]

Accepts(view) == view.signer \in {view.pin, view.pend}

Stage(k) ==
    /\ ring[k] = "unused"
    /\ \A j \in Keys : ring[j] # "staged"
    /\ ring' = [ring EXCEPT ![k] = "staged"]
    /\ UNCHANGED agent

Abort(k) ==
    /\ ring[k] = "staged"
    /\ ring' = [ring EXCEPT ![k] = "revoked"]
    /\ UNCHANGED agent

Activate(k) ==
    /\ ring[k] = "staged"
    /\ \A a \in Agents : Joined(a) => agent[a].pend = k
    /\ \E current \in Keys :
        /\ ring[current] = "active"
        /\ ring' = [ring EXCEPT ![current] = "retired", ![k] = "active"]
    /\ agent' = [a \in Agents |-> IF Joined(a) THEN [agent[a] EXCEPT !.signer = k] ELSE agent[a]]

\* An agent starts with a key it accepts, of a rotation that is over.
Join(a) ==
    /\ ~ Joined(a)
    /\ agent'[a] \in Views
    /\ Accepts(agent'[a])
    /\ ring[agent'[a].signer] \in {"active", "retired"}
    /\ agent' = [agent EXCEPT ![a] = agent'[a]]
    /\ UNCHANGED ring

Leave(a) ==
    /\ Joined(a)
    /\ agent' = [agent EXCEPT ![a] = Away]
    /\ UNCHANGED ring

\* It remembers a key that was proposed to it, or none.
Remember(a) ==
    /\ Joined(a)
    /\ LET k == agent'[a].pend IN
        /\ k # NoKey => ring[k] # "unused"
        /\ agent' = [agent EXCEPT ![a] = [agent[a] EXCEPT !.pend = k]]
    /\ Accepts(agent'[a])
    /\ UNCHANGED ring

Pin(a) ==
    /\ Joined(a)
    /\ agent[a].pend = agent[a].signer /\ agent[a].pend > agent[a].pin
    /\ agent' = [agent EXCEPT ![a] = [agent[a] EXCEPT !.pin = agent[a].pend]]
    /\ UNCHANGED ring

\* A message on its way, or a crash, changes nothing.
Stall == UNCHANGED handover

-----------------------------------------------------------------------------
Next ==
    \/ Stall
    \/ \E k \in Keys : Stage(k) \/ Abort(k) \/ Activate(k)
    \/ \E a \in Agents : Join(a) \/ Leave(a) \/ Remember(a) \/ Pin(a)

Spec == Init /\ [][Next]_handover
=============================================================================
