-------------------------- MODULE SessionLifecycle ---------------------------
(***************************************************************************)
(* What the session registry promises of a client_uid, without sockets,    *)
(* tasks or sweepers.  A session is gone, active or suspended.  Only a     *)
(* session nobody holds can be started or resumed, each time with a        *)
(* generation larger than all before it, for whatever uid; a suspension    *)
(* keeps the generation; a session may end at any time.  An active session *)
(* is never handed from one connection to another directly.                *)
(***************************************************************************)
EXTENDS Naturals

CONSTANT Uid

VARIABLES
    phase,   \* "gone", "active" or "suspended", per uid
    holder,  \* generation that holds the uid, 0 when gone
    issued   \* the last generation handed out

absVars == <<phase, holder, issued>>

Init ==
    /\ phase = [u \in Uid |-> "gone"]
    /\ holder = [u \in Uid |-> 0]
    /\ issued = 0

\* A registration, fresh or a soft reconnect
Take(u) ==
    /\ phase[u] # "active"
    /\ issued' = issued + 1
    /\ phase' = [phase EXCEPT ![u] = "active"]
    /\ holder' = [holder EXCEPT ![u] = issued + 1]

\* The connection of the current holder is lost.
Suspend(u) ==
    /\ phase[u] = "active"
    /\ phase' = [phase EXCEPT ![u] = "suspended"]
    /\ UNCHANGED <<holder, issued>>

\* Sessions end: goodbye, expired grace, idle shutdown.
Finish(S) ==
    /\ phase' = [u \in Uid |-> IF u \in S THEN "gone" ELSE phase[u]]
    /\ holder' = [u \in Uid |-> IF u \in S THEN 0 ELSE holder[u]]
    /\ UNCHANGED issued

Next ==
    \/ \E u \in Uid : Take(u) \/ Suspend(u)
    \/ \E S \in SUBSET Uid : Finish(S)

Spec == Init /\ [][Next]_absVars
=============================================================================
