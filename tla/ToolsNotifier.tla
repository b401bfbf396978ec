---------------------------- MODULE ToolsNotifier ----------------------------
(***************************************************************************)
(* The tools/list_changed notifier (session_manager/notify.rs): a task     *)
(* that waits for the tools_changed signal of the registry, lets a         *)
(* debounce window pass and tells every registered agent that its tool     *)
(* list is out of date; and the agents, which register with each           *)
(* tools/list or tools/call request (ServerHandler in mcp/server.rs).      *)
(*                                                                         *)
(* An agent is registered by a Weak to an Arc that register_peer creates   *)
(* for the occasion and that dies when register_peer returns.  An agent    *)
(* has one request at a time, so at most one Weak of an agent can be       *)
(* upgraded at any moment and a Weak is named by its agent.                *)
(***************************************************************************)
EXTENDS Naturals

CONSTANTS
    Agent,      \* MCP peers
    MaxChanges  \* bound on the changes of the tool set

ASSUME MaxChangesAssumption == MaxChanges \in Nat

VARIABLES
    changes,    \* how often mark_tools_changed has been called
    permit,     \* the permit stored in the tools_changed Notify
    notifier,   \* where the notifier task is
    announced,  \* value of changes when the last broadcast began
    batch,      \* Weaks the broadcast in progress has yet to visit
    peers,      \* ToolsListChangedNotifier.peers
    alive,      \* agents whose Arc exists: register_peer has not returned
    request,    \* the request each agent is waiting for
    known,      \* value of changes at the last tools/list of each agent
    told        \* agents that got tools/list_changed since

registryVars == <<changes, permit>>
notifierVars == <<notifier, announced>>
agentVars == <<request, known, told>>
vars == <<registryVars, notifierVars, batch, peers, alive, agentVars>>

TypeOK ==
    /\ changes \in 0..MaxChanges
    /\ permit \in BOOLEAN
    /\ notifier \in {"waiting", "debouncing", "sending"}
    /\ announced \in 0..MaxChanges
    /\ batch \in SUBSET Agent
    /\ peers \in SUBSET Agent
    /\ alive \in SUBSET Agent
    /\ request \in [Agent -> {"none", "list_tools", "call_tool", "listing"}]
    /\ known \in [Agent -> 0..MaxChanges]
    /\ told \in SUBSET Agent

Init ==
    /\ changes = 0
    /\ permit = FALSE
    /\ notifier = "waiting"
    /\ announced = 0
    /\ batch = {}
    /\ peers = {}
    /\ alive = {}
    /\ request = [a \in Agent |-> "none"]
    /\ known = [a \in Agent |-> 0]
    /\ told = {}

-----------------------------------------------------------------------------
(* The registry's signal *)

\* Variant for the mutation tests: notify_waiters instead of notify_one.
NotifyWaiters ==
    /\ changes < MaxChanges
    /\ changes' = changes + 1
    /\ permit' = (permit \/ notifier = "waiting")
    /\ UNCHANGED <<notifierVars, batch, peers, alive, agentVars>>

\* notify_one: one permit at most is kept for a task that is not waiting.
MarkToolsChanged ==
    /\ changes < MaxChanges
    /\ changes' = changes + 1
    /\ permit' = TRUE
    /\ UNCHANGED <<notifierVars, batch, peers, alive, agentVars>>

-----------------------------------------------------------------------------
(* spawn_notifier and broadcast *)

Wake ==
    /\ notifier = "waiting"
    /\ permit
    /\ permit' = FALSE
    /\ notifier' = "debouncing"
    /\ UNCHANGED <<changes, announced, batch, peers, alive, agentVars>>

\* The window is over; the list of peers is copied under the lock.
BeginBroadcast ==
    /\ notifier = "debouncing"
    /\ notifier' = "sending"
    /\ batch' = peers
    /\ announced' = changes
    /\ UNCHANGED <<registryVars, peers, alive, agentVars>>

\* A Weak that can still be upgraded is notified.  (A notification fails only
\* when the agent is gone.)
NotifyPeer(a) ==
    /\ notifier = "sending"
    /\ a \in batch
    /\ batch' = batch \ {a}
    /\ told' = told \cup ({a} \cap alive)
    /\ UNCHANGED <<registryVars, notifierVars, peers, alive, request, known>>

\* The dead are dropped from the list.
EndBroadcast ==
    /\ notifier = "sending"
    /\ batch = {}
    /\ notifier' = "waiting"
    /\ peers' = peers \cap alive
    /\ UNCHANGED <<registryVars, announced, batch, alive, agentVars>>

-----------------------------------------------------------------------------
(* The agents' requests *)

\* register_peer up to the release of its lock.  A Weak the agent left in a
\* broadcast in progress belongs to an older Arc and stays dead.
RegisterPeer(a, method) ==
    /\ request[a] = "none"
    /\ request' = [request EXCEPT ![a] = method]
    /\ alive' = alive \cup {a}
    /\ peers' = (peers \cap alive) \cup {a}
    /\ batch' = batch \ {a}
    /\ UNCHANGED <<registryVars, notifierVars, known, told>>

\* register_peer returns and drops the only Arc; a tools/call goes on without
\* looking at the tool list.
ReturnFromRegister(a) ==
    /\ a \in alive
    /\ alive' = alive \ {a}
    /\ request' = [request EXCEPT ![a] =
                     IF @ = "list_tools" THEN "listing" ELSE "none"]
    /\ UNCHANGED <<registryVars, notifierVars, batch, peers, known, told>>

\* list_all_tools_inner: the agent gets the current tools.
ListTools(a) ==
    /\ request[a] = "listing"
    /\ request' = [request EXCEPT ![a] = "none"]
    /\ known' = [known EXCEPT ![a] = changes]
    /\ told' = told \ {a}
    /\ UNCHANGED <<registryVars, notifierVars, batch, peers, alive>>

-----------------------------------------------------------------------------
(* The specification *)

NotifierStep ==
    \/ Wake
    \/ BeginBroadcast
    \/ \E a \in Agent : NotifyPeer(a)
    \/ EndBroadcast

AgentStep(a) ==
    \/ \E method \in {"list_tools", "call_tool"} : RegisterPeer(a, method)
    \/ ReturnFromRegister(a)
    \/ ListTools(a)

Next ==
    \/ MarkToolsChanged
    \/ NotifierStep
    \/ \E a \in Agent : AgentStep(a)

Spec == Init /\ [][Next]_vars

\* The notifier task and the requests that have begun are polled to their end;
\* no agent has to ask anything.
Fairness ==
    /\ WF_vars(NotifierStep)
    /\ \A a \in Agent : WF_vars(ReturnFromRegister(a) \/ ListTools(a))

FairSpec == Spec /\ Fairness

-----------------------------------------------------------------------------
(* Properties *)

\* A change that no broadcast has covered is remembered, wherever the notifier
\* is when it happens: by the stored permit or by the debounce window that is
\* still open (spawn_notifier; notify_one keeps one permit, "which is enough").
NoLostWakeup ==
    announced < changes => permit \/ notifier = "debouncing"

\* A broadcast is begun after every change of the tools (spawn_notifier).
ChangeIsAnnounced ==
    \A n \in 1..MaxChanges : changes >= n ~> announced >= n

\* An agent that registered and listed the tools before a change is told of it
\* or has asked again: "notifications/tools/list_changed to all registered
\* peers" (notify.rs).
RegisteredPeerIsTold ==
    \A a \in Agent :
        known[a] > 0 /\ known[a] < changes ~> a \in told \/ known[a] = changes
=============================================================================
