--------------------------- MODULE SessionRegistry ---------------------------
(***************************************************************************)
(* The session registry of the manager (session_manager/registry.rs), the  *)
(* WebSocket connection tasks that drive it (session_manager/transport.rs) *)
(* and the idle sweeper (session_manager/lifecycle.rs).                    *)
(*                                                                         *)
(* A client opens a WebSocket, registers a session under its client_uid    *)
(* and may lose the socket at any time.  The record then stays             *)
(* "Disconnected" for a grace period in which a new socket may take it     *)
(* over (soft reconnect).  Each registration draws a new generation; the   *)
(* task of an old socket and a shutdown in progress compare generations    *)
(* before they touch a record.                                             *)
(*                                                                         *)
(* Time is kept as ages that stop growing at the threshold the code        *)
(* compares them with: disconnectedFor = Grace stands for                  *)
(* now - disconnected_at >= grace, idleFor = IdleTimeout for               *)
(* now - last_call_at >= idle_timeout.                                     *)
(*                                                                         *)
(* A tool list, as normalised by the masking gate, is told apart by its    *)
(* public and its internal tools.  The tools cache (module ToolsCache has  *)
(* it in detail) is one entry per Config, which several sessions may       *)
(* share.  Three things are kept for the properties, the code has none of  *)
(* them: toolsFrom in a record, from in an entry of the cache, which name  *)
(* the connection that published the list, and the variable shutDown.      *)
(***************************************************************************)
EXTENDS Naturals

CONSTANTS
    Uid,            \* client_uid values; a session id is its client_uid
    Config,         \* (kind, config_id) pairs, the keys of the tools cache
    Conn,           \* WebSocket connections; each is opened at most once
    PublicTools,    \* what a client may publish for the agents
    InternalTools,  \* what it may publish for the masking service
    Call,           \* proxied tools/call requests of agents, reused
    Grace,          \* reconnection_grace, in ticks
    IdleTimeout,    \* idle_timeout, in ticks; 0 turns the idle sweeper off
    CacheEnabled,   \* a tools cache is attached and enabled
    None            \* Option::None

VARIABLES
    reg,             \* SessionRegistry.inner: client_uid -> SessionRecord
    nextGeneration,  \* SessionRegistry.next_generation
    toolsSignal,     \* the permit stored in the tools_changed Notify
    cache,           \* ToolsCacheStore.inner: Config -> entry
    task,            \* where the task of each connection is
    identity,        \* ConnectionContext of each connection task
    request,         \* what a session.register or tools_changed brought
    handle,          \* ConnectionHandle.state of each connection
    drained,         \* generations whose SessionDispatcher is Drained
    call,            \* the agents' tools/call requests
    sweeper,         \* the idle sweeper and the shutdown it is running
    shutDown         \* history: connections whose Active session a shutdown removed

registryVars == <<reg, nextGeneration, toolsSignal>>
taskVars == <<task, identity, request>>
vars == <<registryVars, cache, taskVars, handle, drained, call, sweeper, shutDown>>

-----------------------------------------------------------------------------
(* Types *)

Generation == Nat \ {0}

Tools == [public : PublicTools, internal : InternalTools]

SessionRecord ==
    [state : {"Active", "Disconnected"},
     generation : Generation,
     connection : Conn \cup {None},
     config : Config,
     tools : Tools,
     toolsFrom : Conn,
     disconnectedFor : 0..Grace,
     idleFor : 0..IdleTimeout]

\* "publishing": the registry lock is released, the tools cache is not yet
\* updated.  "leaving": the reader loop is over.  "torn": the outbound side is
\* closed, the registry has not been told yet.
TaskState ==
    {"unopened", "open", "resolving", "publishing", "leaving", "torn", "closed"}

ConnectionIdentity == [uid : Uid, generation : Generation]

Request == [uid : Uid, config : Config, tools : Tools]

CacheEntry == [tools : PublicTools, from : Conn \cup {None}]

CallRecord ==
    [at : {"idle", "routed", "queued", "running"},
     uid : Uid \cup {None},
     generation : Nat,
     connection : Conn \cup {None}]

SweeperRecord ==
    [at : {"sleeping", "sweeping", "calling", "removing"},
     candidates : SUBSET Uid,
     uid : Uid \cup {None},
     generation : Nat,
     connection : Conn \cup {None}]

\* None is no value of any of these types.
ASSUME ConstantsAssumption ==
    /\ Grace \in Nat
    /\ IdleTimeout \in Nat
    /\ CacheEnabled \in BOOLEAN
    /\ None \notin Conn
    /\ None \notin Uid
    /\ None \notin CacheEntry
    /\ None \notin SessionRecord
    /\ None \notin ConnectionIdentity
    /\ None \notin Request

TypeOK ==
    /\ reg \in [Uid -> SessionRecord \cup {None}]
    /\ nextGeneration \in Nat
    /\ toolsSignal \in BOOLEAN
    /\ cache \in [Config -> CacheEntry \cup {None}]
    /\ task \in [Conn -> TaskState]
    /\ identity \in [Conn -> ConnectionIdentity \cup {None}]
    /\ request \in [Conn -> Request \cup {None}]
    /\ handle \in [Conn -> {"Active", "Disconnected"}]
    /\ drained \in SUBSET Generation
    /\ call \in [Call -> CallRecord]
    /\ sweeper \in SweeperRecord
    /\ shutDown \in SUBSET Conn

-----------------------------------------------------------------------------
(* Initial state: an empty registry, nobody connected.  The cache holds what   *)
(* an earlier process has persisted.                                          *)

Restored == IF CacheEnabled THEN [tools : PublicTools, from : {None}] ELSE {}

NoCall == [at |-> "idle", uid |-> None, generation |-> 0, connection |-> None]

SleepingSweeper ==
    [at |-> "sleeping", candidates |-> {}, uid |-> None,
     generation |-> 0, connection |-> None]

Init ==
    /\ reg = [u \in Uid |-> None]
    /\ nextGeneration = 0
    /\ toolsSignal = FALSE
    /\ cache \in [Config -> Restored \cup {None}]
    /\ task = [c \in Conn |-> "unopened"]
    /\ identity = [c \in Conn |-> None]
    /\ request = [c \in Conn |-> None]
    /\ handle = [c \in Conn |-> "Active"]
    /\ drained = {}
    /\ call = [k \in Call |-> NoCall]
    /\ sweeper = SleepingSweeper
    /\ shutDown = {}

-----------------------------------------------------------------------------
(* What the registry tells about a uid *)

Present(u) == reg[u] # None
IsActive(u) == Present(u) /\ reg[u].state = "Active"
IsDisconnected(u) == Present(u) /\ reg[u].state = "Disconnected"

\* inflight() of the dispatcher created with generation g
Busy(g) == \E k \in Call : call[k].at = "running" /\ call[k].generation = g

-----------------------------------------------------------------------------
(* Operations of SessionRegistry.  Each is one critical section of the lock  *)
(* followed by its notifications.                                            *)

mark_tools_changed == toolsSignal' = TRUE

NewRecord(c, g, f, t, idle) ==
    [state |-> "Active", generation |-> g, connection |-> c, config |-> f,
     tools |-> t, toolsFrom |-> c, disconnectedFor |-> 0, idleFor |-> idle]

\* Variants for the mutation tests, here and below: a uid taken from under a live
\* session, and a soft reconnect that keeps the old tools.
register_without_collision(u, f, t, c) ==
    /\ nextGeneration' = nextGeneration + 1
    /\ reg' = [reg EXCEPT ![u] = NewRecord(c, nextGeneration + 1, f, t, 0)]
    /\ mark_tools_changed

register_keeping_tools(u, f, t, c) ==
    LET fresh == NewRecord(c, nextGeneration + 1, f, t, 0) IN
    /\ ~IsActive(u)
    /\ nextGeneration' = nextGeneration + 1
    /\ reg' = [reg EXCEPT ![u] =
                 IF Present(u) THEN [fresh EXCEPT !.tools = reg[u].tools,
                                                  !.toolsFrom = reg[u].toolsFrom]
                 ELSE fresh]
    /\ mark_tools_changed

\* A fresh record counts its idle time from now; a soft reconnect keeps the
\* last_call_at of the record it takes over.
register_with_generation(u, f, t, c) ==
    LET g == nextGeneration + 1 IN
    /\ ~IsActive(u)
    /\ nextGeneration' = g
    /\ reg' = [reg EXCEPT ![u] =
                 NewRecord(c, g, f, t, IF Present(u) THEN reg[u].idleFor ELSE 0)]
    /\ mark_tools_changed

\* Variant: remove without the generation check.
remove_any_generation(u, g) ==
    /\ reg' = [reg EXCEPT ![u] = None]
    /\ mark_tools_changed
    /\ UNCHANGED nextGeneration

remove_if_generation(u, g) ==
    /\ IF Present(u) /\ reg[u].generation = g
       THEN /\ reg' = [reg EXCEPT ![u] = None]
            /\ mark_tools_changed
       ELSE UNCHANGED <<reg, toolsSignal>>
    /\ UNCHANGED nextGeneration

Suspended(r) ==
    [r EXCEPT !.state = "Disconnected", !.disconnectedFor = 0, !.connection = None]

\* The connection is taken from the record and drained, then the dispatcher.
mark_disconnected_if_generation(u, g) ==
    /\ IF IsActive(u) /\ reg[u].generation = g
       THEN /\ reg' = [reg EXCEPT ![u] = Suspended(@)]
            /\ handle' = [handle EXCEPT ![reg[u].connection] = "Disconnected"]
            /\ drained' = drained \cup {g}
            /\ mark_tools_changed
       ELSE UNCHANGED <<reg, handle, drained, toolsSignal>>
    /\ UNCHANGED nextGeneration

WithTools(r, t, c) == [r EXCEPT !.tools = t, !.toolsFrom = c]

\* The caller names the session by its uid alone; a list equal to the one in
\* the record changes nothing.
update_tools(u, t, c) ==
    /\ IF Present(u) /\ reg[u].tools # t
       THEN /\ reg' = [reg EXCEPT ![u] = WithTools(@, t, c)]
            /\ mark_tools_changed
       ELSE UNCHANGED <<reg, toolsSignal>>
    /\ UNCHANGED nextGeneration

-----------------------------------------------------------------------------
(* The connection task: ws_handler, run_connection, handle_socket *)

OpenSocket(c) ==
    /\ task[c] = "unopened"
    /\ task' = [task EXCEPT ![c] = "open"]
    /\ UNCHANGED <<registryVars, cache, identity, request, handle, drained,
                   call, sweeper, shutDown>>

\* session.register arrives on a connection without a session.  The handler
\* normalises the tools and awaits the RAS lookup before it commits.
ReceiveRegister(c, u, f, t) ==
    /\ task[c] = "open"
    /\ identity[c] = None
    /\ task' = [task EXCEPT ![c] = "resolving"]
    /\ request' = [request EXCEPT ![c] = [uid |-> u, config |-> f, tools |-> t]]
    /\ UNCHANGED <<registryVars, cache, identity, handle, drained, call, sweeper,
                   shutDown>>

\* Variant: the generation is not the one of the critical section.
RegisterWithStaleGeneration(c) ==
    /\ task[c] = "resolving"
    /\ register_with_generation(request[c].uid, request[c].config,
                                request[c].tools, c)
    /\ identity' = [identity EXCEPT ![c] = [uid |-> request[c].uid,
                                            generation |-> nextGeneration]]
    /\ task' = [task EXCEPT ![c] = "publishing"]
    /\ UNCHANGED <<cache, request, handle, drained, call, sweeper, shutDown>>

\* The registration is accepted and the connection takes its identity.
RegisterSession(c) ==
    /\ task[c] = "resolving"
    /\ register_with_generation(request[c].uid, request[c].config,
                                request[c].tools, c)
    /\ identity' = [identity EXCEPT ![c] = [uid |-> request[c].uid,
                                            generation |-> nextGeneration']]
    /\ task' = [task EXCEPT ![c] = "publishing"]
    /\ UNCHANGED <<cache, request, handle, drained, call, sweeper, shutDown>>

\* The uid is held by an Active record: -32010 session_uid_collision.
RejectCollision(c) ==
    /\ task[c] = "resolving"
    /\ IsActive(request[c].uid)
    /\ task' = [task EXCEPT ![c] = "open"]
    /\ request' = [request EXCEPT ![c] = None]
    /\ UNCHANGED <<registryVars, cache, identity, handle, drained, call, sweeper,
                   shutDown>>

\* upsert_tools_cache, after the registry lock is released: internal tools are
\* filtered out, the hook of the cache announces a list that is new to it.
UpsertToolsCache(c) ==
    LET f == request[c].config
        public == request[c].tools.public
    IN
    /\ task[c] = "publishing"
    /\ IF CacheEnabled
       THEN cache' = [cache EXCEPT ![f] = [tools |-> public, from |-> c]]
       ELSE UNCHANGED cache
    /\ IF CacheEnabled /\ (cache[f] = None \/ cache[f].tools # public)
       THEN mark_tools_changed
       ELSE UNCHANGED toolsSignal
    /\ task' = [task EXCEPT ![c] = "open"]
    /\ request' = [request EXCEPT ![c] = None]
    /\ UNCHANGED <<reg, nextGeneration, identity, handle, drained, call, sweeper,
                   shutDown>>

\* Variant: the cache does not follow.
ReceiveToolsChangedUncached(c, t) ==
    /\ task[c] = "open"
    /\ identity[c] # None
    /\ update_tools(identity[c].uid, t, c)
    /\ UNCHANGED <<cache, taskVars, handle, drained, call, sweeper, shutDown>>

\* session.tools_changed: the cache follows only when the list is new, under the
\* config the record has by now.
ReceiveToolsChanged(c, t) ==
    LET u == identity[c].uid IN
    /\ task[c] = "open"
    /\ identity[c] # None
    /\ update_tools(u, t, c)
    /\ IF Present(u) /\ reg[u].tools # t
       THEN /\ task' = [task EXCEPT ![c] = "publishing"]
            /\ request' = [request EXCEPT ![c] =
                             [uid |-> u, config |-> reg[u].config, tools |-> t]]
       ELSE UNCHANGED <<task, request>>
    /\ UNCHANGED <<cache, identity, handle, drained, call, sweeper, shutDown>>

\* session.bye, before or after a registration
ReceiveBye(c) ==
    /\ task[c] = "open"
    /\ IF identity[c] # None
       THEN remove_if_generation(identity[c].uid, identity[c].generation)
       ELSE UNCHANGED registryVars
    /\ identity' = [identity EXCEPT ![c] = None]
    /\ task' = [task EXCEPT ![c] = "leaving"]
    /\ UNCHANGED <<cache, request, handle, drained, call, sweeper, shutDown>>

\* The peer closes, the socket fails or the ping times out.
LoseSocket(c) ==
    /\ task[c] = "open"
    /\ task' = [task EXCEPT ![c] = "leaving"]
    /\ UNCHANGED <<registryVars, cache, identity, request, handle, drained,
                   call, sweeper, shutDown>>

\* End of run_connection: drain_pending, then the writer is awaited.
DropOutbound(c) ==
    /\ task[c] = "leaving"
    /\ handle' = [handle EXCEPT ![c] = "Disconnected"]
    /\ task' = [task EXCEPT ![c] = "torn"]
    /\ UNCHANGED <<registryVars, cache, identity, request, drained, call, sweeper,
                   shutDown>>

\* End of handle_socket.
FinishSocket(c) ==
    /\ task[c] = "torn"
    /\ IF identity[c] # None
       THEN mark_disconnected_if_generation(identity[c].uid,
                                            identity[c].generation)
       ELSE UNCHANGED <<registryVars, handle, drained>>
    /\ task' = [task EXCEPT ![c] = "closed"]
    /\ UNCHANGED <<cache, identity, request, call, sweeper, shutDown>>

-----------------------------------------------------------------------------
(* Grace sweeper and the passing of time *)

Expired == {u \in Uid : IsDisconnected(u) /\ reg[u].disconnectedFor = Grace}

sweep_expired_disconnects ==
    /\ Expired # {}
    /\ reg' = [u \in Uid |-> IF u \in Expired THEN None ELSE reg[u]]
    /\ mark_tools_changed
    /\ UNCHANGED <<nextGeneration, cache, taskVars, handle, drained, call, sweeper,
                   shutDown>>

\* An age stops at the threshold it is compared with.
Older(n, bound) == IF n < bound THEN n + 1 ELSE n

\* Variant: the grace period never runs.
AgedWithoutGrace(r) == [r EXCEPT !.idleFor = Older(@, IdleTimeout)]

Aged(r) ==
    [r EXCEPT !.disconnectedFor =
                 IF r.state = "Disconnected" THEN Older(@, Grace) ELSE @,
              !.idleFor = Older(@, IdleTimeout)]

Tick ==
    /\ reg' = [u \in Uid |-> IF Present(u) THEN Aged(reg[u]) ELSE None]
    /\ UNCHANGED <<nextGeneration, toolsSignal, cache, taskVars, handle, drained,
                   call, sweeper, shutDown>>

\* reset_all, reset_by_config_id and evict_expired: entries go whether or not a
\* session of their config is live.
ForgetCached(F) ==
    /\ F # {}
    /\ \A f \in F : cache[f] # None
    /\ cache' = [f \in Config |-> IF f \in F THEN None ELSE cache[f]]
    /\ mark_tools_changed
    /\ UNCHANGED <<reg, nextGeneration, taskVars, handle, drained, call, sweeper,
                   shutDown>>

-----------------------------------------------------------------------------
(* A proxied tools/call, as far as the session's lifecycle is concerned; the *)
(* dispatcher in detail is module SessionDispatcher.                         *)

\* The agent's call is resolved to an Active session whose record is cloned.
RouteCall(k, u) ==
    /\ call[k].at = "idle"
    /\ IsActive(u)
    /\ call' = [call EXCEPT ![k] =
                  [at |-> "routed", uid |-> u, generation |-> reg[u].generation,
                   connection |-> reg[u].connection]]
    /\ UNCHANGED <<registryVars, cache, taskVars, handle, drained, sweeper,
                   shutDown>>

Called(r) == [r EXCEPT !.idleFor = 0]

\* bump_last_call of whatever record the uid has by now, then enqueue.
BumpLastCall(k) ==
    LET u == call[k].uid IN
    /\ call[k].at = "routed"
    /\ reg' = IF Present(u) THEN [reg EXCEPT ![u] = Called(@)] ELSE reg
    /\ call' = [call EXCEPT ![k].at = "queued"]
    /\ UNCHANGED <<nextGeneration, toolsSignal, cache, taskVars, handle, drained,
                   sweeper, shutDown>>

\* The dispatcher admits one call at a time, if it is open and so is the handle.
AdmitCall(k) ==
    /\ call[k].at = "queued"
    /\ ~Busy(call[k].generation)
    /\ call[k].generation \notin drained
    /\ handle[call[k].connection] = "Active"
    /\ call' = [call EXCEPT ![k].at = "running"]
    /\ UNCHANGED <<registryVars, cache, taskVars, handle, drained, sweeper,
                   shutDown>>

\* An answer, an error, session_gone, a cancellation or the deadline.
EndCall(k) ==
    /\ call[k].at \in {"queued", "running"}
    /\ call' = [call EXCEPT ![k] = NoCall]
    /\ UNCHANGED <<registryVars, cache, taskVars, handle, drained, sweeper,
                   shutDown>>

-----------------------------------------------------------------------------
(* The idle sweeper: sweep_once and shutdown_session *)

\* Variant: the test on inflight is the wrong way round.
IdleSessionsInverted ==
    {u \in Uid : /\ IsActive(u)
                 /\ Busy(reg[u].generation)
                 /\ reg[u].idleFor = IdleTimeout}

IdleSessions ==
    {u \in Uid : /\ IsActive(u)
                 /\ ~Busy(reg[u].generation)
                 /\ reg[u].idleFor = IdleTimeout}

\* The candidates are collected from one snapshot of the registry.
SnapshotIdle ==
    /\ IdleTimeout # 0
    /\ sweeper.at = "sleeping"
    /\ IdleSessions # {}
    /\ sweeper' = [sweeper EXCEPT !.at = "sweeping", !.candidates = IdleSessions]
    /\ UNCHANGED <<registryVars, cache, taskVars, handle, drained, call, shutDown>>

\* Back to the candidates that are left, or to sleep.
Resume(rest) ==
    [SleepingSweeper EXCEPT !.at = IF rest = {} THEN "sleeping" ELSE "sweeping",
                            !.candidates = rest]

\* shutdown_session reads the record anew; an Active one is sent
\* session.shutdown, a Disconnected one is drained at once.
BeginShutdown(u) ==
    /\ sweeper.at = "sweeping"
    /\ u \in sweeper.candidates
    /\ \/ /\ ~Present(u)
          /\ sweeper' = Resume(sweeper.candidates \ {u})
          /\ UNCHANGED drained
       \/ /\ Present(u)
          /\ sweeper' =
               [at |-> IF IsActive(u) THEN "calling" ELSE "removing",
                candidates |-> sweeper.candidates \ {u},
                uid |-> u,
                generation |-> reg[u].generation,
                connection |-> reg[u].connection]
          /\ drained' = IF IsActive(u) THEN drained
                        ELSE drained \cup {reg[u].generation}
    /\ UNCHANGED <<registryVars, cache, taskVars, handle, call, shutDown>>

\* Variant: the record is read again, its dispatcher is the one drained.
EndShutdownCallRereading ==
    LET u == sweeper.uid IN
    /\ sweeper.at = "calling"
    /\ handle' = [handle EXCEPT ![sweeper.connection] = "Disconnected"]
    /\ drained' = drained \cup
                    {IF Present(u) THEN reg[u].generation ELSE sweeper.generation}
    /\ sweeper' = [sweeper EXCEPT !.at = "removing"]
    /\ UNCHANGED <<registryVars, cache, taskVars, call, shutDown>>

\* The client confirms, the call fails or its grace_ms runs out: the handle
\* and the dispatcher of the snapshot are drained in every case.
EndShutdownCall ==
    /\ sweeper.at = "calling"
    /\ handle' = [handle EXCEPT ![sweeper.connection] = "Disconnected"]
    /\ drained' = drained \cup {sweeper.generation}
    /\ sweeper' = [sweeper EXCEPT !.at = "removing"]
    /\ UNCHANGED <<registryVars, cache, taskVars, call, shutDown>>

RemoveShutDown ==
    /\ sweeper.at = "removing"
    /\ remove_if_generation(sweeper.uid, sweeper.generation)
    /\ shutDown' = IF IsActive(sweeper.uid)
                         /\ reg[sweeper.uid].generation = sweeper.generation
                    THEN shutDown \cup {reg[sweeper.uid].connection} ELSE shutDown
    /\ sweeper' = Resume(sweeper.candidates)
    /\ UNCHANGED <<cache, taskVars, handle, drained, call>>

-----------------------------------------------------------------------------
(* The specification *)

\* What a connection task does by itself once a frame has been received or the
\* socket is gone.
TaskStep(c) ==
    \/ RegisterSession(c)
    \/ RejectCollision(c)
    \/ UpsertToolsCache(c)
    \/ DropOutbound(c)
    \/ FinishSocket(c)

\* What the client does.
ClientStep(c) ==
    \/ OpenSocket(c)
    \/ \E u \in Uid, f \in Config, t \in Tools : ReceiveRegister(c, u, f, t)
    \/ \E t \in Tools : ReceiveToolsChanged(c, t)
    \/ ReceiveBye(c)
    \/ LoseSocket(c)

CallStep(k) ==
    \/ \E u \in Uid : RouteCall(k, u)
    \/ BumpLastCall(k)
    \/ AdmitCall(k)
    \/ EndCall(k)

ShutdownStep ==
    \/ \E u \in Uid : BeginShutdown(u)
    \/ EndShutdownCall
    \/ RemoveShutDown

Next ==
    \/ \E c \in Conn : TaskStep(c) \/ ClientStep(c)
    \/ \E k \in Call : CallStep(k)
    \/ SnapshotIdle
    \/ ShutdownStep
    \/ sweep_expired_disconnects
    \/ \E F \in SUBSET Config : ForgetCached(F)
    \/ Tick

Spec == Init /\ [][Next]_vars

\* The runtime keeps polling connection tasks that can go on, both sweepers
\* wake up on their timers and time passes.  Nothing is assumed of clients and
\* agents.
Fairness ==
    /\ \A c \in Conn : WF_vars(TaskStep(c))
    /\ WF_vars(SnapshotIdle)
    /\ WF_vars(ShutdownStep)
    /\ WF_vars(sweep_expired_disconnects)
    /\ WF_vars(Tick)

FairSpec == Spec /\ Fairness

-----------------------------------------------------------------------------
(* Properties *)

\* The connection task that registered the current incarnation of u
Owns(c, u) ==
    /\ identity[c] # None
    /\ identity[c].uid = u
    /\ identity[c].generation = reg[u].generation

\* A shutdown_session that drained the current incarnation of u
ShutdownOf(u) ==
    /\ sweeper.at = "removing"
    /\ sweeper.uid = u
    /\ sweeper.generation = reg[u].generation

\* An Active record is always held by a connection task that is still running
\* and carries its uid and generation, so that the end of that task releases
\* the uid: no interleaving of bye, reconnect, shutdown and late disconnect
\* leaves an Active record nobody will ever mark (register_with_generation,
\* handle_socket).
ActiveHasOwner ==
    \A u \in Uid : IsActive(u) =>
        /\ reg[u].connection \in Conn
        /\ Owns(reg[u].connection, u)
        /\ task[reg[u].connection] \in {"open", "publishing", "leaving", "torn"}

\* A record shown as Active has an open dispatcher and a live connection handle,
\* except while its own task is tearing the socket down or the shutdown that
\* drained it is about to remove it: draining an old incarnation never disables
\* the one that replaced it (shutdown_session, drain_pending, soft reconnect).
NoBrokenActive ==
    \A u \in Uid :
        /\ IsActive(u)
        /\ \/ handle[reg[u].connection] = "Disconnected"
           \/ reg[u].generation \in drained
        => task[reg[u].connection] = "torn" \/ ShutdownOf(u)

\* New calls of a session without a socket fail at once instead of waiting: the
\* dispatcher of every Disconnected record is drained and the record keeps no
\* connection (mark_disconnected_if_generation).
DisconnectedIsDrained ==
    \A u \in Uid : IsDisconnected(u) =>
        /\ reg[u].generation \in drained
        /\ reg[u].connection = None

\* The strengthening that makes ActiveHasOwner and NoBrokenActive inductive.
\* A connection takes an identity once: Identified(c) never becomes false.
Identified(c) == identity[c] # None \/ task[c] \in {"leaving", "torn", "closed"}

TaskInv ==
    \A c \in Conn :
        /\ task[c] \in {"unopened", "resolving"} => identity[c] = None
        /\ task[c] = "publishing" => identity[c] # None
        /\ task[c] \in {"resolving", "publishing"} => request[c] # None
        /\ handle[c] = "Disconnected" => Identified(c)

GenerationInv ==
    /\ \A u \in Uid : Present(u) => reg[u].generation <= nextGeneration
    /\ \A u, v \in Uid :
         /\ Present(u) /\ Present(v)
         /\ reg[u].generation = reg[v].generation
         => u = v
    /\ \A g \in drained : g <= nextGeneration

\* A shutdown in progress holds one incarnation: its generation is the one of
\* no other uid and its connection has served no other session.
ShutdownInv ==
    /\ sweeper.at \in {"calling", "removing"} =>
         /\ sweeper.uid \in Uid
         /\ sweeper.generation \in 1..nextGeneration
         /\ \A u \in Uid : /\ Present(u)
                           /\ reg[u].generation = sweeper.generation
                           => u = sweeper.uid
    /\ sweeper.at = "calling" =>
         /\ sweeper.connection \in Conn
         /\ Identified(sweeper.connection)
         /\ identity[sweeper.connection] \in
              {None, [uid |-> sweeper.uid, generation |-> sweeper.generation]}

\* No shutdown, late disconnect or reconnect confuses two incarnations of a
\* session (registry.rs, transport.rs and lifecycle.rs together): the inductive
\* invariant behind ActiveHasOwner, NoBrokenActive and DisconnectedIsDrained.
OwnershipInv ==
    /\ TypeOK
    /\ TaskInv
    /\ ActiveHasOwner
    /\ GenerationInv
    /\ ShutdownInv
    /\ DisconnectedIsDrained
    /\ NoBrokenActive

EndsByOwner(u) ==
    /\ IsActive(u)
    /\ ~(IsActive(u)' /\ reg'[u].generation = reg[u].generation)
    => ShutdownOf(u) \/ \E c \in Conn : Owns(c, u) /\ task'[c] # task[c]

\* An Active incarnation ends or is suspended only by the task that owns it or
\* by a shutdown that took its generation: the late disconnect or bye of an
\* older socket is a no-op (handle_socket, session.bye, BLOCKER-2 and WARN-4).
EndedOnlyByOwner == [][\A u \in Uid : EndsByOwner(u)]_vars

\* The tools of an Active session are those its own connection published: "one
\* WS connection = one session" (handle_request, update_tools).  The only other
\* publisher is a socket that outlived its session because a shutdown removed it:
\* session.tools_changed names the session by its uid alone.
ToolsFromOwner ==
    \A u \in Uid : IsActive(u) =>
        \/ reg[u].toolsFrom = reg[u].connection
        \/ reg[u].toolsFrom \in shutDown

\* Within one WebSocket session the tools cache does not lag behind the live
\* session (update_tools, registry.rs:433-435): an entry last written by the socket
\* whose list the record holds has the public tools of that list, unless the
\* connection is still between the registry and the cache.  Sessions that share a
\* config, resets, expiry, late publishers and reconnects under another config
\* come in between; only a write of another connection may differ.
CacheFollowsLive ==
    \A u \in Uid : Present(u) =>
        LET entry == cache[reg[u].config] IN
        /\ entry # None
        /\ entry.from = reg[u].toolsFrom
        /\ task[reg[u].toolsFrom] # "publishing"
        => entry.tools = reg[u].tools.public

\* The idle sweeper never asks a session to shut down that has a call inflight
\* and was called within the idle timeout (sweep_once; bump_last_call exists so
\* that busy sessions are not reaped, BLOCKER-1).
IdleSweepSparesBusy ==
    [][sweeper.at = "sweeping" /\ sweeper'.at = "calling"
         => \/ ~Busy(sweeper'.generation)
            \/ reg[sweeper'.uid].idleFor = IdleTimeout]_vars

\* A session without a socket does not stay in the registry for ever: it is
\* resumed or swept (run_grace_sweeper).
DisconnectedResolves ==
    \A u \in Uid : IsDisconnected(u) ~> ~IsDisconnected(u)

\* The agents make no more calls.
AgentsQuiet == <>[](\A k \in Call : call[k].at = "idle")

\* A session that is left alone does not stay Active for ever: once the agents
\* make no more calls the idle sweeper ends it (run_idle_sweeper).
IdleIsReaped ==
    AgentsQuiet => \A u \in Uid : IsActive(u) ~> ~IsActive(u)

\* The registry implements the lifecycle of module SessionLifecycle.
phaseOf ==
    [u \in Uid |-> IF IsActive(u) THEN "active"
                   ELSE IF Present(u) THEN "suspended" ELSE "gone"]

holderOf == [u \in Uid |-> IF Present(u) THEN reg[u].generation ELSE 0]

Lifecycle == INSTANCE SessionLifecycle WITH
    phase <- phaseOf, holder <- holderOf, issued <- nextGeneration

\* Every step of the registry is a step of the abstract session lifecycle: no
\* registration steals an Active uid, generations are never reused.
LifecycleSpec == Lifecycle!Spec
=============================================================================
