------------------------ MODULE SessionRegistryProofs ------------------------
(***************************************************************************)
(* Proofs about SessionRegistry for any sets of uids, connections, tool    *)
(* lists and calls, any grace period and any idle timeout.                 *)
(*                                                                         *)
(* OwnershipInv is inductive: one lemma shows that the initial states      *)
(* satisfy it, one lemma per conjunct that a step keeps it.  PublishInv,   *)
(* about who publishes which tools, is inductive together with it.         *)
(***************************************************************************)
EXTENDS SessionRegistry, TLAPS

\* The initial state satisfies the inductive invariant.
LEMMA InitOwnership == Init => OwnershipInv
<1> SUFFICES ASSUME Init PROVE OwnershipInv
  OBVIOUS
<1> USE ConstantsAssumption
<1>1. TypeOK
  <2>1. toolsSignal \in BOOLEAN
    BY Zenon DEF Init
  <2>2. sweeper \in SweeperRecord
    BY DEF Init, SweeperRecord, SleepingSweeper
  <2>3. call \in [Call -> CallRecord]
    BY DEF Init, CallRecord, NoCall
  <2>4. cache \in [Config -> CacheEntry \cup {None}]
    BY DEF Init, Restored, CacheEntry
  <2>5. QED
    BY <2>1, <2>2, <2>3, <2>4 DEF Init, TypeOK, TaskState
<1>2. \A u \in Uid : ~Present(u)
  BY DEF Init, Present
<1>3. TaskInv
  BY DEF Init, TaskInv
<1>4. GenerationInv
  BY <1>2 DEF Init, GenerationInv
<1>5. ShutdownInv
  BY DEF Init, ShutdownInv, SleepingSweeper
<1>6. ActiveHasOwner /\ DisconnectedIsDrained /\ NoBrokenActive
  BY <1>2 DEF ActiveHasOwner, DisconnectedIsDrained, NoBrokenActive, IsActive,
              IsDisconnected
<1>7. QED
  BY <1>1, <1>3, <1>4, <1>5, <1>6 DEF OwnershipInv

\* The records the registry builds are of the right type.
LEMMA NewRecordType ==
    ASSUME NEW c \in Conn, NEW g \in Generation, NEW f \in Config,
           NEW t \in Tools, NEW idle \in 0..IdleTimeout
    PROVE  NewRecord(c, g, f, t, idle) \in SessionRecord
BY ConstantsAssumption DEF NewRecord, SessionRecord

\* Time, a new tool list and a call leave a record the same incarnation; a
\* suspension takes its connection away.
LEMMA SuspendedType ==
    ASSUME NEW r \in SessionRecord
    PROVE  /\ Suspended(r) \in SessionRecord
           /\ Suspended(r).state = "Disconnected"
           /\ Suspended(r).generation = r.generation
           /\ Suspended(r).connection = None
<1>1. 0 \in 0..Grace /\ None \in Conn \cup {None}
  BY ConstantsAssumption
<1>2. QED
  BY <1>1 DEF Suspended, SessionRecord

\* update_tools makes a record of a record.
LEMMA WithToolsType ==
    ASSUME NEW r \in SessionRecord, NEW t \in Tools, NEW c \in Conn
    PROVE  /\ WithTools(r, t, c) \in SessionRecord
           /\ WithTools(r, t, c).state = r.state
           /\ WithTools(r, t, c).generation = r.generation
           /\ WithTools(r, t, c).connection = r.connection
BY DEF WithTools, SessionRecord

\* bump_last_call makes a record of a record.
LEMMA CalledType ==
    ASSUME NEW r \in SessionRecord
    PROVE  /\ Called(r) \in SessionRecord
           /\ Called(r).state = r.state
           /\ Called(r).generation = r.generation
           /\ Called(r).connection = r.connection
BY ConstantsAssumption DEF Called, SessionRecord

\* The passing of time makes a record of a record.
LEMMA AgedType ==
    ASSUME NEW r \in SessionRecord
    PROVE  /\ Aged(r) \in SessionRecord
           /\ Aged(r).state = r.state
           /\ Aged(r).generation = r.generation
           /\ Aged(r).connection = r.connection
<1>1. Older(r.disconnectedFor, Grace) \in 0..Grace
  BY ConstantsAssumption DEF Older, SessionRecord
<1>2. Older(r.idleFor, IdleTimeout) \in 0..IdleTimeout
  BY ConstantsAssumption DEF Older, SessionRecord
<1>3. QED
  BY <1>1, <1>2 DEF Aged, SessionRecord

\* So is the sweeper that goes back to its candidates.
LEMMA ResumeType ==
    ASSUME NEW rest \in SUBSET Uid
    PROVE  /\ Resume(rest) \in SweeperRecord
           /\ Resume(rest).at \in {"sleeping", "sweeping"}
<1>1. SleepingSweeper \in SweeperRecord
  BY DEF SleepingSweeper, SweeperRecord
<1>2. QED
  BY <1>1 DEF Resume, SweeperRecord

\* Every step keeps the types.
LEMMA TypeStep ==
    ASSUME TypeOK, TaskInv, ActiveHasOwner, ShutdownInv, [Next]_vars
    PROVE  TypeOK'
<1> USE ConstantsAssumption DEF TypeOK, registryVars, taskVars, TaskState,
        mark_tools_changed
<1>1. ASSUME NEW c \in Conn, TaskStep(c) PROVE TypeOK'
  <2>1. CASE RegisterSession(c)
    <3> DEFINE u == request[c].uid
               f == request[c].config
               t == request[c].tools
               idle == IF Present(u) THEN reg[u].idleFor ELSE 0
    <3>1. u \in Uid /\ f \in Config /\ t \in Tools
      BY <2>1 DEF RegisterSession, TaskInv, Request
    <3>2. idle \in 0..IdleTimeout
      BY <3>1 DEF Present, SessionRecord
    <3>3. nextGeneration + 1 \in Generation
      BY DEF Generation
    <3>4. NewRecord(c, nextGeneration + 1, f, t, idle) \in SessionRecord
      BY <3>1, <3>2, <3>3, NewRecordType
    <3>5. /\ nextGeneration' = nextGeneration + 1
          /\ reg' = [reg EXCEPT ![u] = NewRecord(c, nextGeneration + 1, f, t, idle)]
          /\ identity' = [identity EXCEPT ![c] =
                            [uid |-> u, generation |-> nextGeneration + 1]]
      BY <2>1 DEF RegisterSession, register_with_generation
    <3>6. reg' \in [Uid -> SessionRecord \cup {None}]
      BY <3>4, <3>5
    <3>7. identity' \in [Conn -> ConnectionIdentity \cup {None}]
      BY <3>1, <3>3, <3>5 DEF ConnectionIdentity
    <3>8. QED
      BY <2>1, <3>5, <3>6, <3>7 DEF RegisterSession, register_with_generation
  <2>2. CASE RejectCollision(c)
    BY <2>2 DEF RejectCollision
  <2>3. CASE UpsertToolsCache(c)
    <3>1. request[c].config \in Config /\ request[c].tools \in Tools
      BY <2>3 DEF UpsertToolsCache, TaskInv, Request
    <3>2. [tools |-> request[c].tools.public, from |-> c] \in CacheEntry
      BY <3>1 DEF Tools, CacheEntry
    <3>3. cache' \in [Config -> CacheEntry \cup {None}]
      BY <2>3, <3>1, <3>2 DEF UpsertToolsCache
    <3>4. toolsSignal' \in BOOLEAN
      BY <2>3, Zenon DEF UpsertToolsCache
    <3>5. QED
      BY <2>3, <3>3, <3>4 DEF UpsertToolsCache
  <2>4. CASE DropOutbound(c)
    BY <2>4 DEF DropOutbound
  <2>5. CASE FinishSocket(c)
    <3> DEFINE u == identity[c].uid
               g == identity[c].generation
    <3>1. CASE identity[c] # None /\ IsActive(u) /\ reg[u].generation = g
      <4>1. u \in Uid /\ g \in Generation /\ reg[u] \in SessionRecord
        BY <3>1 DEF ConnectionIdentity, IsActive, Present
      <4>2. Suspended(reg[u]) \in SessionRecord
        BY <4>1, SuspendedType
      <4>3. QED
        BY <2>5, <3>1, <4>1, <4>2 DEF FinishSocket, mark_disconnected_if_generation
    <3>2. CASE ~(identity[c] # None /\ IsActive(u) /\ reg[u].generation = g)
      BY <2>5, <3>2 DEF FinishSocket, mark_disconnected_if_generation
    <3>3. QED
      BY <3>1, <3>2
  <2>6. QED
    BY <1>1, <2>1, <2>2, <2>3, <2>4, <2>5 DEF TaskStep
<1>2. ASSUME NEW c \in Conn, ClientStep(c) PROVE TypeOK'
  <2>1. CASE OpenSocket(c)
    BY <2>1 DEF OpenSocket
  <2>2. ASSUME NEW u \in Uid, NEW f \in Config, NEW t \in Tools,
               ReceiveRegister(c, u, f, t)
        PROVE  TypeOK'
    BY <2>2 DEF ReceiveRegister, Request
  <2>3. ASSUME NEW t \in Tools, ReceiveToolsChanged(c, t) PROVE TypeOK'
    <3> DEFINE u == identity[c].uid
    <3>1. u \in Uid
      BY <2>3 DEF ReceiveToolsChanged, ConnectionIdentity
    <3>2. CASE Present(u) /\ reg[u].tools # t
      <4>1. WithTools(reg[u], t, c) \in SessionRecord
        BY <3>1, <3>2, WithToolsType DEF Present
      <4>2. [uid |-> u, config |-> reg[u].config, tools |-> t] \in Request
        BY <3>1, <3>2 DEF Request, SessionRecord, Present
      <4>3. QED
        BY <2>3, <3>1, <3>2, <4>1, <4>2 DEF ReceiveToolsChanged, update_tools
    <3>3. CASE ~(Present(u) /\ reg[u].tools # t)
      BY <2>3, <3>3 DEF ReceiveToolsChanged, update_tools
    <3>4. QED
      BY <3>2, <3>3
  <2>4. CASE ReceiveBye(c)
    BY <2>4 DEF ReceiveBye, remove_if_generation
  <2>5. CASE LoseSocket(c)
    BY <2>5 DEF LoseSocket
  <2>6. QED
    BY <1>2, <2>1, <2>2, <2>3, <2>4, <2>5 DEF ClientStep
<1>3. ASSUME NEW k \in Call, CallStep(k) PROVE TypeOK'
  <2>1. ASSUME NEW u \in Uid, RouteCall(k, u) PROVE TypeOK'
    BY <2>1 DEF RouteCall, IsActive, Present, SessionRecord, CallRecord, Generation
  <2>2. CASE BumpLastCall(k)
    <3> DEFINE u == call[k].uid
    <3>1. CASE u \in Uid /\ Present(u)
      <4>1. Called(reg[u]) \in SessionRecord
        BY <3>1, CalledType DEF Present
      <4>2. reg' \in [Uid -> SessionRecord \cup {None}]
        BY <2>2, <3>1, <4>1 DEF BumpLastCall
      <4>3. QED
        BY <2>2, <4>2 DEF BumpLastCall, CallRecord
    <3>2. CASE ~(u \in Uid /\ Present(u))
      <4>1. reg' = reg
        BY <2>2, <3>2 DEF BumpLastCall
      <4>2. QED
        BY <2>2, <4>1, ZenonT(60) DEF BumpLastCall, CallRecord
    <3>3. QED
      BY <3>1, <3>2
  <2>3. CASE AdmitCall(k)
    BY <2>3 DEF AdmitCall, CallRecord
  <2>4. CASE EndCall(k)
    BY <2>4 DEF EndCall, CallRecord, NoCall
  <2>5. QED
    BY <1>3, <2>1, <2>2, <2>3, <2>4 DEF CallStep
<1>4. CASE SnapshotIdle
  BY <1>4 DEF SnapshotIdle, IdleSessions, SweeperRecord
<1>5. CASE ShutdownStep
  <2>1. ASSUME NEW u \in Uid, BeginShutdown(u) PROVE TypeOK'
    <3>1. CASE ~Present(u)
      <4>1. sweeper.candidates \ {u} \in SUBSET Uid
        BY DEF SweeperRecord
      <4>2. sweeper' \in SweeperRecord
        BY <2>1, <3>1, <4>1, ResumeType DEF BeginShutdown
      <4>3. QED
        BY <2>1, <3>1, <4>2 DEF BeginShutdown
    <3>2. CASE Present(u)
      <4>1. reg[u] \in SessionRecord
        BY <3>2 DEF Present
      <4>2. reg[u].generation \in Generation /\ reg[u].generation \in Nat
        BY <4>1 DEF SessionRecord, Generation
      <4>3. sweeper' \in SweeperRecord
        BY <2>1, <3>2, <4>1, <4>2 DEF BeginShutdown, SessionRecord, SweeperRecord
      <4>4. drained' \in SUBSET Generation
        BY <2>1, <3>2, <4>2 DEF BeginShutdown
      <4>5. QED
        BY <2>1, <4>3, <4>4 DEF BeginShutdown
    <3>3. QED
      BY <3>1, <3>2
  <2>2. CASE EndShutdownCall
    <3>1. sweeper.generation \in Generation
      BY <2>2 DEF EndShutdownCall, ShutdownInv, Generation
    <3>2. QED
      BY <2>2, <3>1 DEF EndShutdownCall, SweeperRecord
  <2>3. CASE RemoveShutDown
    <3>1. sweeper' \in SweeperRecord
      BY <2>3, ResumeType DEF RemoveShutDown, SweeperRecord
    <3>2. shutDown' \in SUBSET Conn
      BY <2>3 DEF RemoveShutDown, ShutdownInv, ActiveHasOwner
    <3>3. QED
      BY <2>3, <3>1, <3>2 DEF RemoveShutDown, remove_if_generation
  <2>4. QED
    BY <1>5, <2>1, <2>2, <2>3 DEF ShutdownStep
<1>6. CASE sweep_expired_disconnects
  BY <1>6 DEF sweep_expired_disconnects
<1>7. CASE Tick
  BY <1>7, AgedType DEF Tick, Present
<1>8. ASSUME NEW F \in SUBSET Config, ForgetCached(F) PROVE TypeOK'
  BY <1>8 DEF ForgetCached
<1>9. CASE UNCHANGED vars
  BY <1>9 DEF vars
<1>10. QED
  BY <1>1, <1>2, <1>3, <1>4, <1>5, <1>6, <1>7, <1>8, <1>9 DEF Next

-----------------------------------------------------------------------------
(* What a step may do to the registry *)

\* The record of u, if it is there after the step, was there before it as the
\* same incarnation in the same state.
Kept(u) ==
    reg'[u] # None =>
        /\ reg[u] # None
        /\ reg'[u].state = reg[u].state
        /\ reg'[u].generation = reg[u].generation
        /\ reg'[u].connection = reg[u].connection

\* Only a registration and the end of a socket make a record something else.
LEMMA RecordsKept ==
    ASSUME TypeOK, [Next]_vars,
           \A c \in Conn : ~RegisterSession(c) /\ ~FinishSocket(c),
           NEW u \in Uid
    PROVE  Kept(u)
<1> USE ConstantsAssumption DEF TypeOK, Kept, registryVars
<1>1. ASSUME NEW c \in Conn, TaskStep(c) PROVE Kept(u)
  BY <1>1 DEF TaskStep, RejectCollision, UpsertToolsCache, DropOutbound
<1>2. ASSUME NEW c \in Conn, ClientStep(c) PROVE Kept(u)
  <2>1. ASSUME NEW t \in Tools, ReceiveToolsChanged(c, t) PROVE Kept(u)
    <3>1. identity[c].uid \in Uid
      BY <2>1 DEF ReceiveToolsChanged, ConnectionIdentity
    <3>2. reg[u] # None =>
            /\ WithTools(reg[u], t, c).state = reg[u].state
            /\ WithTools(reg[u], t, c).generation = reg[u].generation
            /\ WithTools(reg[u], t, c).connection = reg[u].connection
      BY WithToolsType
    <3>3. QED
      BY <2>1, <3>1, <3>2 DEF ReceiveToolsChanged, update_tools, Present
  <2>2. CASE ReceiveBye(c)
    BY <2>2 DEF ReceiveBye, remove_if_generation
  <2>3. QED
    BY <1>2, <2>1, <2>2 DEF ClientStep, OpenSocket, ReceiveRegister, LoseSocket
<1>3. ASSUME NEW k \in Call, CallStep(k) PROVE Kept(u)
  <2>1. CASE BumpLastCall(k)
    <3>1. reg[u] # None =>
            /\ Called(reg[u]).state = reg[u].state
            /\ Called(reg[u]).generation = reg[u].generation
            /\ Called(reg[u]).connection = reg[u].connection
      BY CalledType
    <3>2. QED
      BY <2>1, <3>1 DEF BumpLastCall, Present
  <2>2. QED
    BY <1>3, <2>1 DEF CallStep, RouteCall, AdmitCall, EndCall
<1>4. CASE SnapshotIdle
  BY <1>4 DEF SnapshotIdle
<1>5. CASE ShutdownStep
  BY <1>5 DEF ShutdownStep, BeginShutdown, EndShutdownCall, RemoveShutDown,
              remove_if_generation
<1>6. CASE sweep_expired_disconnects
  BY <1>6 DEF sweep_expired_disconnects
<1>7. CASE Tick
  BY <1>7, AgedType DEF Tick, Present
<1>8. CASE \E F \in SUBSET Config : ForgetCached(F)
  BY <1>8 DEF ForgetCached
<1>9. CASE UNCHANGED vars
  BY <1>9 DEF vars
<1>10. QED
  BY <1>1, <1>2, <1>3, <1>4, <1>5, <1>6, <1>7, <1>8, <1>9 DEF Next

\* The record a registration makes.
LEMMA RegisteredRecord ==
    ASSUME TypeOK, TaskInv, NEW c \in Conn, RegisterSession(c)
    PROVE  LET u == request[c].uid IN
           /\ u \in Uid
           /\ request[c].tools \in Tools
           /\ nextGeneration' = nextGeneration + 1
           /\ ~IsActive(u)
           /\ reg'[u] \in SessionRecord
           /\ reg'[u].state = "Active"
           /\ reg'[u].generation = nextGeneration + 1
           /\ reg'[u].connection = c
           /\ \A v \in Uid : v # u => reg'[v] = reg[v]
           /\ identity[c] = None
           /\ identity'[c] # None
           /\ identity'[c] = [uid |-> u, generation |-> nextGeneration + 1]
           /\ \A d \in Conn \ {c} : identity'[d] = identity[d]
<1> DEFINE u == request[c].uid
           f == request[c].config
           t == request[c].tools
           idle == IF Present(u) THEN reg[u].idleFor ELSE 0
           g == nextGeneration + 1
<1> USE ConstantsAssumption DEF TypeOK
<1>1. u \in Uid /\ f \in Config /\ t \in Tools
  BY DEF RegisterSession, TaskInv, Request
<1>2. idle \in 0..IdleTimeout
  BY <1>1 DEF Present, SessionRecord
<1>3. g \in Generation
  BY DEF Generation
<1>4. NewRecord(c, g, f, t, idle) \in SessionRecord
  BY <1>1, <1>2, <1>3, NewRecordType
<1>5. /\ nextGeneration' = g
      /\ ~IsActive(u)
      /\ reg' = [reg EXCEPT ![u] = NewRecord(c, g, f, t, idle)]
      /\ identity' = [identity EXCEPT ![c] = [uid |-> u, generation |-> g]]
  BY DEF RegisterSession, register_with_generation
<1>6. /\ reg'[u] = NewRecord(c, g, f, t, idle)
      /\ \A v \in Uid : v # u => reg'[v] = reg[v]
  BY <1>1, <1>5
<1>7. /\ NewRecord(c, g, f, t, idle).state = "Active"
      /\ NewRecord(c, g, f, t, idle).generation = g
      /\ NewRecord(c, g, f, t, idle).connection = c
  BY DEF NewRecord
<1>8. identity[c] = None
  BY DEF RegisterSession, TaskInv
<1>9. [uid |-> u, generation |-> g] \in ConnectionIdentity
  BY <1>1, <1>3 DEF ConnectionIdentity
<1>10. /\ identity'[c] = [uid |-> u, generation |-> g]
       /\ \A d \in Conn \ {c} : identity'[d] = identity[d]
  BY <1>5
<1>11. QED
  BY <1>1, <1>4, <1>5, <1>6, <1>7, <1>8, <1>9, <1>10

\* The end of a socket suspends the incarnation its task owns, or does nothing
\* to the registry.
LEMMA FinishedSocket ==
    ASSUME TypeOK, NEW c \in Conn, FinishSocket(c)
    PROVE  LET u == identity[c].uid
               g == identity[c].generation
           IN  \/ /\ identity[c] # None
                  /\ u \in Uid
                  /\ IsActive(u)
                  /\ reg[u].generation = g
                  /\ reg'[u] \in SessionRecord
                  /\ reg'[u].state = "Disconnected"
                  /\ reg'[u].generation = g
                  /\ reg'[u].connection = None
                  /\ \A v \in Uid : v # u => reg'[v] = reg[v]
                  /\ handle' = [handle EXCEPT ![reg[u].connection] = "Disconnected"]
                  /\ drained' = drained \cup {g}
               \/ /\ ~(identity[c] # None /\ IsActive(u) /\ reg[u].generation = g)
                  /\ UNCHANGED <<reg, handle, drained>>
<1> DEFINE u == identity[c].uid
           g == identity[c].generation
<1> USE ConstantsAssumption DEF TypeOK
<1>1. CASE identity[c] # None /\ IsActive(u) /\ reg[u].generation = g
  <2>1. u \in Uid /\ reg[u] \in SessionRecord
    BY <1>1 DEF ConnectionIdentity, IsActive, Present
  <2>2. /\ reg' = [reg EXCEPT ![u] = Suspended(@)]
        /\ handle' = [handle EXCEPT ![reg[u].connection] = "Disconnected"]
        /\ drained' = drained \cup {g}
    BY <1>1 DEF FinishSocket, mark_disconnected_if_generation
  <2>3. reg'[u] = Suspended(reg[u]) /\ \A v \in Uid : v # u => reg'[v] = reg[v]
    BY <2>1, <2>2
  <2>4. QED
    BY <1>1, <2>1, <2>2, <2>3, SuspendedType
<1>2. CASE ~(identity[c] # None /\ IsActive(u) /\ reg[u].generation = g)
  BY <1>2 DEF FinishSocket, mark_disconnected_if_generation, registryVars
<1>3. QED
  BY <1>1, <1>2

-----------------------------------------------------------------------------
(* One lemma per conjunct of the inductive invariant *)

\* A connection takes an identity once and loses its handle only afterwards.
LEMMA TaskInvStep ==
    ASSUME OwnershipInv, [Next]_vars
    PROVE  TaskInv'
<1> USE ConstantsAssumption
        DEF OwnershipInv, TypeOK, TaskInv, Identified, registryVars, taskVars
<1>1. ASSUME NEW c \in Conn, TaskStep(c) PROVE TaskInv'
  <2>1. CASE RegisterSession(c)
    <3>1. identity'[c] # None /\ \A d \in Conn \ {c} : identity'[d] = identity[d]
      BY <2>1, RegisteredRecord
    <3>2. /\ task[c] = "resolving"
          /\ task' = [task EXCEPT ![c] = "publishing"]
          /\ UNCHANGED <<request, handle>>
      BY <2>1 DEF RegisterSession
    <3>3. QED
      BY <3>1, <3>2
  <2>2. CASE FinishSocket(c)
    <3>1. CASE UNCHANGED handle
      BY <2>2, <3>1 DEF FinishSocket
    <3>2. CASE ~UNCHANGED handle
      <4> DEFINE d == reg[identity[c].uid].connection
      <4>1. d \in Conn /\ identity[d] # None
        BY <2>2, <3>2, FinishedSocket DEF ActiveHasOwner, Owns
      <4>2. handle' = [handle EXCEPT ![d] = "Disconnected"]
        BY <2>2, <3>2, FinishedSocket
      <4>3. QED
        BY <2>2, <4>1, <4>2 DEF FinishSocket
    <3>3. QED
      BY <3>1, <3>2
  <2>3. QED
    BY <1>1, <2>1, <2>2 DEF TaskStep, RejectCollision, UpsertToolsCache, DropOutbound
<1>2. ASSUME NEW c \in Conn, ClientStep(c) PROVE TaskInv'
  <2>1. ASSUME NEW u \in Uid, NEW f \in Config, NEW t \in Tools,
               ReceiveRegister(c, u, f, t)
        PROVE  TaskInv'
    BY <2>1 DEF ReceiveRegister, Request
  <2>2. ASSUME NEW t \in Tools, ReceiveToolsChanged(c, t) PROVE TaskInv'
    <3> DEFINE u == identity[c].uid
    <3>1. Present(u) => [uid |-> u, config |-> reg[u].config, tools |-> t] \in Request
      BY <2>2 DEF ReceiveToolsChanged, ConnectionIdentity, Request, SessionRecord, Present
    <3>2. QED
      BY <2>2, <3>1 DEF ReceiveToolsChanged
  <2>3. CASE OpenSocket(c) \/ ReceiveBye(c) \/ LoseSocket(c)
    BY <2>3 DEF OpenSocket, ReceiveBye, LoseSocket
  <2>4. QED
    BY <1>2, <2>1, <2>2, <2>3 DEF ClientStep
<1>3. CASE EndShutdownCall
  BY <1>3 DEF EndShutdownCall, ShutdownInv
<1>4. CASE UNCHANGED <<task, identity, request, handle>>
  BY <1>4
<1>5. QED
  BY <1>1, <1>2, <1>3, <1>4
  DEF Next, CallStep, RouteCall, BumpLastCall, AdmitCall, EndCall, SnapshotIdle,
      ShutdownStep, BeginShutdown, RemoveShutDown, sweep_expired_disconnects,
      ForgetCached, Tick, vars

\* An Active record keeps a running owner.
LEMMA ActiveHasOwnerStep ==
    ASSUME OwnershipInv, [Next]_vars
    PROVE  ActiveHasOwner'
<1> USE ConstantsAssumption DEF OwnershipInv, TypeOK
<1> SUFFICES ASSUME NEW u \in Uid, IsActive(u)'
             PROVE  /\ reg'[u].connection \in Conn
                    /\ Owns(reg[u].connection, u)'
                    /\ task'[reg'[u].connection] \in
                         {"open", "publishing", "leaving", "torn"}
  BY DEF ActiveHasOwner
<1>1. ASSUME NEW c \in Conn, RegisterSession(c)
      PROVE  /\ reg'[u].connection \in Conn
             /\ Owns(reg[u].connection, u)'
             /\ task'[reg'[u].connection] \in
                  {"open", "publishing", "leaving", "torn"}
  <2>1. /\ identity'[c] = [uid |-> request[c].uid, generation |-> nextGeneration + 1]
        /\ identity'[c] # None
        /\ \A d \in Conn \ {c} : identity'[d] = identity[d]
    BY <1>1, RegisteredRecord
  <2>2. task'[c] = "publishing" /\ \A d \in Conn \ {c} : task'[d] = task[d]
    BY <1>1 DEF RegisterSession
  <2>3. CASE u = request[c].uid
    <3>1. reg'[u].connection = c /\ reg'[u].generation = nextGeneration + 1
      BY <1>1, <2>3, RegisteredRecord
    <3>2. QED
      BY <2>1, <2>2, <2>3, <3>1 DEF Owns
  <2>4. CASE u # request[c].uid
    <3>1. reg'[u] = reg[u]
      BY <1>1, <2>4 DEF RegisterSession, register_with_generation
    <3>2. IsActive(u)
      BY <3>1 DEF IsActive, Present
    <3>3. reg[u].connection \in Conn \ {c}
      BY <1>1, <3>2 DEF RegisterSession, TaskInv, ActiveHasOwner, Owns
    <3>4. QED
      BY <2>1, <2>2, <3>1, <3>2, <3>3 DEF ActiveHasOwner, Owns
  <2>5. QED
    BY <2>3, <2>4
<1>2. ASSUME NEW c \in Conn, FinishSocket(c)
      PROVE  /\ reg'[u].connection \in Conn
             /\ Owns(reg[u].connection, u)'
             /\ task'[reg'[u].connection] \in
                  {"open", "publishing", "leaving", "torn"}
  <2>1. reg'[u] = reg[u] /\ IsActive(u)
    BY <1>2, FinishedSocket DEF IsActive, Present
  <2>2. reg[u].connection # c
    BY <1>2, <2>1, FinishedSocket DEF ActiveHasOwner, Owns, IsActive
  <2>3. QED
    BY <1>2, <2>1, <2>2 DEF FinishSocket, ActiveHasOwner, Owns
<1>3. ASSUME \A c \in Conn : ~RegisterSession(c) /\ ~FinishSocket(c)
      PROVE  /\ reg'[u].connection \in Conn
             /\ Owns(reg[u].connection, u)'
             /\ task'[reg'[u].connection] \in
                  {"open", "publishing", "leaving", "torn"}
  <2> DEFINE d == reg[u].connection
  <2>1. /\ IsActive(u)
        /\ reg'[u].connection = d
        /\ reg'[u].generation = reg[u].generation
    BY <1>3, RecordsKept DEF Kept, IsActive, Present
  <2>2. /\ d \in Conn
        /\ Owns(d, u)
        /\ task[d] \in {"open", "publishing", "leaving", "torn"}
    BY <2>1 DEF ActiveHasOwner
  <2>3. identity'[d] = identity[d]
    <3>1. ASSUME NEW c \in Conn, ReceiveBye(c) PROVE c # d
      BY <2>1, <2>2, <3>1
      DEF ReceiveBye, remove_if_generation, Owns, IsActive, Present
    <3>2. ASSUME NEW c \in Conn, ReceiveBye(c) PROVE identity'[d] = identity[d]
      BY <2>2, <3>1, <3>2 DEF ReceiveBye
    <3>3. QED
      BY <1>3, <3>2
      DEF Next, TaskStep, ClientStep, RejectCollision, UpsertToolsCache,
          DropOutbound, OpenSocket, ReceiveRegister, ReceiveToolsChanged, LoseSocket,
          CallStep, RouteCall, BumpLastCall, AdmitCall, EndCall, SnapshotIdle,
          ShutdownStep, BeginShutdown, EndShutdownCall, RemoveShutDown,
          sweep_expired_disconnects, ForgetCached, Tick, vars, taskVars
  <2>4. task'[d] \in {"open", "publishing", "leaving", "torn"}
    <3>1. ASSUME NEW c \in Conn, TaskStep(c)
          PROVE  task'[d] \in {"open", "publishing", "leaving", "torn"}
      BY <1>3, <2>2, <3>1 DEF TaskStep, RejectCollision, UpsertToolsCache, DropOutbound
    <3>2. ASSUME NEW c \in Conn, ClientStep(c)
          PROVE  task'[d] \in {"open", "publishing", "leaving", "torn"}
      BY <2>2, <3>2 DEF Owns, ClientStep, OpenSocket, ReceiveRegister,
                        ReceiveToolsChanged, ReceiveBye, LoseSocket
    <3>3. CASE UNCHANGED task
      BY <2>2, <3>3, SMTT(60)
    <3>4. QED
      BY <3>1, <3>2, <3>3
      DEF Next, CallStep, RouteCall, BumpLastCall, AdmitCall, EndCall, SnapshotIdle,
          ShutdownStep, BeginShutdown, EndShutdownCall, RemoveShutDown,
          sweep_expired_disconnects, ForgetCached, Tick, vars, taskVars
  <2>5. QED
    BY <2>1, <2>2, <2>3, <2>4 DEF Owns
<1>4. QED
  BY <1>1, <1>2, <1>3

\* Steps other than a registration issue no generation.
LEMMA GenerationKept ==
    ASSUME [Next]_vars, \A c \in Conn : ~RegisterSession(c)
    PROVE  nextGeneration' = nextGeneration
BY DEF Next, TaskStep, ClientStep, RejectCollision, UpsertToolsCache, DropOutbound,
       FinishSocket, mark_disconnected_if_generation, OpenSocket, ReceiveRegister,
       ReceiveToolsChanged, update_tools, ReceiveBye, remove_if_generation,
       LoseSocket, CallStep, RouteCall, BumpLastCall, AdmitCall, EndCall,
       SnapshotIdle, ShutdownStep, BeginShutdown, EndShutdownCall, RemoveShutDown,
       sweep_expired_disconnects, ForgetCached, Tick, vars, registryVars

\* Only the end of a socket and a shutdown drain a dispatcher, and only that of a
\* generation which has been issued.
LEMMA DrainedKept ==
    ASSUME [Next]_vars,
           \A c \in Conn : ~FinishSocket(c),
           \A u \in Uid : ~BeginShutdown(u),
           ~EndShutdownCall
    PROVE  drained' = drained
BY DEF Next, TaskStep, ClientStep, RegisterSession, RejectCollision,
       UpsertToolsCache, DropOutbound, OpenSocket, ReceiveRegister,
       ReceiveToolsChanged, ReceiveBye, LoseSocket, CallStep, RouteCall,
       BumpLastCall, AdmitCall, EndCall, SnapshotIdle, ShutdownStep, RemoveShutDown,
       sweep_expired_disconnects, ForgetCached, Tick, vars

\* A dispatcher once drained stays drained.
LEMMA DrainedGrows ==
    ASSUME OwnershipInv, [Next]_vars
    PROVE  drained \subseteq drained'
<1> USE DEF OwnershipInv
<1>1. ASSUME NEW c \in Conn, FinishSocket(c) PROVE drained \subseteq drained'
  BY <1>1, FinishedSocket
<1>2. ASSUME NEW u \in Uid, BeginShutdown(u) PROVE drained \subseteq drained'
  BY <1>2 DEF BeginShutdown
<1>3. CASE EndShutdownCall
  BY <1>3 DEF EndShutdownCall
<1>4. QED
  BY <1>1, <1>2, <1>3, DrainedKept

\* Generations stay below the counter and are held by one uid each.
LEMMA GenerationInvStep ==
    ASSUME OwnershipInv, [Next]_vars
    PROVE  GenerationInv'
<1> USE DEF OwnershipInv
<1>0. /\ nextGeneration \in Nat
      /\ drained \subseteq Nat
      /\ \A u \in Uid : Present(u) => reg[u].generation \in Nat
  BY DEF TypeOK, Present, SessionRecord, Generation
<1>1. ASSUME NEW c \in Conn, RegisterSession(c) PROVE GenerationInv'
  <2> DEFINE w == request[c].uid
  <2>1. /\ w \in Uid
        /\ nextGeneration' = nextGeneration + 1
        /\ reg'[w].generation = nextGeneration + 1
        /\ \A v \in Uid : v # w => reg'[v] = reg[v]
    BY <1>1, RegisteredRecord
  <2>2. drained' = drained
    BY <1>1 DEF RegisterSession
  <2>3. ASSUME NEW v \in Uid, v # w PROVE Present(v)' =>
           Present(v) /\ reg'[v].generation = reg[v].generation
    BY <2>1, <2>3 DEF Present
  <2>4. \A v \in Uid : Present(v)' => reg'[v].generation <= nextGeneration'
    BY <1>0, <2>1, <2>3 DEF GenerationInv
  <2>5. \A v \in Uid : v # w /\ Present(v)' => reg'[v].generation # reg'[w].generation
    BY <1>0, <2>1, <2>3 DEF GenerationInv
  <2>6. \A g \in drained' : g <= nextGeneration'
    BY <1>0, <2>1, <2>2 DEF GenerationInv
  <2>7. QED
    BY <2>1, <2>3, <2>4, <2>5, <2>6 DEF GenerationInv
<1>2. ASSUME NEW c \in Conn, FinishSocket(c) PROVE GenerationInv'
  <2>1. nextGeneration' = nextGeneration
    BY <1>2 DEF FinishSocket, mark_disconnected_if_generation, registryVars
  <2>2. \A v \in Uid : /\ Present(v)' => Present(v)
                       /\ Present(v)' => reg'[v].generation = reg[v].generation
    BY <1>2, FinishedSocket DEF IsActive, Present
  <2>3. \/ drained' = drained
        \/ \E v \in Uid : Present(v) /\ drained' = drained \cup {reg[v].generation}
    BY <1>2, FinishedSocket DEF IsActive, Present
  <2>4. QED
    BY <1>0, <2>1, <2>2, <2>3 DEF GenerationInv
<1>3. ASSUME \A c \in Conn : ~RegisterSession(c) /\ ~FinishSocket(c)
      PROVE  GenerationInv'
  <2>1. nextGeneration' = nextGeneration
    BY <1>3, GenerationKept
  <2>2. \A v \in Uid : /\ Present(v)' => Present(v)
                       /\ Present(v)' => reg'[v].generation = reg[v].generation
    BY <1>3, RecordsKept DEF Kept, Present
  <2>3. \A g \in drained' : g <= nextGeneration
    <3>1. ASSUME NEW u \in Uid, BeginShutdown(u)
          PROVE  \A g \in drained' : g <= nextGeneration
      <4>1. \/ drained' = drained
            \/ Present(u) /\ drained' = drained \cup {reg[u].generation}
        BY <3>1 DEF BeginShutdown
      <4>2. Present(u) => reg[u].generation <= nextGeneration
        BY DEF GenerationInv
      <4>3. \A g \in drained : g <= nextGeneration
        BY DEF GenerationInv
      <4>4. QED
        BY <4>1, <4>2, <4>3
    <3>2. CASE EndShutdownCall
      BY <1>0, <3>2 DEF EndShutdownCall, ShutdownInv, GenerationInv
    <3>3. QED
      BY <1>3, <3>1, <3>2, DrainedKept DEF GenerationInv
  <2>4. QED
    BY <1>0, <2>1, <2>2, <2>3 DEF GenerationInv
<1>4. QED
  BY <1>1, <1>2, <1>3

\* A Disconnected record stays drained and without a connection.
LEMMA DisconnectedIsDrainedStep ==
    ASSUME OwnershipInv, [Next]_vars
    PROVE  DisconnectedIsDrained'
<1> USE DEF OwnershipInv
<1> SUFFICES ASSUME NEW u \in Uid, IsDisconnected(u)'
             PROVE  reg'[u].generation \in drained' /\ reg'[u].connection = None
  BY DEF DisconnectedIsDrained
<1>1. ASSUME NEW c \in Conn, RegisterSession(c)
      PROVE  reg'[u].generation \in drained' /\ reg'[u].connection = None
  <2>1. u # request[c].uid
    BY <1>1, RegisteredRecord DEF IsDisconnected
  <2>2. reg'[u] = reg[u] /\ drained' = drained
    BY <1>1, <2>1 DEF RegisterSession, register_with_generation, TypeOK
  <2>3. QED
    BY <2>2 DEF DisconnectedIsDrained, IsDisconnected, Present
<1>2. ASSUME NEW c \in Conn, FinishSocket(c)
      PROVE  reg'[u].generation \in drained' /\ reg'[u].connection = None
  <2>1. CASE reg'[u] = reg[u]
    BY <2>1, DrainedGrows DEF DisconnectedIsDrained, IsDisconnected, Present
  <2>2. CASE reg'[u] # reg[u]
    BY <1>2, <2>2, FinishedSocket
  <2>3. QED
    BY <2>1, <2>2
<1>3. ASSUME \A c \in Conn : ~RegisterSession(c) /\ ~FinishSocket(c)
      PROVE  reg'[u].generation \in drained' /\ reg'[u].connection = None
  BY <1>3, RecordsKept, DrainedGrows
  DEF Kept, DisconnectedIsDrained, IsDisconnected, Present
<1>4. QED
  BY <1>1, <1>2, <1>3

\* A connection that has had an identity gets no other.
LEMMA IdentifiedStays ==
    ASSUME OwnershipInv, [Next]_vars, NEW d \in Conn, Identified(d)
    PROVE  Identified(d)' /\ identity'[d] \in {None, identity[d]}
<1> USE DEF OwnershipInv, TypeOK, Identified, TaskInv
<1>1. ASSUME NEW c \in Conn, TaskStep(c)
      PROVE  Identified(d)' /\ identity'[d] \in {None, identity[d]}
  <2>1. CASE RegisterSession(c)
    <3>1. c # d
      BY <2>1 DEF RegisterSession
    <3>2. QED
      BY <2>1, <3>1 DEF RegisterSession
  <2>2. CASE ~RegisterSession(c)
    BY <1>1, <2>2 DEF TaskStep, RejectCollision, UpsertToolsCache, DropOutbound,
                      FinishSocket
  <2>3. QED
    BY <2>1, <2>2
<1>2. ASSUME NEW c \in Conn, ClientStep(c)
      PROVE  Identified(d)' /\ identity'[d] \in {None, identity[d]}
  BY <1>2 DEF ClientStep, OpenSocket, ReceiveRegister, ReceiveToolsChanged,
              ReceiveBye, LoseSocket
<1>3. CASE UNCHANGED <<task, identity>>
  BY <1>3
<1>4. QED
  BY <1>1, <1>2, <1>3
  DEF Next, CallStep, RouteCall, BumpLastCall, AdmitCall, EndCall, SnapshotIdle,
      ShutdownStep, BeginShutdown, EndShutdownCall, RemoveShutDown,
      sweep_expired_disconnects, ForgetCached, Tick, vars, taskVars

\* Whatever happens during a shutdown, it goes on holding one incarnation.
LEMMA ShutdownInvStep ==
    ASSUME OwnershipInv, [Next]_vars
    PROVE  ShutdownInv'
<1> USE DEF OwnershipInv
<1>0. /\ nextGeneration \in Nat
      /\ \A u \in Uid : Present(u) => reg[u] \in SessionRecord
  BY DEF TypeOK, Present
<1>1. CASE UNCHANGED sweeper
  <2>1. nextGeneration' \in Nat /\ nextGeneration <= nextGeneration'
    <3>1. ASSUME NEW c \in Conn, RegisterSession(c)
          PROVE  nextGeneration' = nextGeneration + 1
      BY <3>1, RegisteredRecord
    <3>2. QED
      BY <1>0, <3>1, GenerationKept
  <2>2. ASSUME sweeper.at \in {"calling", "removing"},
               NEW u \in Uid, Present(u)', reg'[u].generation = sweeper.generation
        PROVE  u = sweeper.uid
    <3>1. sweeper.generation \in 1..nextGeneration
      BY <2>2 DEF ShutdownInv
    <3>2. Present(u) /\ reg[u].generation = sweeper.generation
      <4>1. ASSUME NEW c \in Conn, RegisterSession(c)
            PROVE  Present(u) /\ reg[u].generation = sweeper.generation
        <5>1. u # request[c].uid
          <6>1. reg'[request[c].uid].generation = nextGeneration + 1
            BY <4>1, RegisteredRecord
          <6>2. QED
            BY <1>0, <2>2, <3>1, <6>1
        <5>2. reg'[u] = reg[u]
          BY <4>1, <5>1, RegisteredRecord
        <5>3. QED
          BY <2>2, <5>2 DEF Present
      <4>2. ASSUME NEW c \in Conn, FinishSocket(c)
            PROVE  Present(u) /\ reg[u].generation = sweeper.generation
        BY <2>2, <4>2, FinishedSocket DEF IsActive, Present
      <4>3. QED
        BY <2>2, <4>1, <4>2, RecordsKept DEF Kept, Present
    <3>3. QED
      BY <2>2, <3>2 DEF ShutdownInv
  <2>3. ASSUME sweeper.at = "calling"
        PROVE  /\ Identified(sweeper.connection)'
               /\ identity'[sweeper.connection] \in
                    {None, [uid |-> sweeper.uid, generation |-> sweeper.generation]}
    <3>1. /\ sweeper.connection \in Conn
          /\ Identified(sweeper.connection)
          /\ identity[sweeper.connection] \in
               {None, [uid |-> sweeper.uid, generation |-> sweeper.generation]}
      BY <2>3 DEF ShutdownInv
    <3>2. \A d \in Conn :
            Identified(d) => Identified(d)' /\ identity'[d] \in {None, identity[d]}
      BY IdentifiedStays
    <3>3. QED
      BY <1>1, <3>1, <3>2
  <2>4. QED
    BY <1>0, <1>1, <2>1, <2>2, <2>3 DEF ShutdownInv
<1>2. CASE SnapshotIdle
  <2>1. sweeper'.at = "sweeping"
    BY <1>2 DEF SnapshotIdle, TypeOK, SweeperRecord
  <2>2. QED
    BY <2>1 DEF ShutdownInv
<1>3. ASSUME NEW u \in Uid, BeginShutdown(u) PROVE ShutdownInv'
  <2>1. CASE ~Present(u)
    <3>1. sweeper.candidates \ {u} \in SUBSET Uid
      BY DEF TypeOK, SweeperRecord
    <3>2. sweeper'.at \in {"sleeping", "sweeping"}
      BY <1>3, <2>1, <3>1, ResumeType DEF BeginShutdown
    <3>3. QED
      BY <3>2 DEF ShutdownInv
  <2>2. CASE Present(u)
    <3>1. /\ UNCHANGED <<reg, nextGeneration, identity, task>>
          /\ sweeper'.uid = u
          /\ sweeper'.generation = reg[u].generation
          /\ sweeper'.connection = reg[u].connection
          /\ sweeper'.at = IF IsActive(u) THEN "calling" ELSE "removing"
      BY <1>3, <2>2 DEF BeginShutdown, registryVars, taskVars
    <3>2. reg[u].generation \in 1..nextGeneration
      BY <1>0, <2>2 DEF GenerationInv, SessionRecord, Generation
    <3>3. \A v \in Uid : Present(v) /\ reg[v].generation = reg[u].generation => v = u
      BY <2>2 DEF GenerationInv
    <3>4. ASSUME IsActive(u)
          PROVE  /\ reg[u].connection \in Conn
                 /\ Identified(reg[u].connection)
                 /\ identity[reg[u].connection] =
                      [uid |-> u, generation |-> reg[u].generation]
      <4> DEFINE d == reg[u].connection
      <4>1. d \in Conn /\ Owns(d, u)
        BY <3>4 DEF ActiveHasOwner
      <4>2. identity[d] \in ConnectionIdentity
        BY <4>1 DEF TypeOK, Owns
      <4>3. QED
        BY <4>1, <4>2 DEF Owns, Identified, ConnectionIdentity
    <3>5. QED
      BY <3>1, <3>2, <3>3, <3>4 DEF ShutdownInv, Present, Identified
  <2>3. QED
    BY <2>1, <2>2
<1>4. CASE EndShutdownCall
  <2>1. /\ sweeper'.at = "removing"
        /\ sweeper'.uid = sweeper.uid
        /\ sweeper'.generation = sweeper.generation
        /\ UNCHANGED <<reg, nextGeneration>>
    BY <1>4 DEF EndShutdownCall, TypeOK, SweeperRecord, registryVars
  <2>2. QED
    BY <1>4, <2>1 DEF EndShutdownCall, ShutdownInv, Present
<1>5. CASE RemoveShutDown
  <2>1. sweeper'.at \in {"sleeping", "sweeping"}
    BY <1>5, ResumeType DEF RemoveShutDown, TypeOK, SweeperRecord
  <2>2. QED
    BY <2>1 DEF ShutdownInv
<1>6. QED
  BY <1>1, <1>2, <1>3, <1>4, <1>5
  DEF Next, TaskStep, ClientStep, RegisterSession, RejectCollision,
      UpsertToolsCache, DropOutbound, FinishSocket, OpenSocket, ReceiveRegister,
      ReceiveToolsChanged, ReceiveBye, LoseSocket, CallStep, RouteCall,
      BumpLastCall, AdmitCall, EndCall, ShutdownStep, sweep_expired_disconnects,
      ForgetCached, Tick, vars

\* No step leaves an Active record with a dead handle or a drained dispatcher, but
\* for a teardown or a shutdown of that very incarnation.
LEMMA NoBrokenActiveStep ==
    ASSUME OwnershipInv, [Next]_vars
    PROVE  NoBrokenActive'
<1> USE DEF OwnershipInv
<1> SUFFICES ASSUME NEW u \in Uid, IsActive(u)',
                    \/ handle'[reg'[u].connection] = "Disconnected"
                    \/ reg'[u].generation \in drained'
             PROVE  task'[reg'[u].connection] = "torn" \/ ShutdownOf(u)'
  BY DEF NoBrokenActive
<1> DEFINE d == reg[u].connection
           g == reg[u].generation
           Broken == handle[d] = "Disconnected" \/ g \in drained
<1>1. ASSUME IsActive(u), Broken
      PROVE  task[d] = "torn" \/ ShutdownOf(u)
  BY <1>1 DEF NoBrokenActive
<1>2. ASSUME IsActive(u)
      PROVE  d \in Conn /\ Owns(d, u)
  BY <1>2 DEF ActiveHasOwner
<1>3. ASSUME NEW c \in Conn, RegisterSession(c)
      PROVE  task'[reg'[u].connection] = "torn" \/ ShutdownOf(u)'
  <2>1. UNCHANGED <<handle, drained, sweeper>>
    BY <1>3 DEF RegisterSession
  <2>2. u # request[c].uid
    <3>1. SUFFICES ASSUME u = request[c].uid PROVE FALSE
      OBVIOUS
    <3>2. reg'[u].connection = c /\ reg'[u].generation = nextGeneration + 1
      BY <1>3, <3>1, RegisteredRecord
    <3>3. handle[c] # "Disconnected"
      BY <1>3 DEF RegisterSession, TaskInv, Identified
    <3>4. nextGeneration + 1 \notin drained
      BY DEF GenerationInv, TypeOK
    <3>5. QED
      BY <2>1, <3>2, <3>3, <3>4
  <2>3. reg'[u] = reg[u]
    BY <1>3, <2>2, RegisteredRecord
  <2>4. IsActive(u)
    BY <2>3 DEF IsActive, Present
  <2>5. d # c
    BY <1>2, <1>3, <2>4 DEF Owns, RegisterSession, TaskInv
  <2>6. task'[d] = task[d]
    BY <1>3, <2>5 DEF RegisterSession, TypeOK
  <2>7. QED
    BY <1>1, <2>1, <2>3, <2>4, <2>6 DEF ShutdownOf
<1>4. ASSUME NEW c \in Conn, FinishSocket(c)
      PROVE  task'[reg'[u].connection] = "torn" \/ ShutdownOf(u)'
  <2>1. reg'[u] = reg[u] /\ IsActive(u)
    BY <1>4, FinishedSocket DEF IsActive, Present
  <2>2. d # c
    BY <1>2, <1>4, <2>1, FinishedSocket DEF Owns, IsActive
  <2>3. Broken
    <3> DEFINE w == identity[c].uid
    <3>1. CASE UNCHANGED <<handle, drained>>
      BY <2>1, <3>1
    <3>2. CASE ~UNCHANGED <<handle, drained>>
      <4>1. /\ w \in Uid /\ IsActive(w) /\ w # u
            /\ handle' = [handle EXCEPT ![reg[w].connection] = "Disconnected"]
            /\ drained' = drained \cup {reg[w].generation}
        BY <1>4, <3>2, FinishedSocket DEF IsActive
      <4>2. reg[w].connection # d
        BY <1>2, <2>1, <4>1 DEF ActiveHasOwner, Owns
      <4>3. reg[w].generation # g
        BY <2>1, <4>1 DEF GenerationInv, IsActive
      <4>4. QED
        BY <1>2, <2>1, <4>1, <4>2, <4>3 DEF TypeOK
    <3>3. QED
      BY <3>1, <3>2
  <2>4. task'[d] = task[d] /\ UNCHANGED sweeper
    BY <1>2, <1>4, <2>1, <2>2 DEF FinishSocket, TypeOK
  <2>5. QED
    BY <1>1, <2>1, <2>3, <2>4 DEF ShutdownOf
<1>5. ASSUME \A c \in Conn : ~RegisterSession(c) /\ ~FinishSocket(c)
      PROVE  task'[reg'[u].connection] = "torn" \/ ShutdownOf(u)'
  <2>1. /\ IsActive(u)
        /\ reg'[u].connection = d
        /\ reg'[u].generation = g
    BY <1>5, RecordsKept DEF Kept, IsActive, Present
  <2>2. d \in Conn /\ Owns(d, u)
    BY <1>2, <2>1
  <2>3. ASSUME task[d] = "torn" PROVE task'[d] = "torn"
    BY <1>5, <2>2, <2>3
    DEF TypeOK, Next, TaskStep, ClientStep, RejectCollision, UpsertToolsCache,
        DropOutbound, OpenSocket, ReceiveRegister, ReceiveToolsChanged, ReceiveBye,
        LoseSocket, CallStep, RouteCall, BumpLastCall, AdmitCall, EndCall,
        SnapshotIdle, ShutdownStep, BeginShutdown, EndShutdownCall, RemoveShutDown,
        sweep_expired_disconnects, ForgetCached, Tick, vars, taskVars
  <2>4. ASSUME NEW c \in Conn, DropOutbound(c)
        PROVE  task'[d] = "torn" \/ ShutdownOf(u)'
    <3>1. CASE c = d
      BY <2>2, <2>4, <3>1 DEF DropOutbound, TypeOK
    <3>2. CASE c # d
      <4>1. Broken
        BY <2>1, <2>2, <2>4, <3>2 DEF DropOutbound, TypeOK
      <4>2. QED
        BY <1>1, <2>1, <2>3, <2>4, <4>1 DEF DropOutbound, ShutdownOf
    <3>3. QED
      BY <3>1, <3>2
  <2>5. ASSUME NEW v \in Uid, BeginShutdown(v)
        PROVE  task'[d] = "torn" \/ ShutdownOf(u)'
    <3>1. Broken
      <4>1. UNCHANGED handle
        BY <2>5 DEF BeginShutdown
      <4>2. \/ drained' = drained
            \/ /\ ~IsActive(v) /\ Present(v)
               /\ drained' = drained \cup {reg[v].generation}
        BY <2>5 DEF BeginShutdown
      <4>3. Present(v) /\ ~IsActive(v) => reg[v].generation # g
        BY <2>1 DEF GenerationInv, IsActive
      <4>4. QED
        BY <2>1, <4>1, <4>2, <4>3
    <3>2. ~ShutdownOf(u)
      BY <2>5 DEF BeginShutdown, ShutdownOf
    <3>3. QED
      BY <1>1, <2>1, <2>3, <3>1, <3>2
  <2>6. ASSUME EndShutdownCall
        PROVE  task'[d] = "torn" \/ ShutdownOf(u)'
    <3>1. /\ sweeper'.at = "removing"
          /\ sweeper'.uid = sweeper.uid
          /\ sweeper'.generation = sweeper.generation
      BY <2>6 DEF EndShutdownCall, TypeOK, SweeperRecord
    <3>2. CASE d = sweeper.connection
      <4>1. identity[d] = [uid |-> sweeper.uid, generation |-> sweeper.generation]
        BY <2>2, <2>6, <3>2 DEF EndShutdownCall, ShutdownInv, Owns
      <4>2. sweeper.uid = u /\ sweeper.generation = g
        BY <2>2, <4>1 DEF Owns
      <4>3. QED
        BY <2>1, <3>1, <4>2 DEF ShutdownOf
    <3>3. CASE g = sweeper.generation
      BY <2>1, <2>6, <3>1, <3>3 DEF EndShutdownCall, ShutdownInv, ShutdownOf, IsActive
    <3>4. CASE d # sweeper.connection /\ g # sweeper.generation
      <4>1. Broken
        BY <2>1, <2>2, <2>6, <3>4 DEF EndShutdownCall, TypeOK
      <4>2. ~ShutdownOf(u)
        BY <2>6 DEF EndShutdownCall, ShutdownOf
      <4>3. QED
        BY <1>1, <2>1, <2>3, <4>1, <4>2
    <3>5. QED
      BY <3>2, <3>3, <3>4
  <2>7. ASSUME RemoveShutDown
        PROVE  task'[d] = "torn" \/ ShutdownOf(u)'
    <3>1. Broken
      BY <2>1, <2>7 DEF RemoveShutDown
    <3>2. ~ShutdownOf(u)
      BY <2>1, <2>7 DEF RemoveShutDown, remove_if_generation, ShutdownOf, IsActive,
                        Present, TypeOK
    <3>3. QED
      BY <1>1, <2>1, <2>3, <3>1, <3>2
  <2>8. ASSUME UNCHANGED <<handle, drained, sweeper>>
        PROVE  task'[d] = "torn" \/ ShutdownOf(u)'
    BY <1>1, <2>1, <2>3, <2>8 DEF ShutdownOf
  <2>9. ASSUME SnapshotIdle
        PROVE  task'[d] = "torn" \/ ShutdownOf(u)'
    <3>1. Broken
      BY <2>1, <2>9 DEF SnapshotIdle
    <3>2. ~ShutdownOf(u)
      BY <2>9 DEF SnapshotIdle, ShutdownOf
    <3>3. QED
      BY <1>1, <2>1, <2>3, <3>1, <3>2
  <2>10. QED
    BY <1>5, <2>1, <2>4, <2>5, <2>6, <2>7, <2>8, <2>9
    DEF Next, TaskStep, ClientStep, RejectCollision, UpsertToolsCache, OpenSocket,
        ReceiveRegister, ReceiveToolsChanged, ReceiveBye, LoseSocket, CallStep,
        RouteCall, BumpLastCall, AdmitCall, EndCall, ShutdownStep,
        sweep_expired_disconnects, ForgetCached, Tick, vars
<1>6. QED
  BY <1>3, <1>4, <1>5

-----------------------------------------------------------------------------
(* The theorems *)

\* OwnershipInv holds in every reachable state: no interleaving of sockets,
\* registrations, goodbyes, sweeps and shutdowns confuses two incarnations of a
\* session.
THEOREM RegistryOwnership == Spec => []OwnershipInv
<1>1. OwnershipInv /\ [Next]_vars => OwnershipInv'
  <2> SUFFICES ASSUME OwnershipInv, [Next]_vars PROVE OwnershipInv'
    OBVIOUS
  <2>1. TypeOK'
    BY TypeStep DEF OwnershipInv
  <2>2. QED
    BY <2>1, TaskInvStep, ActiveHasOwnerStep, GenerationInvStep, ShutdownInvStep,
       DisconnectedIsDrainedStep, NoBrokenActiveStep DEF OwnershipInv
<1>2. QED
  BY <1>1, InitOwnership, PTL DEF Spec

\* Every variable of the registry, the connection tasks and the sweeper keeps its
\* type.
THEOREM RegistryTypeCorrect == Spec => []TypeOK
<1>1. OwnershipInv => TypeOK
  BY DEF OwnershipInv
<1>2. QED
  BY <1>1, RegistryOwnership, PTL

\* Every Active record has a running connection task that carries its uid and
\* generation and will release the uid when the socket ends.
THEOREM RegistryActiveHasOwner == Spec => []ActiveHasOwner
<1>1. OwnershipInv => ActiveHasOwner
  BY DEF OwnershipInv
<1>2. QED
  BY <1>1, RegistryOwnership, PTL

\* Draining an old incarnation never disables the one that replaced it.
THEOREM RegistryNoBrokenActive == Spec => []NoBrokenActive
<1>1. OwnershipInv => NoBrokenActive
  BY DEF OwnershipInv
<1>2. QED
  BY <1>1, RegistryOwnership, PTL

\* The dispatcher of every Disconnected record is drained, its connection gone.
THEOREM RegistryDisconnectedIsDrained == Spec => []DisconnectedIsDrained
<1>1. OwnershipInv => DisconnectedIsDrained
  BY DEF OwnershipInv
<1>2. QED
  BY <1>1, RegistryOwnership, PTL

\* Time, tool lists and calls remove no record.
LEMMA RecordsRemain ==
    ASSUME TypeOK, [Next]_vars,
           \A c \in Conn :
               ~RegisterSession(c) /\ ~FinishSocket(c) /\ ~ReceiveBye(c),
           ~RemoveShutDown,
           ~sweep_expired_disconnects,
           NEW u \in Uid, reg[u] # None
    PROVE  reg'[u] # None
<1> USE ConstantsAssumption DEF TypeOK
<1>1. reg[u] \in SessionRecord
  OBVIOUS
<1>2. ASSUME NEW c \in Conn, NEW t \in Tools, ReceiveToolsChanged(c, t)
      PROVE  reg'[u] # None
  <2>1. WithTools(reg[u], t, c) # None
    BY <1>1, WithToolsType
  <2>2. QED
    BY <1>2, <2>1 DEF ReceiveToolsChanged, update_tools
<1>3. ASSUME NEW k \in Call, BumpLastCall(k) PROVE reg'[u] # None
  <2>1. Called(reg[u]) # None
    BY <1>1, CalledType
  <2>2. QED
    BY <1>3, <2>1 DEF BumpLastCall
<1>4. CASE Tick
  <2>1. Aged(reg[u]) # None
    BY <1>1, AgedType
  <2>2. QED
    BY <1>4, <2>1 DEF Tick, Present
<1>5. CASE UNCHANGED reg
  BY <1>5
<1>6. QED
  BY <1>2, <1>3, <1>4, <1>5
  DEF Next, TaskStep, ClientStep, RejectCollision, UpsertToolsCache, DropOutbound,
      OpenSocket, ReceiveRegister, LoseSocket, CallStep, RouteCall, AdmitCall,
      EndCall, SnapshotIdle, ShutdownStep, BeginShutdown, EndShutdownCall,
      ForgetCached, vars, registryVars

\* An Active incarnation is ended or suspended by nobody but its own connection
\* task or a shutdown that took its generation: late disconnects and goodbyes of
\* older sockets do nothing.
THEOREM RegistryEndedOnlyByOwner == Spec => EndedOnlyByOwner
<1>1. OwnershipInv /\ [Next]_vars => [\A u \in Uid : EndsByOwner(u)]_vars
  <2> USE DEF OwnershipInv
  <2> SUFFICES ASSUME OwnershipInv, [Next]_vars, NEW u \in Uid, IsActive(u),
                      ~(IsActive(u)' /\ reg'[u].generation = reg[u].generation)
               PROVE  \/ ShutdownOf(u)
                      \/ \E c \in Conn : Owns(c, u) /\ task'[c] # task[c]
    BY DEF EndsByOwner
  <2>1. ASSUME NEW c \in Conn, RegisterSession(c) PROVE FALSE
    <3>1. u # request[c].uid
      BY <2>1, RegisteredRecord
    <3>2. reg'[u] = reg[u]
      BY <2>1, <3>1, RegisteredRecord
    <3>3. QED
      BY <3>2 DEF IsActive, Present
  <2>2. ASSUME NEW c \in Conn, FinishSocket(c)
        PROVE  Owns(c, u) /\ task'[c] # task[c]
    <3>1. reg'[u] # reg[u]
      BY DEF IsActive, Present
    <3>2. u = identity[c].uid /\ identity[c] # None
          /\ reg[u].generation = identity[c].generation
      BY <2>2, <3>1, FinishedSocket
    <3>3. task'[c] # task[c]
      BY <2>2 DEF FinishSocket, TypeOK
    <3>4. QED
      BY <3>2, <3>3 DEF Owns
  <2>3. ASSUME NEW c \in Conn, ReceiveBye(c)
        PROVE  Owns(c, u) /\ task'[c] # task[c]
    BY <2>3 DEF ReceiveBye, remove_if_generation, Owns, IsActive, Present, TypeOK,
                registryVars
  <2>4. CASE RemoveShutDown
    BY <2>4 DEF RemoveShutDown, remove_if_generation, ShutdownOf, IsActive, Present,
                TypeOK
  <2>5. CASE sweep_expired_disconnects
    BY <2>5 DEF sweep_expired_disconnects, Expired, IsDisconnected, IsActive, Present
  <2>6. ASSUME \A c \in Conn :
                   ~RegisterSession(c) /\ ~FinishSocket(c) /\ ~ReceiveBye(c),
               ~RemoveShutDown, ~sweep_expired_disconnects
        PROVE  FALSE
    <3>1. reg'[u] # None
      BY <2>6, RecordsRemain DEF IsActive, Present
    <3>2. Kept(u)
      BY <2>6, RecordsKept
    <3>3. QED
      BY <3>1, <3>2 DEF Kept, IsActive, Present
  <2>7. QED
    BY <2>1, <2>2, <2>3, <2>4, <2>5, <2>6
<1>2. QED
  BY <1>1, RegistryOwnership, PTL DEF Spec, EndedOnlyByOwner

-----------------------------------------------------------------------------
(* Refinement of the abstract session lifecycle *)

\* A step of the registry takes, suspends or ends sessions of the abstract
\* lifecycle, or changes nothing it knows of.
LEMMA LifecycleStep ==
    ASSUME OwnershipInv, [Next]_vars
    PROVE  Lifecycle!Next \/ UNCHANGED Lifecycle!absVars
<1> USE ConstantsAssumption DEF OwnershipInv
<1>1. ASSUME NEW c \in Conn, RegisterSession(c) PROVE Lifecycle!Next
  <2> DEFINE u == request[c].uid
  <2>1. /\ u \in Uid
        /\ nextGeneration' = nextGeneration + 1
        /\ ~IsActive(u)
        /\ reg'[u] # None
        /\ reg'[u].state = "Active"
        /\ reg'[u].generation = nextGeneration + 1
    <3>1. /\ reg'[u] \in SessionRecord
          /\ reg'[u].state = "Active"
          /\ reg'[u].generation = nextGeneration + 1
      BY <1>1, RegisteredRecord
    <3>2. reg'[u] # None
      BY <3>1
    <3>3. u \in Uid /\ nextGeneration' = nextGeneration + 1 /\ ~IsActive(u)
      BY <1>1, RegisteredRecord
    <3>4. QED
      BY <3>1, <3>2, <3>3
  <2>2. \A v \in Uid : v # u => reg'[v] = reg[v]
    BY <1>1, RegisteredRecord
  <2>3. phaseOf' = [phaseOf EXCEPT ![u] = "active"]
    BY <2>1, <2>2 DEF phaseOf, IsActive, Present
  <2>4. holderOf' = [holderOf EXCEPT ![u] = nextGeneration + 1]
    BY <2>1, <2>2 DEF holderOf, Present
  <2>5. phaseOf[u] # "active"
    BY <2>1 DEF phaseOf
  <2>6. Lifecycle!Take(u)
    BY <2>1, <2>3, <2>4, <2>5 DEF Lifecycle!Take
  <2>7. QED
    BY <2>1, <2>6 DEF Lifecycle!Next
<1>2. ASSUME NEW c \in Conn, FinishSocket(c)
      PROVE  Lifecycle!Next \/ UNCHANGED Lifecycle!absVars
  <2> DEFINE u == identity[c].uid
  <2>1. nextGeneration' = nextGeneration
    BY <1>2 DEF FinishSocket, mark_disconnected_if_generation, registryVars
  <2>2. CASE UNCHANGED reg
    BY <2>1, <2>2
    DEF Lifecycle!absVars, phaseOf, holderOf, IsActive, Present
  <2>3. CASE ~UNCHANGED reg
    <3>1. /\ u \in Uid
          /\ IsActive(u)
          /\ reg'[u] # None
          /\ reg'[u].state = "Disconnected"
          /\ reg'[u].generation = reg[u].generation
      BY <1>2, <2>3, FinishedSocket
    <3>2. \A v \in Uid : v # u => reg'[v] = reg[v]
      BY <1>2, <2>3, FinishedSocket
    <3>3. phaseOf' = [phaseOf EXCEPT ![u] = "suspended"]
      BY <3>1, <3>2 DEF phaseOf, IsActive, Present
    <3>4. holderOf' = holderOf
      BY <3>1, <3>2 DEF holderOf, IsActive, Present
    <3>5. phaseOf[u] = "active"
      BY <3>1 DEF phaseOf
    <3>6. Lifecycle!Suspend(u)
      BY <2>1, <3>3, <3>4, <3>5 DEF Lifecycle!Suspend
    <3>7. QED
      BY <3>1, <3>6 DEF Lifecycle!Next
  <2>4. QED
    BY <2>2, <2>3
<1>3. ASSUME \A c \in Conn : ~RegisterSession(c) /\ ~FinishSocket(c)
      PROVE  Lifecycle!Next
  <2> DEFINE S == {u \in Uid : reg'[u] = None}
  <2>1. \A u \in Uid : Kept(u)
    BY <1>3, RecordsKept
  <2>2. phaseOf' = [u \in Uid |-> IF u \in S THEN "gone" ELSE phaseOf[u]]
    BY <2>1 DEF Kept, phaseOf, IsActive, Present
  <2>3. holderOf' = [u \in Uid |-> IF u \in S THEN 0 ELSE holderOf[u]]
    BY <2>1 DEF Kept, holderOf, Present
  <2>4. nextGeneration' = nextGeneration
    BY <1>3, GenerationKept
  <2>5. Lifecycle!Finish(S)
    BY <2>2, <2>3, <2>4 DEF Lifecycle!Finish
  <2>6. S \in SUBSET Uid
    OBVIOUS
  <2>7. QED
    BY <2>5, <2>6 DEF Lifecycle!Next
<1>4. QED
  BY <1>1, <1>2, <1>3

\* The registry implements SessionLifecycle: no registration takes an Active uid
\* over, a generation is issued once, a suspension keeps it.
THEOREM RegistryImplementsLifecycle == Spec => LifecycleSpec
<1>1. Init => Lifecycle!Init
  BY DEF Init, Lifecycle!Init, phaseOf, holderOf, IsActive, Present
<1>2. OwnershipInv /\ [Next]_vars => [Lifecycle!Next]_(Lifecycle!absVars)
  BY LifecycleStep
<1>3. QED
  BY <1>1, <1>2, RegistryOwnership, PTL DEF Spec, LifecycleSpec, Lifecycle!Spec

-----------------------------------------------------------------------------
(* Who publishes tools, and where *)

\* A connection task that has a session and has not ended
Serving(c) ==
    identity[c] # None /\ task[c] \in {"open", "publishing", "leaving", "torn"}

\* Its session is Active and its record names it.
Served(c) ==
    LET r == reg[identity[c].uid] IN
    r # None /\ r.state = "Active" /\ r.connection = c

\* Connections have generations of their own.
IdentityInv ==
    /\ \A c \in Conn : identity[c] # None => identity[c].generation <= nextGeneration
    /\ \A c, d \in Conn :
         /\ identity[c] # None /\ identity[d] # None
         /\ identity[c].generation = identity[d].generation
         => c = d

\* A connection with a session is the one its record names, unless a shutdown
\* took the record from under it: the converse of ActiveHasOwner.
ServingOwns == \A c \in Conn : Serving(c) => Served(c) \/ c \in shutDown

\* Whoever published the tools of a session had registered it.
FromOwn ==
    \A u \in Uid : Present(u) =>
        /\ Identified(reg[u].toolsFrom)
        /\ identity[reg[u].toolsFrom] # None => identity[reg[u].toolsFrom].uid = u

\* What a task is about to write to the tools cache is in the record that has its
\* tools from it.
PublishesOwn ==
    \A c \in Conn, u \in Uid :
        /\ task[c] = "publishing"
        /\ Present(u)
        /\ reg[u].toolsFrom = c
        => reg[u].tools = request[c].tools /\ reg[u].config = request[c].config

\* A cache that is off has no entries.
DisabledIsEmpty == CacheEnabled \/ \A f \in Config : cache[f] = None

PublishInv ==
    /\ IdentityInv
    /\ ServingOwns
    /\ FromOwn
    /\ PublishesOwn
    /\ DisabledIsEmpty
    /\ ToolsFromOwner
    /\ CacheFollowsLive

\* Suspension, calls and time leave what a record publishes alone; update_tools
\* replaces the list and who it is from.
LEMMA ToolsOfRecord ==
    ASSUME NEW r \in SessionRecord, NEW t \in Tools, NEW c \in Conn
    PROVE  /\ Suspended(r).tools = r.tools /\ Suspended(r).toolsFrom = r.toolsFrom
           /\ Suspended(r).config = r.config
           /\ Called(r).tools = r.tools /\ Called(r).toolsFrom = r.toolsFrom
           /\ Called(r).config = r.config
           /\ Aged(r).tools = r.tools /\ Aged(r).toolsFrom = r.toolsFrom
           /\ Aged(r).config = r.config
           /\ WithTools(r, t, c).tools = t /\ WithTools(r, t, c).toolsFrom = c
           /\ WithTools(r, t, c).config = r.config
BY DEF Suspended, Called, Aged, WithTools, SessionRecord

\* What the record of u publishes is what it published before.
SameTools(u) ==
    /\ reg[u] # None
    /\ reg'[u].tools = reg[u].tools
    /\ reg'[u].toolsFrom = reg[u].toolsFrom
    /\ reg'[u].config = reg[u].config

\* Only a registration and a session.tools_changed change what a session
\* publishes.
LEMMA ToolsKept ==
    ASSUME TypeOK, [Next]_vars,
           \A c \in Conn : ~RegisterSession(c),
           \A c \in Conn, t \in Tools : ~ReceiveToolsChanged(c, t),
           NEW u \in Uid, reg'[u] # None
    PROVE  SameTools(u)
<1> USE ConstantsAssumption DEF TypeOK, registryVars, SameTools
<1>1. reg[u] # None => reg[u] \in SessionRecord
  OBVIOUS
<1>2. ASSUME NEW c \in Conn, FinishSocket(c) PROVE SameTools(u)
  <2>1. reg'[u] = reg[u] \/ (reg[u] # None /\ reg'[u] = Suspended(reg[u]))
    BY <1>2 DEF FinishSocket, mark_disconnected_if_generation, IsActive, Present
  <2>2. reg[u] # None => /\ Suspended(reg[u]).tools = reg[u].tools
                         /\ Suspended(reg[u]).toolsFrom = reg[u].toolsFrom
                         /\ Suspended(reg[u]).config = reg[u].config
    BY <1>1 DEF Suspended, SessionRecord
  <2>3. QED
    BY <2>1, <2>2
<1>3. ASSUME NEW c \in Conn, ReceiveBye(c) PROVE SameTools(u)
  BY <1>3 DEF ReceiveBye, remove_if_generation
<1>4. ASSUME NEW k \in Call, BumpLastCall(k) PROVE SameTools(u)
  <2>1. reg'[u] = reg[u] \/ (reg[u] # None /\ reg'[u] = Called(reg[u]))
    BY <1>4 DEF BumpLastCall, Present
  <2>2. reg[u] # None => /\ Called(reg[u]).tools = reg[u].tools
                         /\ Called(reg[u]).toolsFrom = reg[u].toolsFrom
                         /\ Called(reg[u]).config = reg[u].config
    BY <1>1 DEF Called, SessionRecord
  <2>3. QED
    BY <2>1, <2>2
<1>5. CASE RemoveShutDown \/ sweep_expired_disconnects
  BY <1>5 DEF RemoveShutDown, remove_if_generation, sweep_expired_disconnects
<1>6. CASE Tick
  <2>1. reg[u] # None /\ reg'[u] = Aged(reg[u])
    BY <1>6 DEF Tick, Present
  <2>2. /\ Aged(reg[u]).tools = reg[u].tools /\ Aged(reg[u]).toolsFrom = reg[u].toolsFrom
        /\ Aged(reg[u]).config = reg[u].config
    BY <1>1, <2>1 DEF Aged, SessionRecord
  <2>3. QED
    BY <2>1, <2>2
<1>7. CASE UNCHANGED reg
  BY <1>7
<1>8. QED
  BY <1>2, <1>3, <1>4, <1>5, <1>6, <1>7
  DEF Next, TaskStep, ClientStep, RejectCollision, UpsertToolsCache, DropOutbound,
      OpenSocket, ReceiveRegister, LoseSocket, CallStep, RouteCall, AdmitCall,
      EndCall, SnapshotIdle, ShutdownStep, BeginShutdown, EndShutdownCall,
      ForgetCached, vars

\* What a registration puts into the record.
LEMMA RegisteredTools ==
    ASSUME TypeOK, TaskInv, NEW c \in Conn, RegisterSession(c)
    PROVE  LET u == request[c].uid IN
           /\ reg'[u].tools = request[c].tools
           /\ reg'[u].toolsFrom = c
           /\ reg'[u].config = request[c].config
<1> USE ConstantsAssumption DEF TypeOK
<1>1. request[c].uid \in Uid
  BY RegisteredRecord
<1>2. QED
  BY <1>1 DEF RegisterSession, register_with_generation, NewRecord

\* What session.tools_changed does: nothing, or a new list for the session of
\* the connection, which is then to be written to the cache.
LEMMA PublishedTools ==
    ASSUME TypeOK, NEW c \in Conn, NEW t \in Tools, ReceiveToolsChanged(c, t)
    PROVE  LET u == identity[c].uid IN
           /\ task[c] = "open" /\ identity[c] # None /\ u \in Uid
           /\ UNCHANGED <<cache, identity, shutDown>>
           /\ \/ UNCHANGED <<reg, task, request>>
              \/ /\ reg[u] # None /\ reg'[u] # None
                 /\ reg'[u].tools = t
                 /\ reg'[u].toolsFrom = c
                 /\ \A v \in Uid : v # u => reg'[v] = reg[v]
                 /\ task' = [task EXCEPT ![c] = "publishing"]
                 /\ request'[c].tools = t
                 /\ request'[c].config = reg'[u].config
                 /\ \A d \in Conn \ {c} : request'[d] = request[d]
<1> DEFINE u == identity[c].uid
<1> USE ConstantsAssumption DEF TypeOK
<1>1. /\ task[c] = "open" /\ identity[c] # None
      /\ UNCHANGED <<cache, identity, shutDown>>
  BY DEF ReceiveToolsChanged
<1>2. u \in Uid
  BY <1>1 DEF ConnectionIdentity
<1>3. CASE Present(u) /\ reg[u].tools # t
  <2> DEFINE q == [uid |-> u, config |-> reg[u].config, tools |-> t]
  <2>1. reg[u] \in SessionRecord
    BY <1>2, <1>3 DEF Present
  <2>2. /\ reg' = [reg EXCEPT ![u] = WithTools(reg[u], t, c)]
        /\ task' = [task EXCEPT ![c] = "publishing"]
        /\ request' = [request EXCEPT ![c] = q]
    BY <1>3 DEF ReceiveToolsChanged, update_tools
  <2>3. /\ WithTools(reg[u], t, c) # None
        /\ WithTools(reg[u], t, c).tools = t
        /\ WithTools(reg[u], t, c).toolsFrom = c
        /\ WithTools(reg[u], t, c).config = reg[u].config
    BY <2>1, WithToolsType, ToolsOfRecord
  <2>4. reg'[u] = WithTools(reg[u], t, c) /\ \A v \in Uid : v # u => reg'[v] = reg[v]
    BY <1>2, <2>2
  <2>5. reg[u] # None
    BY <1>3 DEF Present
  <2>6. q.config = reg[u].config /\ q.tools = t
    OBVIOUS
  <2> HIDE DEF q
  <2>7. request'[c] = q /\ \A d \in Conn \ {c} : request'[d] = request[d]
    BY <2>2
  <2>8. QED
    BY <1>1, <1>2, <2>2, <2>3, <2>4, <2>5, <2>6, <2>7
<1>4. CASE ~(Present(u) /\ reg[u].tools # t)
  BY <1>1, <1>2, <1>4 DEF ReceiveToolsChanged, update_tools
<1>5. QED
  BY <1>3, <1>4

\* Only a registration changes the counter or gives a connection an identity.
LEMMA IdentitiesKept ==
    ASSUME TypeOK, [Next]_vars, \A c \in Conn : ~RegisterSession(c)
    PROVE  \A d \in Conn : identity'[d] \in {None, identity[d]}
BY DEF TypeOK, Next, TaskStep, ClientStep, RejectCollision, UpsertToolsCache,
       DropOutbound, FinishSocket, OpenSocket, ReceiveRegister, ReceiveToolsChanged,
       ReceiveBye, LoseSocket, CallStep, RouteCall, BumpLastCall, AdmitCall, EndCall,
       SnapshotIdle, ShutdownStep, BeginShutdown, EndShutdownCall, RemoveShutDown,
       sweep_expired_disconnects, ForgetCached, Tick, vars, taskVars

\* Connections keep generations of their own.
LEMMA IdentityStep ==
    ASSUME OwnershipInv, IdentityInv, [Next]_vars
    PROVE  IdentityInv'
<1> USE DEF OwnershipInv
<1>0. /\ nextGeneration \in Nat
      /\ \A c \in Conn : identity[c] # None => identity[c].generation \in Nat
  BY DEF TypeOK, ConnectionIdentity, Generation
<1>1. ASSUME NEW c \in Conn, RegisterSession(c) PROVE IdentityInv'
  <2>1. /\ nextGeneration' = nextGeneration + 1
        /\ identity'[c] = [uid |-> request[c].uid, generation |-> nextGeneration + 1]
        /\ \A d \in Conn \ {c} : identity'[d] = identity[d]
    BY <1>1, RegisteredRecord
  <2>2. identity'[c].generation = nextGeneration + 1
    BY <2>1
  <2>3. \A d \in Conn \ {c} : identity'[d] # None =>
            identity'[d].generation <= nextGeneration /\ identity'[d].generation \in Nat
    BY <1>0, <2>1 DEF IdentityInv
  <2>4. QED
    BY <1>0, <2>1, <2>2, <2>3 DEF IdentityInv
<1>2. CASE \A c \in Conn : ~RegisterSession(c)
  <2>1. \A d \in Conn : identity'[d] \in {None, identity[d]}
    BY <1>2, IdentitiesKept
  <2>2. nextGeneration' = nextGeneration
    BY <1>2, GenerationKept
  <2>3. QED
    BY <2>1, <2>2 DEF IdentityInv
<1>3. QED
  BY <1>1, <1>2

\* A shutdown that removes an Active record notes its connection.
LEMMA ShutDownGrows ==
    ASSUME [Next]_vars
    PROVE  shutDown \subseteq shutDown'
BY DEF Next, TaskStep, ClientStep, RegisterSession, RejectCollision, UpsertToolsCache,
       DropOutbound, FinishSocket, OpenSocket, ReceiveRegister, ReceiveToolsChanged,
       ReceiveBye, LoseSocket, CallStep, RouteCall, BumpLastCall, AdmitCall, EndCall,
       SnapshotIdle, ShutdownStep, BeginShutdown, EndShutdownCall, RemoveShutDown,
       sweep_expired_disconnects, ForgetCached, Tick, vars

\* The incarnation a connection serves is not the one of another connection.
LEMMA ServedIsOwn ==
    ASSUME OwnershipInv, IdentityInv, NEW c \in Conn, NEW d \in Conn, c # d,
           identity[c] # None, identity[d] # None, Served(d)
    PROVE  ~(/\ identity[c].uid = identity[d].uid
             /\ reg[identity[d].uid].generation = identity[c].generation)
<1>1. identity[d].uid \in Uid
  BY DEF OwnershipInv, TypeOK, ConnectionIdentity
<1>2. reg[identity[d].uid].generation = identity[d].generation
  BY <1>1 DEF OwnershipInv, ActiveHasOwner, Served, IsActive, Present, Owns
<1>3. QED
  BY <1>2 DEF IdentityInv

\* Two connections do not serve one session, whatever step is taken.
LEMMA ServingStep ==
    ASSUME OwnershipInv, IdentityInv, ServingOwns, [Next]_vars
    PROVE  ServingOwns'
<1> USE ConstantsAssumption DEF OwnershipInv
<1> SUFFICES ASSUME NEW d \in Conn, Serving(d)', d \notin shutDown'
             PROVE  Served(d)'
  BY DEF ServingOwns
<1>0. Serving(d) => Served(d) /\ identity[d].uid \in Uid
  BY ShutDownGrows DEF ServingOwns, Serving, TypeOK, ConnectionIdentity
<1>1. ASSUME Serving(d), identity'[d] = identity[d],
             reg'[identity[d].uid] = reg[identity[d].uid]
      PROVE  Served(d)'
  BY <1>0, <1>1 DEF Served
<1>2. ASSUME NEW c \in Conn, RegisterSession(c)
      PROVE  Served(d)'
  <2> DEFINE w == request[c].uid
  <2>1. /\ w \in Uid /\ ~IsActive(w)
        /\ reg'[w] \in SessionRecord
        /\ reg'[w].state = "Active" /\ reg'[w].connection = c
        /\ \A v \in Uid : v # w => reg'[v] = reg[v]
        /\ identity'[c] = [uid |-> w, generation |-> nextGeneration + 1]
        /\ \A b \in Conn \ {c} : identity'[b] = identity[b]
    BY <1>2, RegisteredRecord
  <2>2. CASE d = c
    <3>1. identity'[d].uid = w
      BY <2>1, <2>2
    <3>2. QED
      BY <2>1, <2>2, <3>1 DEF Served
  <2>3. CASE d # c
    <3>1. task'[d] = task[d] /\ identity'[d] = identity[d]
      BY <1>2, <2>1, <2>3 DEF RegisterSession, TypeOK
    <3>2. Serving(d)
      BY <3>1 DEF Serving
    <3>3. identity[d].uid # w
      BY <1>0, <2>1, <3>2 DEF Served, IsActive, Present
    <3>4. QED
      BY <1>0, <1>1, <2>1, <3>1, <3>2, <3>3
  <2>4. QED
    BY <2>2, <2>3
<1>3. ASSUME NEW c \in Conn, FinishSocket(c)
      PROVE  Served(d)'
  <2>1. d # c
    BY <1>3 DEF FinishSocket, Serving, TypeOK
  <2>2. identity' = identity /\ task'[d] = task[d]
    BY <1>3, <2>1 DEF FinishSocket, TypeOK
  <2>3. Serving(d)
    BY <2>2 DEF Serving
  <2>4. reg'[identity[d].uid] = reg[identity[d].uid]
    BY <1>0, <1>3, <2>1, <2>3, FinishedSocket, ServedIsOwn DEF Serving
  <2>5. QED
    BY <1>1, <2>2, <2>3, <2>4
<1>4. ASSUME NEW c \in Conn, ReceiveBye(c)
      PROVE  Served(d)'
  <2>1. d # c
    BY <1>4 DEF ReceiveBye, Serving, TypeOK
  <2>2. identity'[d] = identity[d] /\ task'[d] = task[d]
    BY <1>4, <2>1 DEF ReceiveBye, TypeOK
  <2>3. Serving(d)
    BY <2>2 DEF Serving
  <2>4. identity[c] # None =>
          ~(/\ identity[c].uid = identity[d].uid
            /\ reg[identity[d].uid].generation = identity[c].generation)
    BY <1>0, <2>1, <2>3, ServedIsOwn DEF Serving
  <2>5. reg'[identity[d].uid] = reg[identity[d].uid]
    BY <1>0, <1>4, <2>3, <2>4 DEF ReceiveBye, remove_if_generation, registryVars, TypeOK
  <2>6. QED
    BY <1>1, <2>2, <2>3, <2>5
<1>5. CASE sweep_expired_disconnects
  <2>1. UNCHANGED <<identity, task>>
    BY <1>5 DEF sweep_expired_disconnects, taskVars
  <2>2. Serving(d)
    BY <2>1 DEF Serving
  <2>3. identity[d].uid \notin Expired
    BY <1>0, <2>2 DEF Served, Expired, IsDisconnected
  <2>4. reg'[identity[d].uid] = reg[identity[d].uid]
    BY <1>0, <1>5, <2>2, <2>3 DEF sweep_expired_disconnects
  <2>5. QED
    BY <1>1, <2>1, <2>2, <2>4
<1>6. CASE RemoveShutDown
  <2>1. UNCHANGED <<identity, task>>
    BY <1>6 DEF RemoveShutDown, taskVars
  <2>2. Serving(d)
    BY <2>1 DEF Serving
  <2> DEFINE u == identity[d].uid
  <2>3. ~(sweeper.uid = u /\ reg[u].generation = sweeper.generation)
    BY <1>0, <1>6, <2>2 DEF RemoveShutDown, Served, IsActive, Present
  <2>4. reg'[u] = reg[u]
    BY <1>0, <1>6, <2>2, <2>3 DEF RemoveShutDown, remove_if_generation, TypeOK
  <2>5. QED
    BY <1>1, <2>1, <2>2, <2>4
<1>7. ASSUME \A c \in Conn : ~RegisterSession(c) /\ ~FinishSocket(c) /\ ~ReceiveBye(c),
             ~sweep_expired_disconnects, ~RemoveShutDown
      PROVE  Served(d)'
  <2>1. identity' = identity
    BY <1>7 DEF Next, TaskStep, ClientStep, RejectCollision, UpsertToolsCache,
       DropOutbound, OpenSocket, ReceiveRegister, ReceiveToolsChanged, LoseSocket,
       CallStep, RouteCall, BumpLastCall, AdmitCall, EndCall, SnapshotIdle, ShutdownStep,
       BeginShutdown, EndShutdownCall, ForgetCached, Tick, vars, taskVars
  <2>2. Serving(d)
    <3>1. ASSUME NEW c \in Conn, TaskStep(c) PROVE Serving(d)
      BY <1>7, <2>1, <3>1 DEF Serving, TypeOK, TaskInv, TaskStep, RejectCollision,
         UpsertToolsCache, DropOutbound
    <3>2. ASSUME NEW c \in Conn, ClientStep(c) PROVE Serving(d)
      BY <1>7, <2>1, <3>2 DEF Serving, TypeOK, TaskInv, ClientStep, OpenSocket,
         ReceiveRegister, ReceiveToolsChanged, LoseSocket
    <3>3. CASE task' = task
      BY <2>1, <3>3 DEF Serving
    <3>4. QED
      BY <1>7, <3>1, <3>2, <3>3 DEF Next, CallStep, RouteCall, BumpLastCall, AdmitCall,
         EndCall, SnapshotIdle, ShutdownStep, BeginShutdown, EndShutdownCall,
         ForgetCached, Tick, vars, taskVars
  <2> DEFINE u == identity[d].uid
  <2>3. /\ reg[u] # None /\ reg[u].state = "Active" /\ reg[u].connection = d
        /\ u \in Uid
    BY <1>0, <2>2 DEF Served
  <2>4. reg'[u] # None
    BY <1>7, <2>3, RecordsRemain
  <2>5. Kept(u)
    BY <1>7, <2>3, RecordsKept
  <2>6. QED
    BY <2>1, <2>3, <2>4, <2>5 DEF Kept, Served
<1>8. QED
  BY <1>2, <1>3, <1>4, <1>5, <1>6, <1>7

\* The publisher of a session's tools stays one that has registered it.
LEMMA FromOwnStep ==
    ASSUME OwnershipInv, FromOwn, [Next]_vars
    PROVE  FromOwn'
<1> USE DEF OwnershipInv
<1> SUFFICES ASSUME NEW u \in Uid, reg'[u] # None, NEW d, d = reg'[u].toolsFrom
             PROVE  /\ Identified(d)'
                    /\ identity'[d] # None => identity'[d].uid = u
  BY DEF FromOwn, Present, Identified
<1> DEFINE Good == Identified(d)' /\ (identity'[d] # None => identity'[d].uid = u)
<1>0. ASSUME reg[u] # None, d = reg[u].toolsFrom
      PROVE  Good
  <2>1. d \in Conn
    BY <1>0 DEF TypeOK, SessionRecord
  <2>2. Identified(d) /\ (identity[d] # None => identity[d].uid = u)
    BY <1>0 DEF FromOwn, Present
  <2>3. Identified(d)' /\ identity'[d] \in {None, identity[d]}
    BY <2>1, <2>2, IdentifiedStays
  <2>4. QED
    BY <2>2, <2>3
<1>1. ASSUME NEW c \in Conn, RegisterSession(c) PROVE Good
  <2> DEFINE w == request[c].uid
  <2>1. /\ \A v \in Uid : v # w => reg'[v] = reg[v]
        /\ identity'[c] # None
        /\ identity'[c] = [uid |-> w, generation |-> nextGeneration + 1]
    BY <1>1, RegisteredRecord
  <2>2. CASE u = w
    <3>1. d = c
      BY <1>1, <2>2, RegisteredTools
    <3>2. identity'[c].uid = u
      BY <2>1, <2>2
    <3>3. QED
      BY <2>1, <3>1, <3>2 DEF Identified
  <2>3. CASE u # w
    BY <1>0, <2>1, <2>3
  <2>4. QED
    BY <2>2, <2>3
<1>2. ASSUME NEW c \in Conn, NEW t \in Tools, ReceiveToolsChanged(c, t) PROVE Good
  <2>1. CASE reg'[u] = reg[u]
    BY <1>0, <2>1
  <2>2. CASE reg'[u] # reg[u]
    <3>1. /\ u = identity[c].uid /\ d = c
          /\ identity' = identity /\ identity[c] # None
      BY <1>2, <2>2, PublishedTools
    <3>2. QED
      BY <3>1 DEF Identified
  <2>3. QED
    BY <2>1, <2>2
<1>3. ASSUME \A c \in Conn : ~RegisterSession(c),
             \A c \in Conn, t \in Tools : ~ReceiveToolsChanged(c, t)
      PROVE  Good
  BY <1>0, <1>3, ToolsKept DEF SameTools
<1>4. QED
  BY <1>1, <1>2, <1>3

\* The tools of an Active record come from its own connection or from one that a
\* shutdown has separated from its session.
LEMMA ToolsFromOwnerStep ==
    ASSUME OwnershipInv, ServingOwns, ToolsFromOwner, [Next]_vars
    PROVE  ToolsFromOwner'
<1> USE DEF OwnershipInv
<1> DEFINE Good(u) == \/ reg'[u].toolsFrom = reg'[u].connection
                      \/ reg'[u].toolsFrom \in shutDown'
<1> SUFFICES ASSUME NEW u \in Uid, IsActive(u)'
             PROVE  Good(u)
  BY DEF ToolsFromOwner
<1>0. ASSUME IsActive(u), reg'[u].toolsFrom = reg[u].toolsFrom,
             reg'[u].connection = reg[u].connection
      PROVE  Good(u)
  BY <1>0, ShutDownGrows DEF ToolsFromOwner
<1>1. ASSUME NEW c \in Conn, RegisterSession(c) PROVE Good(u)
  <2> DEFINE w == request[c].uid
  <2>1. reg'[w].connection = c /\ \A v \in Uid : v # w => reg'[v] = reg[v]
    BY <1>1, RegisteredRecord
  <2>2. reg'[w].toolsFrom = c
    BY <1>1, RegisteredTools
  <2>3. u # w => IsActive(u)
    BY <2>1 DEF IsActive, Present
  <2>4. QED
    BY <1>0, <2>1, <2>2, <2>3
<1>2. ASSUME NEW c \in Conn, NEW t \in Tools, ReceiveToolsChanged(c, t) PROVE Good(u)
  <2>1. /\ Serving(c)
        /\ shutDown' = shutDown
    BY <1>2, PublishedTools DEF Serving
  <2>2. \A d \in Conn : ~RegisterSession(d) /\ ~FinishSocket(d)
    <3>1. UNCHANGED task \/ task' = [task EXCEPT ![c] = "publishing"]
      BY <1>2, PublishedTools
    <3>2. task[c] = "open" /\ UNCHANGED identity
      BY <1>2, PublishedTools
    <3>3. ASSUME NEW d \in Conn, RegisterSession(d) PROVE FALSE
      BY <3>2, <3>3, RegisteredRecord
    <3>4. ASSUME NEW d \in Conn, FinishSocket(d) PROVE FALSE
      BY <3>1, <3>2, <3>4 DEF FinishSocket, TypeOK
    <3>5. QED
      BY <3>3, <3>4
  <2>3. IsActive(u) /\ reg'[u].connection = reg[u].connection
    BY <2>2, RecordsKept DEF Kept, IsActive, Present
  <2>4. CASE reg'[u] = reg[u]
    BY <1>0, <2>3, <2>4
  <2>5. CASE reg'[u] # reg[u]
    <3>1. u = identity[c].uid /\ reg'[u].toolsFrom = c
      BY <1>2, <2>5, PublishedTools
    <3>2. reg[u].connection = c \/ c \in shutDown
      BY <2>1, <3>1 DEF ServingOwns, Served
    <3>3. QED
      BY <2>1, <2>3, <3>1, <3>2
  <2>6. QED
    BY <2>4, <2>5
<1>3. ASSUME \A c \in Conn : ~RegisterSession(c),
             \A c \in Conn, t \in Tools : ~ReceiveToolsChanged(c, t)
      PROVE  Good(u)
  <2>1. reg[u] # None /\ reg'[u].toolsFrom = reg[u].toolsFrom
    BY <1>3, ToolsKept DEF SameTools, IsActive, Present
  <2>2. ASSUME NEW c \in Conn, FinishSocket(c) PROVE reg'[u] = reg[u]
    BY <2>2, FinishedSocket DEF IsActive, Present
  <2>3. CASE \A c \in Conn : ~FinishSocket(c)
    <3>1. IsActive(u) /\ reg'[u].connection = reg[u].connection
      BY <1>3, <2>3, RecordsKept DEF Kept, IsActive, Present
    <3>2. QED
      BY <1>0, <2>1, <3>1
  <2>4. CASE reg'[u] = reg[u]
    BY <1>0, <2>4 DEF IsActive, Present
  <2>5. QED
    BY <2>2, <2>3, <2>4
<1>4. QED
  BY <1>1, <1>2, <1>3

\* The steps other than these leave tasks that publish and their requests as they
\* are.
LEMMA PublishersKept ==
    ASSUME TypeOK, [Next]_vars,
           \A c \in Conn : ~RegisterSession(c) /\ ~UpsertToolsCache(c),
           \A c \in Conn, t \in Tools : ~ReceiveToolsChanged(c, t)
    PROVE  \A c \in Conn :
             /\ task'[c] = "publishing" <=> task[c] = "publishing"
             /\ task[c] = "publishing" => request'[c] = request[c]
<1> DEFINE Same ==
      \A c \in Conn :
        /\ task'[c] = "publishing" <=> task[c] = "publishing"
        /\ task[c] = "publishing" => request'[c] = request[c]
<1>1. ASSUME NEW c \in Conn, TaskStep(c) PROVE Same
  BY <1>1 DEF TypeOK, TaskStep, RejectCollision, DropOutbound, FinishSocket
<1>2. ASSUME NEW c \in Conn, ClientStep(c) PROVE Same
  BY <1>2 DEF TypeOK, ClientStep, OpenSocket, ReceiveRegister, ReceiveBye, LoseSocket
<1>3. CASE UNCHANGED <<task, request>>
  BY <1>3
<1>4. QED
  BY <1>1, <1>2, <1>3 DEF Next, CallStep, RouteCall, BumpLastCall, AdmitCall, EndCall,
     SnapshotIdle, ShutdownStep, BeginShutdown, EndShutdownCall, RemoveShutDown,
     sweep_expired_disconnects, ForgetCached, Tick, vars, taskVars

\* Nor do the steps other than these write to the cache; a reset or an expiry
\* takes entries away.
LEMMA CacheKept ==
    ASSUME TypeOK, [Next]_vars, \A c \in Conn : ~UpsertToolsCache(c)
    PROVE  \A f \in Config : cache'[f] \in {None, cache[f]}
<1>1. CASE \E F \in SUBSET Config : ForgetCached(F)
  BY <1>1 DEF ForgetCached
<1>2. CASE cache' = cache
  BY <1>2
<1>3. QED
  BY <1>1, <1>2 DEF Next, TaskStep, ClientStep, RegisterSession, RejectCollision,
     DropOutbound, FinishSocket, OpenSocket, ReceiveRegister, ReceiveToolsChanged,
     ReceiveBye, LoseSocket, CallStep, RouteCall, BumpLastCall, AdmitCall, EndCall,
     SnapshotIdle, ShutdownStep, BeginShutdown, EndShutdownCall, RemoveShutDown,
     sweep_expired_disconnects, Tick, vars

\* A cache that is off stays empty.
LEMMA DisabledStep ==
    ASSUME OwnershipInv, DisabledIsEmpty, [Next]_vars
    PROVE  DisabledIsEmpty'
<1>1. ASSUME NEW c \in Conn, UpsertToolsCache(c) PROVE DisabledIsEmpty'
  BY <1>1 DEF UpsertToolsCache, DisabledIsEmpty
<1>2. CASE \A c \in Conn : ~UpsertToolsCache(c)
  BY <1>2, CacheKept DEF OwnershipInv, DisabledIsEmpty
<1>3. QED
  BY <1>1, <1>2

\* A connection that registers has published nothing before.
LEMMA NothingPublished ==
    ASSUME TaskInv, FromOwn, NEW c \in Conn, RegisterSession(c), NEW u \in Uid,
           reg[u] # None
    PROVE  reg[u].toolsFrom # c
BY DEF FromOwn, Identified, TaskInv, RegisterSession, Present

\* What a task is about to write stays what the record holds, as long as the
\* record has its tools from that task.
LEMMA PublishesOwnStep ==
    ASSUME OwnershipInv, FromOwn, PublishesOwn, [Next]_vars
    PROVE  PublishesOwn'
<1> USE DEF OwnershipInv
<1> SUFFICES ASSUME NEW d \in Conn, NEW u \in Uid, task'[d] = "publishing",
                    reg'[u] # None, reg'[u].toolsFrom = d
             PROVE  /\ reg'[u].tools = request'[d].tools
                    /\ reg'[u].config = request'[d].config
  BY DEF PublishesOwn, Present
<1> DEFINE Good == /\ reg'[u].tools = request'[d].tools
                   /\ reg'[u].config = request'[d].config
<1>0. ASSUME task[d] = "publishing", request'[d] = request[d], SameTools(u)
      PROVE  Good
  BY <1>0 DEF PublishesOwn, SameTools, Present
<1>1. ASSUME NEW c \in Conn, RegisterSession(c) PROVE Good
  <2> DEFINE w == request[c].uid
  <2>1. request' = request
    BY <1>1 DEF RegisterSession
  <2>2. CASE u = w
    <3>1. reg'[u].toolsFrom = c /\ reg'[u].tools = request[c].tools
          /\ reg'[u].config = request[c].config
      BY <1>1, <2>2, RegisteredTools
    <3>2. QED
      BY <2>1, <3>1
  <2>3. CASE u # w
    <3>1. reg'[u] = reg[u]
      BY <1>1, <2>3, RegisteredRecord
    <3>2. d # c
      BY <1>1, <3>1, NothingPublished
    <3>3. task[d] = "publishing"
      BY <1>1, <3>2 DEF RegisterSession, TypeOK
    <3>4. QED
      BY <1>0, <2>1, <3>1, <3>3 DEF SameTools
  <2>4. QED
    BY <2>2, <2>3
<1>2. ASSUME NEW c \in Conn, NEW t \in Tools, ReceiveToolsChanged(c, t) PROVE Good
  <2> DEFINE w == identity[c].uid
  <2>1. CASE UNCHANGED <<reg, task, request>>
    BY <1>0, <2>1 DEF SameTools
  <2>2. CASE ~UNCHANGED <<reg, task, request>>
    <3>1. /\ reg'[w].tools = t /\ reg'[w].toolsFrom = c
          /\ \A v \in Uid : v # w => reg'[v] = reg[v]
          /\ identity[c] # None
          /\ task' = [task EXCEPT ![c] = "publishing"]
          /\ request'[c].tools = t /\ request'[c].config = reg'[w].config
          /\ \A b \in Conn \ {c} : request'[b] = request[b]
      BY <1>2, <2>2, PublishedTools
    <3>2. CASE u = w
      BY <3>1, <3>2
    <3>3. CASE u # w
      <4>1. reg'[u] = reg[u] /\ reg[u] # None
        BY <3>1, <3>3
      <4>2. d # c
        BY <3>1, <3>3, <4>1 DEF FromOwn, Present
      <4>3. task[d] = "publishing" /\ request'[d] = request[d]
        BY <3>1, <4>2 DEF TypeOK
      <4>4. QED
        BY <1>0, <4>1, <4>3 DEF SameTools
    <3>4. QED
      BY <3>2, <3>3
  <2>3. QED
    BY <2>1, <2>2
<1>3. ASSUME NEW c \in Conn, UpsertToolsCache(c) PROVE Good
  <2>1. d # c
    BY <1>3 DEF UpsertToolsCache, TypeOK
  <2>2. task[d] = "publishing" /\ request'[d] = request[d] /\ reg' = reg
    BY <1>3, <2>1 DEF UpsertToolsCache, TypeOK
  <2>3. QED
    BY <1>0, <2>2 DEF SameTools
<1>4. ASSUME \A c \in Conn : ~RegisterSession(c) /\ ~UpsertToolsCache(c),
             \A c \in Conn, t \in Tools : ~ReceiveToolsChanged(c, t)
      PROVE  Good
  <2>1. task[d] = "publishing" /\ request'[d] = request[d]
    BY <1>4, PublishersKept
  <2>2. SameTools(u)
    BY <1>4, ToolsKept
  <2>3. QED
    BY <1>0, <2>1, <2>2
<1>5. QED
  BY <1>1, <1>2, <1>3, <1>4

\* The cache follows: a new list has a publisher, and the publisher writes what
\* the record holds.
LEMMA CacheStep ==
    ASSUME OwnershipInv, FromOwn, PublishesOwn, DisabledIsEmpty, CacheFollowsLive,
           [Next]_vars
    PROVE  CacheFollowsLive'
<1> USE ConstantsAssumption DEF OwnershipInv
<1> SUFFICES ASSUME NEW u \in Uid, reg'[u] # None,
                    NEW f, f = reg'[u].config,
                    NEW d, d = reg'[u].toolsFrom,
                    cache'[f] # None, cache'[f].from = d, task'[d] # "publishing"
             PROVE  cache'[f].tools = reg'[u].tools.public
  BY DEF CacheFollowsLive, Present
<1>0. ASSUME SameTools(u), cache'[f] = cache[f], task[d] # "publishing"
      PROVE  cache'[f].tools = reg'[u].tools.public
  BY <1>0 DEF CacheFollowsLive, Present, SameTools
<1>a. reg[u] # None => reg[u].config \in Config /\ reg[u].toolsFrom \in Conn
  BY DEF TypeOK, SessionRecord
<1>1. ASSUME NEW c \in Conn, RegisterSession(c)
      PROVE  cache'[f].tools = reg'[u].tools.public
  <2>1. /\ cache' = cache /\ task'[c] = "publishing"
        /\ \A b \in Conn \ {c} : task'[b] = task[b]
    BY <1>1 DEF RegisterSession, TypeOK
  <2>2. u # request[c].uid
    <3>1. reg'[request[c].uid].toolsFrom = c
      BY <1>1, RegisteredTools
    <3>2. QED
      BY <2>1, <3>1
  <2>3. reg'[u] = reg[u]
    <3>1. \A v \in Uid : v # request[c].uid => reg'[v] = reg[v]
      BY <1>1, RegisteredRecord
    <3>2. QED
      BY <2>2, <3>1
  <2>4. d # c
    BY <2>1
  <2>5. QED
    BY <1>0, <1>a, <2>1, <2>3, <2>4 DEF SameTools
<1>2. ASSUME NEW c \in Conn, NEW t \in Tools, ReceiveToolsChanged(c, t)
      PROVE  cache'[f].tools = reg'[u].tools.public
  <2>1. CASE UNCHANGED <<reg, task, request>>
    BY <1>0, <1>2, <2>1, PublishedTools DEF SameTools
  <2>2. CASE ~UNCHANGED <<reg, task, request>>
    <3> DEFINE w == identity[c].uid
    <3>1. /\ reg'[w].toolsFrom = c
          /\ \A v \in Uid : v # w => reg'[v] = reg[v]
          /\ task' = [task EXCEPT ![c] = "publishing"]
          /\ cache' = cache
      BY <1>2, <2>2, PublishedTools
    <3>2. task'[c] = "publishing" /\ \A b \in Conn \ {c} : task'[b] = task[b]
      BY <3>1 DEF TypeOK
    <3>3. u # w /\ d # c
      BY <3>1, <3>2
    <3>4. reg'[u] = reg[u]
      BY <3>1, <3>3
    <3>5. QED
      BY <1>0, <1>a, <3>1, <3>2, <3>3, <3>4 DEF SameTools
  <2>3. QED
    BY <2>1, <2>2
<1>3. ASSUME NEW c \in Conn, UpsertToolsCache(c)
      PROVE  cache'[f].tools = reg'[u].tools.public
  <2> DEFINE e == [tools |-> request[c].tools.public, from |-> c]
  <2>1. /\ task[c] = "publishing" /\ reg' = reg
        /\ \A b \in Conn \ {c} : task'[b] = task[b]
        /\ cache' = cache \/ cache' = [cache EXCEPT ![request[c].config] = e]
    BY <1>3 DEF UpsertToolsCache, TypeOK
  <2>2. SameTools(u) /\ f \in Config /\ d \in Conn
    BY <1>a, <2>1 DEF SameTools
  <2>3. e.tools = request[c].tools.public /\ e.from = c
    OBVIOUS
  <2> HIDE DEF e
  <2>4. CASE d = c
    <3>1. reg[u].tools = request[c].tools /\ f = request[c].config
      BY <2>1, <2>4 DEF PublishesOwn, Present
    <3>2. CASE CacheEnabled
      <4>1. cache' = [cache EXCEPT ![request[c].config] = e]
        BY <1>3, <3>2 DEF UpsertToolsCache, e
      <4>2. cache'[f] = e
        BY <2>2, <3>1, <4>1 DEF TypeOK
      <4>3. QED
        BY <2>1, <2>3, <3>1, <4>2
    <3>3. CASE ~CacheEnabled
      BY <1>3, <2>2, <3>3 DEF UpsertToolsCache, DisabledIsEmpty
    <3>4. QED
      BY <3>2, <3>3
  <2>5. CASE d # c
    <3>1. task[d] # "publishing"
      BY <2>1, <2>2, <2>5
    <3>2. cache'[f] = cache[f] \/ cache'[f] = e
      BY <2>1, <2>2 DEF TypeOK
    <3>3. cache'[f] = cache[f]
      BY <2>3, <2>5, <3>2
    <3>4. QED
      BY <1>0, <2>2, <3>1, <3>3
  <2>6. QED
    BY <2>4, <2>5
<1>4. ASSUME \A c \in Conn : ~RegisterSession(c) /\ ~UpsertToolsCache(c),
             \A c \in Conn, t \in Tools : ~ReceiveToolsChanged(c, t)
      PROVE  cache'[f].tools = reg'[u].tools.public
  <2>1. SameTools(u)
    BY <1>4, ToolsKept
  <2>2. f \in Config /\ d \in Conn
    BY <1>a, <2>1 DEF SameTools
  <2>3. cache'[f] = cache[f]
    BY <1>4, <2>2, CacheKept
  <2>4. task[d] # "publishing"
    BY <1>4, <2>2, PublishersKept
  <2>5. QED
    BY <1>0, <2>1, <2>3, <2>4
<1>5. QED
  BY <1>1, <1>2, <1>3, <1>4

\* Every list that is published comes from the connection of the session or from
\* one a shutdown has taken the session from, and what a connection writes to the
\* cache is what the session holds from it: PublishInv is inductive on top of
\* OwnershipInv, whether the idle sweeper is on or off.
THEOREM RegistryPublishes == Spec => []PublishInv
<1>1. Init => PublishInv
  <2> SUFFICES ASSUME Init PROVE PublishInv
    OBVIOUS
  <2>1. \A u \in Uid : ~Present(u)
    BY DEF Init, Present
  <2>2. \A c \in Conn : identity[c] = None /\ task[c] = "unopened"
    BY DEF Init
  <2>3. DisabledIsEmpty
    BY DEF Init, Restored, DisabledIsEmpty
  <2>4. QED
    BY <2>1, <2>2, <2>3 DEF PublishInv, IdentityInv, ServingOwns, Serving, FromOwn,
       PublishesOwn, ToolsFromOwner, CacheFollowsLive, IsActive
<1>2. OwnershipInv /\ PublishInv /\ [Next]_vars => PublishInv'
  BY IdentityStep, ServingStep, FromOwnStep, PublishesOwnStep, DisabledStep,
     ToolsFromOwnerStep, CacheStep DEF PublishInv
<1>3. QED
  BY <1>1, <1>2, RegistryOwnership, PTL DEF Spec

\* The tools of an Active session are those its own connection published, or those
\* of a socket that a shutdown separated from its session (update_tools names the
\* session by uid alone), for any number of uids, connections, configs and tool
\* lists and any idle timeout.
THEOREM RegistryToolsFromOwner == Spec => []ToolsFromOwner
<1>1. PublishInv => ToolsFromOwner
  BY DEF PublishInv
<1>2. QED
  BY <1>1, RegistryPublishes, PTL

\* Within one WebSocket session the cache does not lag behind the live session,
\* whatever other sessions share its config, whenever entries are reset or expire
\* and whether the idle sweeper is on or off (update_tools, upsert_tools_cache).
THEOREM RegistryCacheFollowsLive == Spec => []CacheFollowsLive
<1>1. PublishInv => CacheFollowsLive
  BY DEF PublishInv
<1>2. QED
  BY <1>1, RegistryPublishes, PTL
=============================================================================
