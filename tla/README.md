# A TLA+ model of the 1C session manager

This directory specifies and verifies the concurrent core of `v8-session-manager`: a daemon that takes
WebSocket connections from 1C clients, keeps a registry of their sessions and tools, and offers these
tools to AI agents over MCP, and the adapter that connects a stdio MCP server to it. Twelve modules model the
code, one the abstract life of a session, one holds operators on sequences, TLC checks them on small instances, and TLAPS proves the main
safety properties for every value of the constants. `PROJECT.json` maps every definition
to the source lines it stands for and lists runs, mutants, hazards, findings and theorems.

## 1. Inventory of the system

| Component | State | Operations | Works with |
|---|---|---|---|
| session registry (`session_manager/registry.rs`) | records by `client_uid` with state, generation, dispatcher, connection, tools, ages; `next_generation`; two `Notify` signals | `register_with_generation`, `mark_disconnected_if_generation`, `remove_if_generation`, `update_tools`, `bump_last_call`, `sweep_expired_disconnects` | transport, sweepers, tools/call, tools cache, notifier |
| WebSocket transport (`transport.rs`) | one task per socket with a `ConnectionContext` | register, bye, tools_changed, answers, teardown, keep-alive; the grace sweeper | registry, connection handle |
| dispatcher (`dispatcher.rs`) | `Semaphore(1)`, `inflight`, Open/Drained | `enqueue`, `drain` | connection handle, lifecycle |
| connection handle (`connection.rs`) | Active/Disconnected, table of pending requests, outbound sender, each behind its own lock | `dispatch_request`, `complete_response`, `cancel_pending`, `drain_pending` | dispatcher, transport, lifecycle |
| idle sweeper and shutdown (`lifecycle.rs`) | candidates of the current sweep | `sweep_once`, `shutdown_session` | registry, dispatcher, handle |
| notifier (`notify.rs`) | list of `Weak<Peer>` | `register_peer`, debounced `broadcast` | registry signal, MCP server |
| tools cache (`tools_cache.rs`, `support/atomic_write.rs`) | entries by `(kind, config_id)`, `tools_cache.json` | `upsert`, `list_all`, `reset_*`, lazy eviction, load | registry, MCP server, notifier |
| masking gate (`masking/gate.rs`, `client.rs`) | terminal outbox in memory and in a file, async lock | `preflight`, `finalize`, `record_terminal`, replay task, load | tools/call, masking service |
| MCP server (`mcp/server.rs`, `router.rs`, `management.rs`) | – (functions of a registry snapshot, a clone of a record across the preflight) | `list_tools`, `call_tool`, `session_list` | registry, dispatcher, masking gate, tools cache |
| internal endpoint (`masking/internal.rs`) | – | a call of the masking service for an internal tool of a base | registry, dispatcher |
| RAS lookup (`masking/ras.rs`, `identity.rs`) | cache with two TTLs | `resolve` under a deadline | transport (session.register), rac |
| HTTP front (`mcp/server.rs`) | reservations and confirmed MCP sessions | authorise, strip, reserve, confirm, release, delete, expire | rmcp's session manager |
| wire protocol (`protocol.rs`, `transport.rs`) | queue of outgoing messages, keep-alive | parse, answer, write, ping | connection task |
| process (`app.rs`, `config/*`, `mcp/server.rs`) | configuration, spawned tasks, cancel token | read, override, validate, start, stop | everything |
| stdio-ws adapter (`adapters/stdio-ws/provider.py`) | one SDK child (`dirty`, `invalid`), one `Provider` per route: pending call, tasks, binding, flags | `_dispatch_call`, cancel, shutdown, end of transport, `qualified_relay` | the manager over WebSocket, the child over stdio |
| adapter service (`service.py`) | current request, relay task, status | `begin`, `tick`, `finish`, `run` | owners through files, the adapter |

What makes it hard: every socket, agent call and sweeper is a tokio task of its own; a socket may be
lost at any await; a client may reconnect before its old task has noticed; `shutdown_session` and calls
hold *clones* of a record across seconds; the handle's three fields are locked one after the other;
cache and outbox are files that are written while others go on, and the process may die in between. The
adapter is one event loop in which the service, the relay, the reader and a task per call cancel each other,
and one child serves owners that must not see each other.

The properties that make the parts correct:

* registry: an Active record is held by a living task with its generation; ends come from the owner or
  from a shutdown of that generation; suspended sessions keep their grace period and then go; an old
  incarnation never damages the new one; tools and cache entry belong to the session shown.
* dispatcher and handle: one call at a time, in the order of arrival; permit, counter and pending entry
  are released on every way out; every waiter is woken.
* notifier: no change is forgotten; registered agents are told.
* tools cache: nothing expired is listed, nothing changes in silence.
* masking gate: what failed is on record, exactly once and in order, through crashes and through the
  conversion of a file of the previous format.
* routing: the list and the call agree; the base that was cleared is the base that is called; internal tools
  stay internal.
* RAS lookup: an identity, or the lack of one, is at most one life and one deadline old.
* HTTP front: the number of sessions is exact at its limit; no place is lost, none taken twice.
* wire: requests are answered once and in order, and a writer that stops has sent what was owed when it last looked.
* process: it serves with what it validated, and a stop ends.
* adapter: a call has one answer; nothing of one owner – a call, a connection – reaches the next.

## 2. Modules

| Module | Models | Proofs |
|---|---|---|
| `SessionLifecycle` | abstract specification: a uid is gone, active or suspended; only a free uid can be taken, with a generation never used before | – |
| `SessionRegistry` | registry, connection tasks, both sweepers, the part of tools/call that touches the registry; implements `SessionLifecycle` | `SessionRegistryProofs` |
| `SessionDispatcher` | one incarnation of a session: `enqueue`, `ConnectionHandle`, teardown, `shutdown_session` at the grain of single locks | `SessionDispatcherProofs` |
| `ToolsNotifier` | the signal, the debounced broadcast, registration of agents | `ToolsNotifierProofs` |
| `ToolsCache` | cache entries, file, crash and restart, concurrent operations | `ToolsCacheProofs` |
| `MaskingGate` | preflight – call – finalize, terminal outbox, replay task, crash and restart | `MaskingGateProofs` |
| `TerminalOutboxLoad` | loading and converting the outbox file, with failing writes and crashes | `SurfaceProofs` |
| `ProxyRouting` | tools/list, tools/call, session_list and the internal endpoint over a changing registry | `SurfaceProofs` |
| `RasResolver` | concurrent `resolve` of one cache key, rac that fails or hangs, an RAS that is edited | `SurfaceProofs` |
| `HttpAdmission` | the handler of an HTTP request, the session limit, dropped handlers, rmcp's sessions | `HttpAdmissionProofs` |
| `WireExchange` | reader and writer of one connection, frames of every shape | `SurfaceProofs` |
| `ManagerProcess` | configuration, start, failure and stop of the process, the idle sweeper it waits for | `SurfaceProofs` |
| `AdapterService` | `Provider`, `SharedSDK` and `Service` of the adapter: one child, one owner after the other | `AdapterServiceProofs` |
| `Places` | filtering a sequence by the positions that stay, for `TerminalOutboxLoad` and `WireExchange` | lemmas in `SurfaceProofs` |

`MC*.tla` instantiate them for TLC. `MCManagerSurfaces` puts seven modules that share no state into one run:
the variable `surface`, chosen in the first state, says which of them takes steps, so the states are the sum of
theirs and each property is about its own module. Definitions marked *Variant* in the modules are deliberate
mistakes; each is substituted for one definition to see that a property notices it. `Picked` of `Places` is
`SelectSeq` written without recursion, so that it can be proved about; TLC evaluates on every run of
`MCManagerSurfaces` that the two are equal on short sequences (`PickedIsSelectSeq`).

### SessionRegistry

`reg` is `SessionRegistry.inner`; `task[c]` is the program counter of the task of socket `c`,
`identity[c]` its `ConnectionContext`, `request[c]` the frame it is working on. A handler that releases
the registry lock or awaits is split there: `ReceiveRegister` (up to the RAS lookup), `RegisterSession`
or `RejectCollision` (the critical section), `UpsertToolsCache` (after it). The end of a socket is
`LoseSocket` or `ReceiveBye`, `DropOutbound` (end of `run_connection`) and `FinishSocket` (end of
`handle_socket`). `SnapshotIdle`, `BeginShutdown`, `EndShutdownCall`, `RemoveShutDown` are
`sweep_once` and `shutdown_session` with the record they cloned. `RouteCall`, `BumpLastCall`,
`AdmitCall`, `EndCall` are a proxied call, with the clone it takes.

`cache` is the tools cache by `Config`, that is by `(kind, config_id)`; several sessions may share an entry, a
reconnect may come with another config. It starts with what an earlier process has left (`Restored`),
`UpsertToolsCache` writes it after the registry lock is released, and `ForgetCached` is `reset_all`,
`reset_by_config_id` and `evict_expired`, which empty entries of live sessions too. `CacheEnabled` FALSE is the
store that does nothing. The file and the critical sections of the store are `ToolsCache`.

Abstractions: ages instead of instants, which stop at the threshold they are compared with (the code
compares with `>=` only); tool lists are a public and an internal part. History variables: `toolsFrom` and `from`
name the socket that published a list, `shutDown` holds the sockets whose Active session a shutdown removed
under them. Frames that only produce an error
answer (parse error, second register, unknown method) change nothing and are left out, and so is
`session_changed`, which nobody waits for. The first `drain_pending` and the drain of the dispatcher in
`shutdown_session` are one step here; `SessionDispatcher` takes them apart.

### SessionDispatcher

`pc[k]` follows a call through `enqueue`: `JoinQueue`, `Admit`, `CheckHandle`, `InsertPending`,
`SendRequest` (the three accesses of `dispatch_request`), then `TakeAnswer`, `TimeOut` or `SendCancel`,
in the order of the biased `select!`. `drain_pending` is `StoreDisconnected`, `ClearPending`,
`TakeOutbound`. `TearDown` is the rest of a connection task after `LeaveLoop`, in which a lost socket
drains twice and a goodbye once. `ShutDown` is `shutdown_session`. The client (`ReceiveRequest`,
`CompleteResponse`, `ConfirmCancel`) answers or not. `ticket` is a history variable for the order of
arrival.

Abstractions: a result that cannot be decoded counts as an answer; the poll of the timeout and
`cancel_pending` are one step; `send_tool_cancel` is one step; the pending entry of
`session.shutdown` itself is not kept; a call cancelled before it arrives joins and gives up.

### ToolsNotifier

`permit` is the permit `notify_one` stores. An agent is in `peers` from the moment its `Weak` is stored
and in `alive` while the `Arc` that `register_peer` made exists, that is until it returns. An agent has
one request at a time; a failed notification is an agent that has gone.

### ToolsCache

Every operation is a task in `op` that goes through the critical sections of its method: `evict`,
`update` / `read` / `clear`, then `snapshot` and `write` (persist) and `hook`. `Write` replaces the whole
file or leaves it (`write_json_atomic`). `Restart` may happen anywhere and loads the file or, if it
cannot be read, starts empty. The clock is absolute because `last_seen_at` survives restarts; it does
not go back. `told` is a history variable: the hook was called after the last change.

### MaskingGate

`pc[k]` follows a call through preflight, dispatch, finalize (with the single retry after a transport
failure) and `record_terminal`. The external service is `history`: a request may fail before or after
it had its effect, and of the final records the first one stays (`TERMINAL_ALREADY_RECORDED`). `lock`
is the async mutex around the outbox, held across requests; `flush` is where its holder is in
`flush_terminal_locked`. Memory and file change in one step since no await separates them and a failed
write is undone; a crash in the middle equals one before or after the rename. `accepted` and `acked` are
history variables. An event is its `call_id`; `Invalid` stands for what `valid_terminal` refuses. The
`rec.connection` test of `call_proxy_tool_inner` cannot fail on an Active record (`ActiveHasOwner`).
The retry inside `client.terminal` is part of `Deliver` and `FailDelivery`.

### TerminalOutboxLoad

`LoadCurrent`, `LoadLegacy` and `LoadRefused` are the ways through `TerminalOutbox::load`: the strict parse comes
first, the conversion only after it has failed. The converted file is written (`PersistConverted`, `PersistFails`)
before it is used; `Restart` may come at any point and loads again. An event keeps its call, whether it has a
`chat_id` or another unknown field, and what its code is to `valid_terminal`. A `chat_id` outside a verified
scope, which no version wrote, is not considered.

### ProxyRouting

The registry is what the router reads of it: `rtRecord[u]` with state, connection, database key and tools.
`StartCall`, `ResolveCall`, `GetRecord` and `DispatchCall` are `call_proxy_tool_inner`, split where it lets
go of the registry and where it awaits the masking service; sessions come, go and change in between, and the
call goes on with the clone it took. `Bucket`, `SlotVariants`, `SelectorValues` and `ResolvePublished` are
`build_proxy_view`, the selector of the schema and `resolve_published`, as operators on the state. `rtSent` and
`rtAnswer` hold what the last step handed to a dispatcher and answered. A session declares a list, in which a name
may come twice, with one schema or two: the router counts entries (`SlotEntries`), not sessions, so that such a
session needs a selector for its own tool. The cache starts with any of `RtFiles`, with the visibility stored then
(`load_from_disk` does not normalise). `rtBase` and `rtLoaded` are history variables: the base behind each
connection, and the names of entries that are still those of the file. A built-in name is never proxied; here each
session has a cache entry of its own.

### RasResolver

One key of the cache; one step per call of rac. `Conclude` is the end of `resolve`, which dates the entry with the
moment of its insertion. `RasTick` does not pass a deadline, as a timer fires when it is due. `rasLastSeen` and
`rasTrouble` are history variables: when an identity was last in RAS, and when rac last failed or RAS was edited.

### HttpAdmission

`httpPc[h]` follows a request through `handle`: `body`, `reserve`, `initialize` (it holds an
`HttpSessionReservation`) or `inner` (rmcp without a reservation) and `deleted`. `DropHandler` is the drop of the
future by a client that disconnects, at every await. rmcp is external: it creates a session, answers or not,
closes it for a DELETE and lets it expire. `httpOrphans` is a history variable for sessions whose initialize was
never confirmed. A request keeps its method, session, token, headers, kind of body and whether it carries
reserved metadata.

### WireExchange

A frame is what `from_value` looks at. `ReadFrame` parses it and puts the answers into the unbounded queue; the
loop ends with session.bye or the stream (`EndReading`), and `CancelConnection` cancels the token in a step of its own.
The writer's biased `select!` is two steps, because reader and writer run on different threads: `PollQueue` polls
`rx.recv()` and writes a frame, or finds nothing and goes on to `PollToken`, which ends the writer if the token is
cancelled by now, whatever came into the queue in between. A broken sink or a silent client ends it at once
(`SinkFails`, `KeepAliveExpires`). `wireRead` and `wireWritten` are histories, `wireLooked` is the number of answers
owed at the last `PollQueue`. What register and tools_changed do is in `SessionRegistry`.

### ManagerProcess

`procPc` follows `run` and `serve_session_manager`. Of a setting it keeps where it came from and what `validate`
asks of it. `StartFails` is every failure between validation and serving, `TaskFails` a task whose end is
only logged. `StopTasks` cancels, `AwaitSweeper` waits; the sweeper (`BeginSweep`, `ShutDownNext`,
`EndSweep`, `SeeCancelled`) sees the token only between two sweeps.

### AdapterService

An action is what a task does between two awaits. `service` is where `Service.run` is (`standby`,
`relaying`, `revoking` or, for every status that ends the service, `stopped`), `relay` where the task of `qualified_relay` is,
`provider.reader` where `_run` is (`joining`, `shutdown` and `ending` are its waits in `_handle_cancel`, `_handle_shutdown` and
`_on_transport_end`), and `pc[c]` where `_dispatch_call` is. `claimed` is `terminal_sent`, `Pending` is
`_pending`, `Tasks` is `_tasks`: a call is in the second from its creation and in the first from its first
run, and a cancellation in between misses it. A cancelled task takes `CancelCall` only. `Written` counts an
answer if the socket is open. `child` and `conns` are what the SDK child does; it may answer late, also after
the call was given up. `owner`, `target`, `known` and
`unwritten` (calls cancelled at the send lock with their own answer) are history variables.

Abstractions: a call is a connect, a disconnect or one that needs the connection (`list_profiles`,
which needs none, is left out); admission, policy and schema are one verdict (`AdmitCall` / `RefuseCall`);
the steps of `_handle_cancel` up to its wait are one; what invalidates a request (expiry, cancel file, changed
receipt, dead process, unanswered ping) is `InvalidateRequest`; `qualify` is one step. A released provider keeps
only its connection, which nobody uses. `wait_for` gives up only if something really holds out (`Outlasts`):
the shutdown timeouts are long against the run of a cancelled task.

## 3. Runs

| Run | Instance | Shows |
|---|---|---|
| `registry` | 2 uids that share a config, 3 sockets, 2 public tool lists, grace and idle timeout 1 tick, restored and forgotten cache entries | ownership of incarnations, refinement of `SessionLifecycle`, tools come from the owner, the cache does not lag behind a socket |
| `registry_idle` | 1 uid, 2 sockets, 1 call, grace 1 tick, idle timeout 2, no cache, fair | suspended sessions are resumed or swept, idle ones are reaped |
| `registry_busy` (violation) | 1 uid, 1 socket, 1 call | the idle sweeper shuts down a session that has just become busy |
| `dispatcher` | 2 calls, one without deadline, all ways to close, fair | one call at a time, order, no leak, one call at the client; after a lost socket the second drain releases everyone; calls end |
| `dispatcher_bye` (violation) | 1 call without deadline, session.bye | no second drain: the call waits for ever |
| `notifier_peers` (violation) | 1 agent, 2 changes, fair | the broadcast reaches nobody |
| `tools_cache` | 2 tasks, 2 entries, 2 ticks, crashes | freshness, notification |
| `masking_gate` | 3 calls (one with an invalid event and a refused option), 2 places, crashes, fair | durable queue, failed calls on record, progress |
| `adapter` | a connect and a disconnect, 2 activations, fair | one answer per call, owners kept apart, a lost route is released |
| `adapter_handover` (violation) | a connect, 2 activations | a connect whose call was cancelled is carried out for the next owner |
| `surfaces` | notifier: 2 agents, 2 changes; HTTP: 2 handlers, 2 session ids, 3 settings; routing: 2 uids on 2 connections, 3 tool lists (one with a name twice), 2 bases, 2 cache files; RAS: 2 tasks, 2 clusters, 3 ticks; wire: 3 frames; outbox: files of up to 3 events, room for 2; process: all command lines, sweeps of 2 | the session limit is exact; list and call agree and the cleared base is called; internal tools stay internal but for old cache files; identities are recent; requests are answered in order; every file is loaded faithfully; changes are broadcast; the validated configuration is served; a stop ends |
| `outbox_previous` (violation) | files of the previous format with up to 2 events | one without any `chat_id` is taken for a current one and refused |

**Bounds.** Three sockets are an old socket whose task is late or that outlived its session, the reconnect and a
third that collides, takes over in turn, or is the session of the other uid that shares the config. A second config
only adds reconnects from one entry to another; these are left to the proofs, which have no bound. One tick of
grace separates "at once" from "after the period", and more ticks only repeat the middle. Two calls are a
holder and a waiter, or two waiters of which the second may give up; what more calls could add is covered by
the proofs, which have no bound. Two tasks suffice for the cache because its critical sections are pairwise;
`MaxTime` exceeds `CacheLife`, so that an entry can expire, also across a restart. Two valid events
make an order and a limit. Two activations are an owner and the one that follows; a connect and a
disconnect, in any order and on either route, are the calls that change what the next owner finds.
Two handlers are enough to meet at the last place of the session limit, to be dropped there, and to delete or
expire a session of the other. Two uids make a slot with one session, two that agree and two that differ; two
connections let one session be lost and taken up by another base during a call. Two tasks let a slow resolution
overtake a fast one across an edit of RAS and the end of a life. Three frames are a request, one that ends the
connection and one after it.
`MaxChanges`, `MaxTime`, `MaxRoutes`, `RasMaxTime`, `WireMaxFrames` and `ProcMaxSweep` are the only bounds in guards. Symmetry is used where only
safety is checked: sockets, uids, configs and public lists in `registry`, tasks, configs and tool lists in `tools_cache`.

Each strengthening (`OwnershipInv`, `DispatchInv`, `CacheInv`, `GateInv`, `KnownInv`, `HttpInv`, `RasInv`, `RtInv`, `WireInv`,
`ObInv`) contains the type invariant of its module and the other parts that the proofs need. Where it is proved the runs
do not repeat it, except `DispatchInv`, which says itself that nothing leaks; they check the properties that are
worth naming.

**Deadlock** is checked except in the runs of the dispatcher, the adapter and the surfaces, where calls end, sockets
close, activations are used up, the process exits and nothing is left to do.

**Fairness.** The tokio runtime polls every task that can go on: weak fairness of the steps of connection
tasks, calls that have begun, the notifier, the sweepers and the holder of the outbox. Timers fire:
`Tick`, `PassDeadline`, `WakeReplay`. `tokio::sync::Mutex` hands the lock on in the order of requests,
which gives strong fairness to those who wait for it (`record_terminal`, `ReplayLock`). Clients, agents
and the process's death are never forced. `EventsDelivered` is conditional on a service and a disk that do not
fail every attempt (`ServiceRecovers`, a premise of that property, not of the specification); without it nothing could
be delivered. `CallsAnswered` holds also when the service stays down. `IdleIsReaped` has as its premise that the agents
make no more calls (`AgentsQuiet`). `CallsAnswered` assumes that
the dispatcher ends every call, which `CallsEnd` shows for calls with a deadline and for lost sockets.
The main task of the process that has been told to stop, and the sweeper, are polled (`ProcFairness`);
`shutdown_session` has a time limit, so a sweep goes on. No fairness is assumed of the other surfaces, whose
properties are about safety.
In the adapter the event loop runs every task that can go on, every wait has a timeout, and a dead socket is
noticed by the ping of `websockets` (`FailRead` on a socket that is not open); owners, the manager and the child
are free to do nothing.

## 4. Proofs

All theorems are of the form `Spec => []Inv`, `Spec => [][A]_vars` or `Spec => AbstractSpec`, for arbitrary
sets and limits. Assumptions on constants are only that timeouts and limits are naturals and that `None` and
the like are no members of the other sets (`ConstantsAssumption`, `ClosingAssumption`, `MaxChangesAssumption`,
`CacheAssumption`, `GateAssumption`, `AdapterAssumption`, `NoSessionAssumption`, `RtNoneAssumption`, `RtUidAssumption`),
that HTTP handlers and session ids are finite in number (`HttpFiniteAssumption`), and that requests, tool
lists, files (`RtFilesAssumption`, `OutboxFilesAssumption`) and command lines have the shapes of their types; TLC
evaluates them in every run.

* `SessionRegistryProofs` – `OwnershipInv`. That an Active record has an owner is not inductive by itself:
  one must know that a socket takes an identity once (`TaskInv`), that generations are unique and below
  `nextGeneration` (`GenerationInv`), and that the record a shutdown cloned still stands for one uid and one
  socket (`ShutdownInv`); otherwise a drain could hit a handle that serves another session. From it follow
  `ActiveHasOwner`, `NoBrokenActive`, `DisconnectedIsDrained`, `EndedOnlyByOwner` and the refinement of
  `SessionLifecycle`: `RegisterSession` is `Take`, `FinishSocket` is `Suspend` or a stutter, bye, grace
  sweep and `RemoveShutDown` are `Finish` of a set of uids, everything else stutters. `PublishInv` is a second
  invariant on top: a serving socket owns an Active record or has lost it to a shutdown (`ServingOwns`, the converse
  of `ActiveHasOwner`), so that what it publishes goes into its own record, unless it is in `shutDown`; a list that
  names a socket is one that socket has sent or is sending (`FromOwn`), and what it is sending is what the record it
  published into has (`PublishesOwn`). From it `ToolsFromOwner` and `CacheFollowsLive`, with the sweeper on or off.
* `SessionDispatcherProofs` – `DispatchInv`. Order of sending needs that the queue is sorted by ticket, behind the
  holder of the permit, behind everything sent (`QueueInv`, `SentInv`), and release of the permit needs that
  exactly one call is in a holding state. From it `OneCallAtATime`, `FifoOrder`, `PendingHasWaiter`,
  `GivenUpNeverSent`. `ReleaseInv` says why the second drain releases everyone: a call that waits without an
  answer has a pending entry (`WaitersPending`), and once the sender is taken no call starts to wait
  (`SenderTaken`), so that clearing the table afterwards leaves nobody (`AllReleased`); from it `SuspendedReleasesAll`.
  `ClientInv` follows a request to the client: it executes only what was sent (`ExecutingSent`), and a call that is over
  while the client still works on it ended by its deadline or by a drain (`AnswersAreFinal`); from it and the one
  permit `ClientExecutesOne`.
* `ToolsNotifierProofs` – `NoLostWakeup` is inductive with the types.
* `ToolsCacheProofs` – `CacheInv`. `ListedIsFresh` needs that whatever was stored after an operation's eviction
  is fresh with respect to the time the operation began (`FreshInv`), and `ChangeIsSignalled` that an
  operation which owes a call of the hook keeps owing it.
* `MaskingGateProofs` – `GateInv`. The queue equation `accepted = acked \o file` needs that memory equals the file;
  that the file has no call twice needs that all events ever accepted are distinct, which holds because
  a call that is still to record has none (`AcceptedInv`); that what is taken out is recorded needs
  `FlushInv` about the head. From it `FailureIsRecorded`, `OutboxIsQueue`, `AckedIsRecorded`,
  `MemoryMatchesFile`, `FileLoads`. `EndedInv` lists the ways a call may end; `AllowedIsClosed` follows from it, from
  `FailureIsRecorded` and from the final record that stays whatever event arrives late.
* `AdapterServiceProofs` – `AdapterInv`. That no call is answered twice needs that an answer is claimed before
  it is written, and that a claimed call is about to write it, has written it, or was cancelled with it at the send lock
  (`unwritten`) (`ClaimInv`). That
  owners are kept apart needs that a running call belongs to the current route or to a child that is dirty and
  without a route (`OwnerInv`), and that a dirty child gets no route (`RelayInv`). From it `AnsweredOnce`,
  `FinishedIsAnswered`, `OwnConnectionOnly`, `StandbyIsQuiet`. `KnownInv` adds that a provider runs one call at a time
  and that the binding does not change under a call that was sent with it (`BindingInv`), and that an open connection
  the adapter knows of, and that no disconnect was sent for, is the one in the binding or belongs to a dirty child
  without a route (`SettledInv`); from it `KnownIsClosed`.

* `HttpAdmissionProofs` – `HttpInv`. That `reserved` is the number of handlers with a reservation is inductive once
  each end of such a handler is seen to take it out of the set exactly once, so that `saturating_sub` never saturates;
  that no live session is lost from the count needs that only a holder has created a session and that the session of
  an answered DELETE is gone (`HandlerFacts`). From it `AdmissionExact`, `LiveIsCounted`, `InnerSeesAdmitted` and the
  action property `RefusedOnlyWhenFull`.
* `SurfaceProofs` – `RasInv`: what a resolution has found was in RAS since it began, and if there was no trouble since
  then it has found all there is on the clusters it asked (`RasFound`); with the deadline (`RasClock`) an entry was true
  at most one deadline before its date (`EntryTrue`), and `AnswerIsRecent` follows. `RtInv`: the key of an active record
  is the base of its connection, a connection registers once, and the clone of a call keeps both (`RegistryFacts`,
  `CallFacts`), records hold normalised lists, and a cached internal name is one of the file; from it
  `MaskedBaseIsCalled`, `InternalStaysInternal` and `ListAgreesWithCall`, which needs no assumption on names. `ProcInv`: the configuration at each place as a function of file and command line;
  from it `ServesValidated`. `WireInv`: as long as the socket works, what was written and what is queued are together what
  is owed for the frames read, and a writer that is past its queue has written all that was owed at that moment; from it
  `AnswersReachClient`. `ObInv`: the
  file is the original or its conversion, and a converted file parses and converts to itself; from it `LoadIsFaithful`.
  Both rest on lemmas about filtered sequences: a position has as its place the number of kept positions up to
  it (`PlacesGrow`, `NthPlace`), nothing is left out when all is kept (`PickedAll`), and an element appended at the end
  goes to the end of what is picked (`PickedAppend`).

Only model-checked: liveness (`DisconnectedResolves`, `IdleIsReaped`, `CallsEnd`, `ChangeIsAnnounced`,
`CallsAnswered`, `EventsDelivered`, `LostRouteIsReleased`, `StopCompletes`), because fairness is beyond the prover; and
that `Picked` is `SelectSeq`, because what a recursive definition computes needs induction over data.

## 5. Findings

Each is a violation run with a trace:

1. `registry_busy` – `sweep_once` does not look again before it shuts a candidate down (`lifecycle.rs:197`).
2. `dispatcher_bye` – after session.bye a call may wait for ever (`connection.rs:102`).
3. `notifier_peers` – `register_peer` keeps a `Weak` to an `Arc` it drops (`notify.rs:58`).
4. `adapter_handover` – whether the effect of a connect is unknown is read off `_pending` after others have emptied
   it (`provider.py:1311`): the child is handed on clean and opens the connection for the next owner.
5. `outbox_previous` – `load` converts only what the strict parse refuses (`gate.rs:136`): a file of the previous format
   without any `chat_id` parses, and its `CHAT_IDENTITY_REQUIRED` events then keep the manager from starting.

Other disagreements are written into the models and their properties without a run of their own:

* `update_tools` does not compare generations (`registry.rs:432`): a socket that outlived its session, because a
  shutdown removed it, writes into the next one. `ToolsFromOwner` excepts exactly these sockets (`shutDown`).
* The cache is written outside the registry lock (`registry.rs:301`): a late write of one socket may follow the write of
  its successor, and sessions of one config overwrite each other's entry. `CacheFollowsLive` speaks of the lists of one
  socket, as the comment at `registry.rs:433-435` does ("в пределах одной WS-сессии").
* The answer to session.bye may be lost, in spite of `biased`: on the multi-thread runtime it may be queued
  (`transport.rs:580`) and the token cancelled (`transport.rs:382`) after the writer has polled its queue and before it
  polls the token (`transport.rs:258-315`). `spec/SESSION_MANAGER.md:110` gives session.bye the result `{}`.
  `AnswersReachClient` promises what was owed at the last look at the queue.
* The cache file is loaded with the visibility it was written with (`tools_cache.rs:79-84`, `259-294`): after masking was
  enabled or `internal_tools` changed, a restarted manager lists an internal name until its entry is replaced or
  expires (`server.rs:463-470`), although `docs/CONFIGURATION.md:157-158` says that internal tools are excluded from
  tools/list and the persistent cache. `InternalStaysInternal` excepts exactly these entries (`rtLoaded`).
* A session that declares a name twice needs a selector to call its own tool, since the slot counts it twice
  (`router.rs:92`, `116`); list and call agree on that.
* `persist` writes outside the lock (`tools_cache.rs:225`), so that an older snapshot may stay in the file, although
  ADR-0035 calls a reset atomic; and a refresh of `last_seen_at` alone is not written (`tools_cache.rs:133`).
* A deadline frees the permit while the client still executes the call (`dispatcher.rs:171`; the exception in
  `ClientExecutesOne`), although `docs/architecture/invariants.md:14` promises strict sequence.
* A call refused its deadline option after the preflight is never closed (`server.rs:617`; `Refused` in
  `AllowedIsClosed`), although `README.md:277` requires preflight and finalize for each call.
* In the adapter, a call cancelled while its answer waits for the send lock is never answered (`provider.py:687`;
  `unwritten`, the exception in `FinishedIsAnswered`), and a cleanup that timed out leaves the relay waiting (`provider.py:780`; the
  exception in `LostRouteIsReleased`).
* A session rmcp created for an initialize that was then abandoned is not counted until it expires (`httpOrphans`, the
  exception in `LiveIsCounted`).
* A cluster whose list fails is skipped (`ras.rs:224`), so that a name that is in two clusters may look unambiguous.
* `validate` does not compare `ws_ping_timeout` with `ws_ping_interval`, although the comment in `config/model.rs` says
  the timeout must be the larger one; and the failure of the WebSocket server or of the internal endpoint is only
  logged while the HTTP server goes on (`TaskFails`).
* An adapter that declares the name of a built-in tool gets it listed a second time, and no call reaches it
  (`ListAgreesWithCall` leaves built-in names out).

## 6. Not modelled

Output: logging and metrics, titles, descriptions, labels and the wording of errors. Of the configuration the numeric
defaults and the values themselves, which are the constants of the modules. `env_carrier.rs` (no caller left) and
`setup_export`, which only reads. The adapter's policy is a verdict in `AdapterService`; also left out of the
adapter are the standalone process, which ends with its child; the debugger profile, which has a dispatch of its
own; the files by which owners and service talk (request, ack, cancel, health, pause), receipts and process checks;
the projection of results. What rac prints, the framing of the internal endpoint's socket and the JSON of requests
are reduced to what they say.

## 7. Plan

Done in this order: registry and lifecycle, dispatcher and handle, notifier, tools cache, masking gate, adapter; then
HTTP admission, routing and internal endpoint, RAS lookup, wire protocol, loading of the outbox, the process; proofs of all
safety properties. Next:

1. An abstract queue that `SessionDispatcher` and the outbox of `MaskingGate` both implement.
2. Violation runs of their own for the lost answer to session.bye and for internal names out of an old cache file;
   composition of the adapter with the transport (no answer to session.shutdown, a goodbye sent as a notification).
3. `DebuggerProvider` – dispatch and cleanup of the debugger profile (`debugger.py`), the activation files of the
   service, and `qualify` in more than one step (a change notified while the pages are read).
