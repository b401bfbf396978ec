-------------------------- MODULE SessionDispatcher --------------------------
(***************************************************************************)
(* One incarnation of a session: its SessionDispatcher                     *)
(* (session_manager/dispatcher.rs) and the ConnectionHandle of its         *)
(* WebSocket (session_manager/connection.rs), with everyone who uses them  *)
(* at the same time: the tasks of the agents' calls, the connection task   *)
(* that delivers answers and tears the socket down, and shutdown_session.  *)
(*                                                                         *)
(* dispatch_request and drain_pending take their locks one after the other *)
(* and are therefore several steps each; a call's select! is one step of   *)
(* the branch it takes, in the order of the biased branches.               *)
(***************************************************************************)
EXTENDS Naturals, Sequences, SequencesExt

CONSTANTS
    Call,      \* tool calls; each enters the dispatcher once
    Deadline,  \* the calls that have a deadline
    Closing    \* ways the connection may end: "drop", "bye", "shutdown"

ASSUME ClosingAssumption ==
    /\ Deadline \subseteq Call
    /\ Closing \subseteq {"drop", "bye", "shutdown"}

VARIABLES
    pc,             \* where each enqueue is
    outcome,        \* what it returned
    queue,          \* waiters of the admission semaphore, first come first served
    permits,        \* free permits of the semaphore
    inflight,       \* SessionDispatcher.inflight
    cancelled,      \* calls whose CancellationToken has fired
    expired,        \* calls whose deadline has passed
    cancelSent,     \* calls that have tried to send tool.cancel
    dispatcher,     \* SessionDispatcher.state
    handle,         \* ConnectionHandle.state
    pending,        \* tool.call entries of ConnectionHandle.pending
    pendingCancel,  \* tool.cancel entries of ConnectionHandle.pending
    outbound,       \* ConnectionHandle.outbound_tx is Some
    slot,           \* the oneshot channel of each call
    sent,           \* tool.call requests handed to the writer, in order
    delivered,      \* how many of them have reached the client
    executing,      \* calls the client has received and not yet answered
    writer,         \* the writer task of the socket is running
    registered,     \* the registry holds this incarnation as Active
    socket,         \* the connection task
    shutdown,       \* shutdown_session
    ticket,         \* when each call joined the queue, 0 before; for FifoOrder
    tickets         \* how many calls have joined the queue

arrivalVars == <<ticket, tickets>>
callVars == <<pc, outcome, queue, permits, inflight, cancelSent, arrivalVars>>
signalVars == <<cancelled, expired>>
tableVars == <<pending, pendingCancel, slot>>
clientVars == <<delivered, executing>>
closeVars == <<writer, registered, socket, shutdown>>
vars == <<callVars, signalVars, tableVars, clientVars, closeVars, dispatcher,
          handle, outbound, sent>>

-----------------------------------------------------------------------------
(* Types and initial state *)

\* "admitted": permit held, inflight counted.  "checked", "inserted" and
\* "waiting" are the steps of dispatch_request that have been done.
CallState == {"new", "queued", "admitted", "checked", "inserted", "waiting", "done"}

\* The states in which a call holds the permit of the semaphore
Holding == {"admitted", "checked", "inserted", "waiting"}

Answer == {"Ok", "ClientError", "Cancelled"}

Outcome ==
    Answer \cup {"none", "CancelledWhileQueued", "TimedOutWhileQueued",
                 "TimedOutWhileRunning", "SessionGone", "WriterClosed"}

\* The first drain_pending is the one of run_connection; the second one and the
\* drain of the dispatcher belong to mark_disconnected_if_generation.
SocketState ==
    {"open", "state1", "pending1", "outbound1", "mark",
     "state2", "pending2", "outbound2", "dispatcher2", "closed"}

\* mark_disconnected_if_generation holds the registry lock in these states.
Marking == {"state2", "pending2", "outbound2", "dispatcher2"}

ShutdownState ==
    {"none", "calling", "state", "pending", "outbound", "dispatcher", "remove", "done"}

TypeOK ==
    /\ pc \in [Call -> CallState]
    /\ outcome \in [Call -> Outcome]
    /\ queue \in Seq(Call)
    /\ permits \in {0, 1}
    /\ inflight \in Nat
    /\ cancelled \in SUBSET Call
    /\ expired \in SUBSET Deadline
    /\ cancelSent \in SUBSET Call
    /\ dispatcher \in {"Open", "Drained"}
    /\ handle \in {"Active", "Disconnected"}
    /\ pending \in SUBSET Call
    /\ pendingCancel \in SUBSET Call
    /\ outbound \in BOOLEAN
    /\ slot \in [Call -> Answer \cup {"empty", "dropped"}]
    /\ sent \in Seq(Call)
    /\ delivered \in Nat
    /\ executing \in SUBSET Call
    /\ writer \in BOOLEAN
    /\ registered \in BOOLEAN
    /\ socket \in SocketState
    /\ shutdown \in ShutdownState
    /\ ticket \in [Call -> Nat]
    /\ tickets \in Nat

Init ==
    /\ pc = [k \in Call |-> "new"]
    /\ outcome = [k \in Call |-> "none"]
    /\ queue = <<>>
    /\ permits = 1
    /\ inflight = 0
    /\ cancelled = {}
    /\ expired = {}
    /\ cancelSent = {}
    /\ dispatcher = "Open"
    /\ handle = "Active"
    /\ pending = {}
    /\ pendingCancel = {}
    /\ outbound = TRUE
    /\ slot = [k \in Call |-> "empty"]
    /\ sent = <<>>
    /\ delivered = 0
    /\ executing = {}
    /\ writer = TRUE
    /\ registered = TRUE
    /\ socket = "open"
    /\ shutdown = "none"
    /\ ticket = [k \in Call |-> 0]
    /\ tickets = 0

-----------------------------------------------------------------------------
(* enqueue: waiting for the permit *)

\* A call that holds no permit returns.
Return(k, o) ==
    /\ pc' = [pc EXCEPT ![k] = "done"]
    /\ outcome' = [outcome EXCEPT ![k] = o]

\* A call that holds the permit returns: the guards release both.
Release(k, o) ==
    /\ Return(k, o)
    /\ permits' = 1
    /\ inflight' = inflight - 1
    /\ UNCHANGED <<queue, cancelSent, arrivalVars>>

\* A waiter that is dropped leaves the queue of the semaphore.
LeaveQueue(k) ==
    \E i \in DOMAIN queue : queue[i] = k /\ queue' = RemoveAt(queue, i)

JoinQueue(k) ==
    /\ pc[k] = "new"
    /\ \/ /\ dispatcher = "Drained"
          /\ Return(k, "SessionGone")
          /\ UNCHANGED <<queue, arrivalVars>>
       \/ /\ dispatcher = "Open"
          /\ pc' = [pc EXCEPT ![k] = "queued"]
          /\ queue' = Append(queue, k)
          /\ tickets' = tickets + 1
          /\ ticket' = [ticket EXCEPT ![k] = tickets + 1]
          /\ UNCHANGED outcome
    /\ UNCHANGED <<permits, inflight, cancelSent, signalVars, tableVars,
                   clientVars, closeVars, dispatcher, handle, outbound, sent>>

\* Cancellation is looked at before the deadline, the deadline before the permit.
GiveUpQueued(k) ==
    /\ pc[k] = "queued"
    /\ \/ k \in cancelled /\ Return(k, "CancelledWhileQueued")
       \/ k \in expired \ cancelled /\ Return(k, "TimedOutWhileQueued")
    /\ LeaveQueue(k)
    /\ UNCHANGED <<permits, inflight, cancelSent, arrivalVars, signalVars,
                   tableVars, clientVars, closeVars, dispatcher, handle, outbound,
                   sent>>

\* Variants for the mutation tests: admission without the permit, and to any
\* waiter.
AdmitWithoutPermit(k) ==
    /\ pc[k] = "queued"
    /\ dispatcher = "Open"
    /\ queue # <<>> /\ Head(queue) = k
    /\ queue' = Tail(queue)
    /\ pc' = [pc EXCEPT ![k] = "admitted"]
    /\ permits' = 0
    /\ inflight' = inflight + 1
    /\ UNCHANGED <<outcome, cancelSent, arrivalVars, signalVars, tableVars,
                   clientVars, closeVars, dispatcher, handle, outbound, sent>>

AdmitAnyWaiter(k) ==
    /\ pc[k] = "queued"
    /\ dispatcher = "Open"
    /\ permits = 1
    /\ LeaveQueue(k)
    /\ pc' = [pc EXCEPT ![k] = "admitted"]
    /\ permits' = 0
    /\ inflight' = inflight + 1
    /\ UNCHANGED <<outcome, cancelSent, arrivalVars, signalVars, tableVars,
                   clientVars, closeVars, dispatcher, handle, outbound, sent>>

\* The permit goes to the first waiter, who looks at the dispatcher once more.
Admit(k) ==
    /\ pc[k] = "queued"
    /\ k \notin cancelled \cup expired
    /\ permits = 1
    /\ queue # <<>> /\ Head(queue) = k
    /\ queue' = Tail(queue)
    /\ \/ /\ dispatcher = "Drained"
          /\ Return(k, "SessionGone")
          /\ UNCHANGED <<permits, inflight>>
       \/ /\ dispatcher = "Open"
          /\ pc' = [pc EXCEPT ![k] = "admitted"]
          /\ permits' = 0
          /\ inflight' = inflight + 1
          /\ UNCHANGED outcome
    /\ UNCHANGED <<cancelSent, arrivalVars, signalVars, tableVars, clientVars,
                   closeVars, dispatcher, handle, outbound, sent>>

-----------------------------------------------------------------------------
(* dispatch_request: three steps, each under another lock *)

CheckHandle(k) ==
    /\ pc[k] = "admitted"
    /\ \/ /\ handle = "Active"
          /\ pc' = [pc EXCEPT ![k] = "checked"]
          /\ UNCHANGED <<outcome, queue, permits, inflight, cancelSent, arrivalVars>>
       \/ /\ handle = "Disconnected"
          /\ Release(k, "SessionGone")
    /\ UNCHANGED <<signalVars, tableVars, clientVars, closeVars, dispatcher,
                   handle, outbound, sent>>

InsertPending(k) ==
    /\ pc[k] = "checked"
    /\ pc' = [pc EXCEPT ![k] = "inserted"]
    /\ pending' = pending \cup {k}
    /\ UNCHANGED <<outcome, queue, permits, inflight, cancelSent, arrivalVars,
                   signalVars, pendingCancel, slot, clientVars, closeVars,
                   dispatcher, handle, outbound, sent>>

SendRequest(k) ==
    /\ pc[k] = "inserted"
    /\ \/ /\ outbound /\ writer
          /\ pc' = [pc EXCEPT ![k] = "waiting"]
          /\ sent' = Append(sent, k)
          /\ UNCHANGED <<pending, outcome, queue, permits, inflight, cancelSent,
                         arrivalVars>>
       \/ /\ ~(outbound /\ writer)
          /\ pending' = pending \ {k}
          /\ Release(k, "WriterClosed")
          /\ UNCHANGED sent
    /\ UNCHANGED <<signalVars, pendingCancel, slot, clientVars, closeVars,
                   dispatcher, handle, outbound>>

-----------------------------------------------------------------------------
(* enqueue: waiting for the answer.  The oneshot is looked at before the      *)
(* deadline, the deadline before the cancellation.                            *)

TakeAnswer(k) ==
    /\ pc[k] = "waiting"
    /\ slot[k] # "empty"
    /\ Release(k, IF slot[k] = "dropped" THEN "SessionGone" ELSE slot[k])
    /\ UNCHANGED <<signalVars, tableVars, clientVars, closeVars, dispatcher,
                   handle, outbound, sent>>

\* Variants: the pending entry is left behind, the deadline of a cancelled call
\* is not looked at.
TimeOutKeepingPending(k) ==
    /\ pc[k] = "waiting"
    /\ slot[k] = "empty"
    /\ k \in expired
    /\ Release(k, "TimedOutWhileRunning")
    /\ UNCHANGED <<signalVars, tableVars, clientVars, closeVars, dispatcher,
                   handle, outbound, sent>>

TimeOutUncancelled(k) ==
    /\ pc[k] = "waiting"
    /\ slot[k] = "empty"
    /\ k \in expired \ cancelled
    /\ pending' = pending \ {k}
    /\ Release(k, "TimedOutWhileRunning")
    /\ UNCHANGED <<signalVars, pendingCancel, slot, clientVars, closeVars,
                   dispatcher, handle, outbound, sent>>

TimeOut(k) ==
    /\ pc[k] = "waiting"
    /\ slot[k] = "empty"
    /\ k \in expired
    /\ pending' = pending \ {k}
    /\ Release(k, "TimedOutWhileRunning")
    /\ UNCHANGED <<signalVars, pendingCancel, slot, clientVars, closeVars,
                   dispatcher, handle, outbound, sent>>

\* Variant: a cancelled call does not wait for the client to confirm.
SendCancelAndReturn(k) ==
    /\ pc[k] = "waiting"
    /\ slot[k] = "empty"
    /\ k \in cancelled \ expired
    /\ pending' = pending \ {k}
    /\ Release(k, "Cancelled")
    /\ UNCHANGED <<signalVars, pendingCancel, slot, clientVars, closeVars, dispatcher,
                   handle, outbound, sent>>

\* tool.cancel is a request of its own whose answer nobody awaits; the call
\* goes on waiting.
SendCancel(k) ==
    /\ pc[k] = "waiting"
    /\ slot[k] = "empty"
    /\ k \in cancelled \ (expired \cup cancelSent)
    /\ cancelSent' = cancelSent \cup {k}
    /\ pendingCancel' = IF handle = "Active" /\ outbound /\ writer
                        THEN pendingCancel \cup {k} ELSE pendingCancel
    /\ UNCHANGED <<pc, outcome, queue, permits, inflight, arrivalVars, signalVars,
                   pending, slot, clientVars, closeVars, dispatcher, handle,
                   outbound, sent>>

-----------------------------------------------------------------------------
(* The agent's cancellation and the clock *)

FireCancellation(k) ==
    /\ pc[k] \notin {"new", "done"}
    /\ k \notin cancelled
    /\ cancelled' = cancelled \cup {k}
    /\ UNCHANGED <<callVars, expired, tableVars, clientVars, closeVars,
                   dispatcher, handle, outbound, sent>>

PassDeadline(k) ==
    /\ k \in Deadline \ expired
    /\ pc[k] \notin {"new", "done"}
    /\ expired' = expired \cup {k}
    /\ UNCHANGED <<callVars, cancelled, tableVars, clientVars, closeVars,
                   dispatcher, handle, outbound, sent>>

-----------------------------------------------------------------------------
(* The client at the other end of the socket (external), and the reader that *)
(* delivers its answers                                                      *)

ReceiveRequest ==
    /\ writer
    /\ delivered < Len(sent)
    /\ delivered' = delivered + 1
    /\ executing' = executing \cup {sent[delivered + 1]}
    /\ UNCHANGED <<callVars, signalVars, tableVars, closeVars, dispatcher,
                   handle, outbound, sent>>

\* complete_response: the answer to a call that is no longer pending is dropped.
CompleteResponse(k, answer) ==
    /\ socket = "open"
    /\ k \in executing
    /\ answer = "Cancelled" => k \in cancelSent
    /\ executing' = executing \ {k}
    /\ pending' = pending \ {k}
    /\ slot' = IF k \in pending THEN [slot EXCEPT ![k] = answer] ELSE slot
    /\ UNCHANGED <<callVars, signalVars, pendingCancel, delivered, closeVars,
                   dispatcher, handle, outbound, sent>>

\* The client may confirm a tool.cancel; only then is its entry taken away.
ConfirmCancel(k) ==
    /\ socket = "open"
    /\ k \in pendingCancel
    /\ pendingCancel' = pendingCancel \ {k}
    /\ UNCHANGED <<callVars, signalVars, pending, slot, clientVars, closeVars,
                   dispatcher, handle, outbound, sent>>

\* The writer ends: a send on the socket fails and the reader has yet to notice,
\* or run_connection has left its loop and cancelled it.
FailWriter ==
    /\ writer
    /\ \/ socket = "open" /\ "drop" \in Closing
       \/ socket \in {"state1", "pending1", "outbound1"}
    /\ writer' = FALSE
    /\ UNCHANGED <<callVars, signalVars, tableVars, clientVars, registered,
                   socket, shutdown, dispatcher, handle, outbound, sent>>

-----------------------------------------------------------------------------
(* drain_pending: three steps, each under another lock *)

StoreDisconnected ==
    /\ handle' = "Disconnected"
    /\ UNCHANGED <<tableVars, outbound, dispatcher>>

\* Variant: the entries are forgotten, their senders are kept.
ClearPendingKeepingSenders ==
    /\ pending' = {}
    /\ pendingCancel' = {}
    /\ UNCHANGED <<slot, handle, outbound, dispatcher>>

\* Dropping the senders is what wakes the waiting calls.
ClearPending ==
    /\ pending' = {}
    /\ pendingCancel' = {}
    /\ slot' = [k \in Call |-> IF k \in pending THEN "dropped" ELSE slot[k]]
    /\ UNCHANGED <<handle, outbound, dispatcher>>

TakeOutbound ==
    /\ outbound' = FALSE
    /\ UNCHANGED <<tableVars, handle, dispatcher>>

DrainDispatcher ==
    /\ dispatcher' = "Drained"
    /\ UNCHANGED <<tableVars, handle, outbound>>

-----------------------------------------------------------------------------
(* The end of the connection task: run_connection, then handle_socket *)

\* The socket is lost, or the client says session.bye, which also removes the
\* record from the registry.
LeaveLoop ==
    /\ socket = "open"
    /\ \/ "drop" \in Closing /\ UNCHANGED registered
       \/ "bye" \in Closing /\ registered' = FALSE
    /\ socket' = "state1"
    /\ UNCHANGED <<callVars, signalVars, tableVars, clientVars, writer, shutdown,
                   dispatcher, handle, outbound, sent>>

\* run_connection drains the handle; with the last sender the writer ends.
CloseConnection ==
    \/ socket = "state1" /\ StoreDisconnected /\ socket' = "pending1"
    \/ socket = "pending1" /\ ClearPending /\ socket' = "outbound1"
    \/ socket = "outbound1" /\ TakeOutbound /\ socket' = "mark"

\* handle_socket: a connection that still has its identity is marked, which
\* drains the handle once more and then its dispatcher.
MarkDisconnected ==
    \/ /\ socket = "mark"
       /\ socket' = IF registered THEN "state2" ELSE "closed"
       /\ UNCHANGED <<tableVars, handle, outbound, dispatcher>>
    \/ socket = "state2" /\ StoreDisconnected /\ socket' = "pending2"
    \/ socket = "pending2" /\ ClearPending /\ socket' = "outbound2"
    \/ socket = "outbound2" /\ TakeOutbound /\ socket' = "dispatcher2"
    \/ socket = "dispatcher2" /\ DrainDispatcher /\ socket' = "closed"

TearDown ==
    /\ CloseConnection \/ MarkDisconnected
    /\ writer' = (writer /\ socket # "outbound1")
    /\ registered' = (registered /\ socket # "dispatcher2")
    /\ UNCHANGED <<callVars, signalVars, clientVars, shutdown, sent>>

\* shutdown_session: the client is asked to leave; when it answers, fails to or
\* runs out of time, the handle and the dispatcher are drained and the record
\* is removed.  The socket stays open.
ShutDown ==
    /\ \/ /\ shutdown = "none"
          /\ "shutdown" \in Closing /\ registered /\ socket \notin Marking
          /\ shutdown' = "calling"
          /\ UNCHANGED <<tableVars, handle, outbound, dispatcher>>
       \/ /\ shutdown = "calling" /\ shutdown' = "state"
          /\ UNCHANGED <<tableVars, handle, outbound, dispatcher>>
       \/ shutdown = "state" /\ StoreDisconnected /\ shutdown' = "pending"
       \/ shutdown = "pending" /\ ClearPending /\ shutdown' = "outbound"
       \/ shutdown = "outbound" /\ TakeOutbound /\ shutdown' = "dispatcher"
       \/ shutdown = "dispatcher" /\ DrainDispatcher /\ shutdown' = "remove"
       \/ /\ shutdown = "remove" /\ socket \notin Marking
          /\ shutdown' = "done"
          /\ UNCHANGED <<tableVars, handle, outbound, dispatcher>>
    /\ registered' = (registered /\ shutdown # "remove")
    /\ UNCHANGED <<callVars, signalVars, clientVars, writer, socket, sent>>

-----------------------------------------------------------------------------
(* The specification *)

\* What the task of a call does when it is polled.
CallStep(k) ==
    \/ GiveUpQueued(k)
    \/ Admit(k)
    \/ CheckHandle(k)
    \/ InsertPending(k)
    \/ SendRequest(k)
    \/ TakeAnswer(k)
    \/ TimeOut(k)
    \/ SendCancel(k)

ClientStep ==
    \/ ReceiveRequest
    \/ \E k \in Call : ConfirmCancel(k) \/ \E a \in Answer : CompleteResponse(k, a)
    \/ FailWriter
    \/ LeaveLoop

Next ==
    \/ \E k \in Call : \/ JoinQueue(k)
                       \/ CallStep(k)
                       \/ FireCancellation(k)
                       \/ PassDeadline(k)
    \/ ClientStep
    \/ TearDown
    \/ ShutDown

Spec == Init /\ [][Next]_vars

\* The runtime polls every task that can go on and deadlines pass; neither the
\* agents nor the client are assumed to do anything.
Fairness ==
    /\ \A k \in Call : WF_vars(CallStep(k)) /\ WF_vars(PassDeadline(k))
    /\ WF_vars(TearDown)
    /\ WF_vars(ShutDown /\ shutdown # "none")

FairSpec == Spec /\ Fairness

-----------------------------------------------------------------------------
(* Properties *)

\* One admission slot: at most one call is between its admission and its end,
\* and inflight, which the idle sweeper and session_list read, counts exactly
\* that call, whatever way calls end (ADR-0021, Semaphore(1), InflightGuard).
OneCallAtATime ==
    /\ \A j, k \in Call : pc[j] \in Holding /\ pc[k] \in Holding => j = k
    /\ inflight = IF \E k \in Call : pc[k] \in Holding THEN 1 ELSE 0
    /\ permits = 1 - inflight

\* tool.call requests leave for the client in the order in which the calls
\* joined the queue, also when calls in between give up or fail (ADR-0021).
FifoOrder ==
    \A i, j \in DOMAIN sent : i < j => ticket[sent[i]] < ticket[sent[j]]

\* A call that was cancelled or timed out in the queue was never sent: "the
\* client did not get it" (DispatcherError::CancelledWhileQueued).
GivenUpNeverSent ==
    \A k \in Call :
        outcome[k] \in {"CancelledWhileQueued", "TimedOutWhileQueued"}
            => \A i \in DOMAIN sent : sent[i] # k

\* Every tool.call entry of the pending table belongs to a call that is still
\* waiting for it: timeouts, failed sends and teardowns leave none behind
\* (cancel_pending, dispatch_request).
PendingHasWaiter ==
    \A k \in pending : pc[k] \in {"inserted", "waiting"} /\ slot[k] = "empty"

\* The strengthening that makes the properties above inductive: the queue is
\* ordered by arrival, behind the call that holds the permit, behind all that
\* have been sent.
QueueInv ==
    /\ \A k \in Call : ticket[k] <= tickets
    /\ \A i \in DOMAIN queue : pc[queue[i]] = "queued"
    /\ \A i, j \in DOMAIN queue : i < j => ticket[queue[i]] < ticket[queue[j]]
    /\ \A k \in Call, i \in DOMAIN queue :
         pc[k] \in Holding => ticket[k] < ticket[queue[i]]

SentInv ==
    /\ \A i \in DOMAIN sent : pc[sent[i]] \in {"waiting", "done"}
    /\ \A i \in DOMAIN sent, j \in DOMAIN queue :
         ticket[sent[i]] < ticket[queue[j]]
    /\ \A i \in DOMAIN sent, k \in Call :
         pc[k] \in Holding \ {"waiting"} => ticket[sent[i]] < ticket[k]

AnswerInv ==
    \A k \in Call :
        /\ slot[k] # "empty" => pc[k] \in {"inserted", "waiting", "done"}
        /\ pc[k] # "done" => outcome[k] = "none"

\* However calls join, give up, time out, fail and are drained, the queue, the
\* permit, the pending table and what has been sent stay consistent (enqueue,
\* dispatch_request, complete_response, drain_pending).
DispatchInv ==
    /\ TypeOK
    /\ OneCallAtATime
    /\ QueueInv
    /\ SentInv
    /\ FifoOrder
    /\ AnswerInv
    /\ PendingHasWaiter
    /\ GivenUpNeverSent

\* When the connection task has ended, no call waits for an answer that can no
\* longer come, although dispatch_request and drain_pending interleave: "on
\* disconnect (WS drop, error, session.bye) drain_pending ends all waiting
\* calls" (connection.rs).
ClosedReleasesAll ==
    socket = "closed" =>
        \A k \in Call : pc[k] = "waiting" => slot[k] # "empty"

\* The client executes one tool.call at a time ("strictly one after the other",
\* ADR-0021), unless the call before was answered without it: its deadline
\* passed, or the connection was being closed (enqueue, send_tool_cancel).
ClientExecutesOne ==
    \A j, k \in executing :
        j # k => \E i \in {j, k} : outcome[i] \in {"TimedOutWhileRunning", "SessionGone"}

\* The connection was lost and its session suspended: the dispatcher has been
\* drained behind the handle.  session.bye and session.shutdown end otherwise.
Suspended == socket = "closed" /\ dispatcher = "Drained" /\ shutdown = "none"

\* A call that slips between the two locks of the first drain_pending is caught
\* by the drain of mark_disconnected_if_generation: when a lost connection has
\* been marked, no call waits for an answer that can no longer come.
SuspendedReleasesAll ==
    Suspended => \A k \in Call : pc[k] = "waiting" => slot[k] # "empty"

\* Every call ends: with its deadline, or without one when the connection is
\* lost, even if the client never answers (enqueue, drain_pending).
CallsEnd ==
    \A k \in Call :
        pc[k] \notin {"new", "done"} /\ (k \in Deadline \/ Suspended)
            ~> pc[k] = "done"
=============================================================================
