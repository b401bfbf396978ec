--------------------------- MODULE AdapterService ---------------------------
(***************************************************************************)
(* The stdio-ws adapter in its permanent form (adapters/stdio-ws): one SDK *)
(* child that serves one owner after the other.  Service.tick starts and   *)
(* revokes the relay of an owner, SharedSDK.qualified_relay carries it,    *)
(* and its Provider passes the tool.call requests of the session manager   *)
(* to the child and the answers back.                                      *)
(*                                                                         *)
(* All of it runs in one event loop: an action is what a task does from    *)
(* one await to the next.  The tasks are the service, the relay, the       *)
(* provider's reader (_run) and one _dispatch_call for each call.  Timers  *)
(* are actions that may happen while their condition lasts.                *)
(*                                                                         *)
(* The requests an owner leaves in files, the receipts and the admission   *)
(* check are abstracted to their verdict.                                  *)
(***************************************************************************)
EXTENDS Naturals

CONSTANTS
    Call,        \* the tool.call requests of the manager
    Connect,     \* those that are tc_session/connect
    Disconnect,  \* those that are tc_session/disconnect
    MaxRoutes,   \* bound: the number of activations
    None

ASSUME AdapterAssumption ==
    /\ Connect \subseteq Call
    /\ Disconnect \subseteq Call
    /\ Connect \cap Disconnect = {}
    /\ MaxRoutes \in Nat
    /\ None \notin Call \cup Nat

VARIABLES
    service,        \* where Service.run is
    stale,          \* check_request refuses the current request
    routes,         \* the number of activations that have got a route
    dirty,          \* SharedSDK.dirty
    invalid,        \* SharedSDK.invalid
    relay,          \* where the task of qualified_relay is
    relayCancelled, \* it has been cancelled and has yet to notice
    awaited,        \* the tasks its _on_transport_end waits for
    route,          \* SharedSDK.provider, by its activation
    provider,       \* the fields of that Provider
    pc,             \* where the task of a call is
    owner,          \* the route a call came in on
    target,         \* the connection_id it was sent with
    cancelled,      \* the calls whose task was cancelled
    claimed,        \* the calls with terminal_sent
    answers,        \* the number of answers written for a call
    unwritten,      \* history: the calls cancelled with their own answer at the lock
    child,          \* what the SDK child has done about a call
    cancelSent,     \* the calls with cancel_sent
    conns,          \* the connections open in the child, by their connect
    known           \* history: the connections a binding has ever named

serviceVars == <<service, stale, routes>>
sdkVars == <<dirty, invalid>>
relayVars == <<relay, relayCancelled, awaited, route>>
callVars == <<pc, owner, target, cancelled, claimed, answers, unwritten>>
childVars == <<child, cancelSent, conns, known>>

vars == <<serviceVars, sdkVars, relayVars, provider, callVars, childVars>>

-----------------------------------------------------------------------------
(* State *)

\* The task of a call from its creation to its done callback
Running == {"task", "admission", "queued", "sent", "timedout", "answer"}

Socket == {"open", "lost", "closed"}

\* _run: reading, in _handle_cancel, in _handle_shutdown, in _on_transport_end
Reader == {"recv", "joining", "shutdown", "ending", "done", "failed"}

Provider ==
    [ready : BOOLEAN,            \* _dispatch_ready
     shutdownStarted : BOOLEAN,
     ended : BOOLEAN,
     cleanupFailed : BOOLEAN,
     routeEnded : BOOLEAN,
     connection : Call \cup {None},  \* _binding["connection_id"]
     ws : Socket,
     reader : Reader,
     joins : Call \cup {None}]   \* the call _handle_cancel waits for

NewProvider ==
    [ready |-> TRUE, shutdownStarted |-> FALSE, ended |-> FALSE,
     cleanupFailed |-> FALSE, routeEnded |-> FALSE, connection |-> None,
     ws |-> "open", reader |-> "recv", joins |-> None]

NoProvider == [NewProvider EXCEPT !.ready = FALSE, !.ws = "closed", !.reader = "done"]

TypeOK ==
    /\ service \in {"standby", "relaying", "revoking", "stopped"}
    /\ stale \in BOOLEAN
    /\ routes \in 0 .. MaxRoutes
    /\ dirty \in BOOLEAN
    /\ invalid \in BOOLEAN
    /\ relay \in {"none", "admitting", "registering", "serving", "ending",
                  "joining", "disconnecting", "done"}
    /\ relayCancelled \in BOOLEAN
    /\ awaited \subseteq Call
    /\ route \in (1 .. MaxRoutes) \cup {None}
    /\ provider \in Provider
    /\ pc \in [Call -> Running \cup {"new", "done"}]
    /\ owner \in [Call -> (1 .. MaxRoutes) \cup {None}]
    /\ target \in [Call -> Call \cup {None}]
    /\ cancelled \subseteq Call
    /\ claimed \subseteq Call
    /\ answers \in [Call -> Nat]
    /\ unwritten \subseteq Call
    /\ child \in [Call -> {"none", "running", "ok", "error"}]
    /\ cancelSent \subseteq Call
    /\ conns \subseteq Connect
    /\ known \subseteq Connect

\* sdk_lifetime has qualified a new child.
Init ==
    /\ service = "standby"
    /\ stale = FALSE
    /\ routes = 0
    /\ dirty = FALSE
    /\ invalid = FALSE
    /\ relay = "none"
    /\ relayCancelled = FALSE
    /\ awaited = {}
    /\ route = None
    /\ provider = NoProvider
    /\ pc = [c \in Call |-> "new"]
    /\ owner = [c \in Call |-> None]
    /\ target = [c \in Call |-> None]
    /\ cancelled = {}
    /\ claimed = {}
    /\ answers = [c \in Call |-> 0]
    /\ unwritten = {}
    /\ child = [c \in Call |-> "none"]
    /\ cancelSent = {}
    /\ conns = {}
    /\ known = {}

\* _tasks and _pending of the current provider: a task enters _pending when it
\* is first scheduled.
Tasks == {c \in Call : pc[c] \in Running /\ owner[c] = route}

Pending == {c \in Tasks : pc[c] # "task"}

\* A frame that is sent on a socket that is gone raises, and nobody is told.
Written(S) ==
    [c \in Call |-> IF c \in S /\ provider.ws = "open" THEN answers[c] + 1
                    ELSE answers[c]]

\* Variant: the flag is looked at by the task of the call only.
TerminateAlways(S) ==
    /\ cancelled' = cancelled \cup S
    /\ claimed' = claimed \cup S
    /\ answers' = Written(S)
    /\ UNCHANGED <<pc, owner, target, unwritten>>

\* Variant: the answer is claimed (terminal_sent) and not given.
TerminateUnwritten(S) ==
    /\ cancelled' = cancelled \cup S
    /\ claimed' = claimed \cup S
    /\ UNCHANGED <<pc, owner, target, unwritten, answers>>

\* Another task cancels calls and answers for them: task.cancel(), _terminal.
Terminate(S) ==
    /\ cancelled' = cancelled \cup S
    /\ claimed' = claimed \cup S
    /\ answers' = Written(S \ claimed)
    /\ UNCHANGED <<pc, owner, target, unwritten>>

-----------------------------------------------------------------------------
(* _dispatch_call.  A task that was cancelled only takes CancelCall. *)

At(c, where) == pc[c] = where /\ c \notin cancelled

\* The call is given its only answer, unless somebody else gave it.
Claim(c) ==
    /\ claimed' = claimed \cup {c}
    /\ pc' = [pc EXCEPT ![c] = IF c \in claimed THEN "done" ELSE "answer"]

\* The task is scheduled for the first time.
StartCall(c) ==
    /\ At(c, "task")
    /\ IF provider.ready
       THEN pc' = [pc EXCEPT ![c] = "admission"] /\ UNCHANGED claimed
       ELSE Claim(c)
    /\ UNCHANGED <<serviceVars, sdkVars, relayVars, provider, owner, target,
                   unwritten, cancelled, answers, childVars>>

\* Only connect comes without a connection, and only once.
FitsBinding(c) == c \in Connect <=> provider.connection = None

\* The admission check, the policy, the binding and the schema let it through.
AdmitCall(c) ==
    /\ At(c, "admission")
    /\ FitsBinding(c)
    /\ pc' = [pc EXCEPT ![c] = "queued"]
    /\ target' = [target EXCEPT ![c] = provider.connection]
    /\ UNCHANGED <<serviceVars, sdkVars, relayVars, provider, owner, unwritten, cancelled,
                   claimed, answers, childVars>>

\* One of them does not.
RefuseCall(c) ==
    /\ At(c, "admission")
    /\ Claim(c)
    /\ UNCHANGED <<serviceVars, sdkVars, relayVars, provider, owner, target,
                   unwritten, cancelled, answers, childVars>>

\* The SDK writes the request, and the tap of its stream learns the id.
InvokeSdk(c) ==
    /\ At(c, "queued")
    /\ pc' = [pc EXCEPT ![c] = "sent"]
    /\ child' = [child EXCEPT ![c] = "running"]
    /\ UNCHANGED <<serviceVars, sdkVars, relayVars, provider, owner, target,
                   unwritten, cancelled, claimed, answers, cancelSent, conns,
                   known>>

\* The child has answered.  A connect that succeeded is noted in the binding,
\* unless its result cannot be read; a disconnect is taken out of it whatever
\* its result says.
TakeResult(c) ==
    /\ At(c, "sent")
    /\ child[c] \in {"ok", "error"}
    /\ \E readable \in BOOLEAN :
         LET opened == c \in Connect /\ child[c] = "ok" /\ readable IN
         /\ provider' = [provider EXCEPT !.connection =
                            IF opened THEN c
                            ELSE IF c \in Disconnect /\ readable THEN None ELSE @]
         /\ known' = IF opened THEN known \cup {c} ELSE known
    /\ Claim(c)
    /\ UNCHANGED <<serviceVars, sdkVars, relayVars, owner, target, unwritten,
                   cancelled, answers, child, cancelSent, conns>>

\* wait_for gives up; a child that has got the request is told, which may take a
\* while.
TimeOutCall(c) ==
    /\ At(c, "queued") \/ At(c, "sent")
    /\ pc' = [pc EXCEPT ![c] = "timedout"]
    /\ cancelSent' = IF child[c] # "none" THEN cancelSent \cup {c} ELSE cancelSent
    /\ UNCHANGED <<serviceVars, sdkVars, relayVars, provider, owner, target,
                   unwritten, cancelled, claimed, answers, child, conns, known>>

FailTimedOut(c) ==
    /\ At(c, "timedout")
    /\ Claim(c)
    /\ UNCHANGED <<serviceVars, sdkVars, relayVars, provider, owner, target,
                   unwritten, cancelled, answers, childVars>>

\* _respond gets the send lock and writes; the entry and the task are removed.
WriteAnswer(c) ==
    /\ At(c, "answer")
    /\ answers' = Written({c})
    /\ pc' = [pc EXCEPT ![c] = "done"]
    /\ UNCHANGED <<serviceVars, sdkVars, relayVars, provider, owner, target,
                   unwritten, cancelled, claimed, childVars>>

\* CancelledError at whatever the task is waiting for, the send lock included: an
\* answer that waits there is dropped.
CancelCall(c) ==
    /\ c \in cancelled
    /\ pc[c] \in Running
    /\ pc' = [pc EXCEPT ![c] = "done"]
    /\ unwritten' = IF pc[c] = "answer" THEN unwritten \cup {c} ELSE unwritten
    /\ UNCHANGED <<serviceVars, sdkVars, relayVars, provider, owner, target,
                   cancelled, claimed, answers, childVars>>

-----------------------------------------------------------------------------
(* The SDK child (external) *)

\* The child carries a call out, in vain or not.
ExecuteCall(c) ==
    /\ child[c] = "running"
    /\ \/ /\ child' = [child EXCEPT ![c] = "ok"]
          /\ conns' = IF c \in Connect THEN conns \cup {c}
                      ELSE IF c \in Disconnect THEN conns \ {target[c]} ELSE conns
       \/ /\ c \in Connect \cup Disconnect \cup cancelSent
          /\ child' = [child EXCEPT ![c] = "error"]
          /\ UNCHANGED conns
    /\ UNCHANGED <<serviceVars, sdkVars, relayVars, provider, callVars,
                   cancelSent, known>>

\* tools/list_changed: SharedSDK.changed
ChangeTools ==
    /\ ~invalid
    /\ service # "stopped"
    /\ invalid' = TRUE
    /\ provider' = IF route = None THEN provider
                   ELSE [provider EXCEPT !.ready = FALSE, !.routeEnded = TRUE]
    /\ UNCHANGED <<serviceVars, dirty, relayVars, callVars, childVars>>

-----------------------------------------------------------------------------
(* _run: the frames of the manager *)

Reading == route # None /\ provider.reader = "recv" /\ provider.ws = "open"

\* tool.call: one at a time.
ReceiveCall(c) ==
    /\ Reading
    /\ relay # "registering"
    /\ pc[c] = "new"
    /\ owner' = [owner EXCEPT ![c] = route]
    /\ IF Tasks # {} \/ provider.shutdownStarted
       THEN /\ pc' = [pc EXCEPT ![c] = "done"]
            /\ claimed' = claimed \cup {c}
            /\ answers' = Written({c})
       ELSE /\ pc' = [pc EXCEPT ![c] = "task"]
            /\ UNCHANGED <<claimed, answers>>
    /\ UNCHANGED <<serviceVars, sdkVars, relayVars, provider, target, unwritten,
                   cancelled, childVars>>

\* tool.cancel: _handle_cancel.  The reader waits for the end of the task.
ReceiveCancel(c) ==
    /\ Reading
    /\ c \in Pending
    /\ cancelSent' = IF child[c] # "none" THEN cancelSent \cup {c} ELSE cancelSent
    /\ Terminate({c})
    /\ provider' = [provider EXCEPT !.reader = "joining", !.joins = c]
    /\ UNCHANGED <<serviceVars, sdkVars, relayVars, child, conns, known>>

FinishCancel ==
    /\ provider.reader = "joining"
    /\ pc[provider.joins] = "done"
    /\ provider' = [provider EXCEPT !.reader = "recv", !.joins = None]
    /\ UNCHANGED <<serviceVars, sdkVars, relayVars, callVars, childVars>>

\* session.shutdown: _handle_shutdown
ReceiveShutdown ==
    /\ Reading
    /\ ~provider.shutdownStarted
    /\ cancelSent' = cancelSent \cup {c \in Pending : child[c] # "none"}
    /\ Terminate(Pending)
    /\ provider' = [provider EXCEPT !.shutdownStarted = TRUE, !.reader = "shutdown"]
    /\ UNCHANGED <<serviceVars, sdkVars, relayVars, child, conns, known>>

FinishShutdown ==
    /\ provider.reader = "shutdown"
    /\ Tasks = {}
    /\ provider' = [provider EXCEPT !.routeEnded = TRUE, !.reader = "recv"]
    /\ UNCHANGED <<serviceVars, sdkVars, relayVars, callVars, childVars>>

\* A wait for tasks times out when one of them goes on that nobody cancelled:
\* it was not in _pending yet.
Outlasts(S) == \E c \in S : c \notin cancelled

\* _on_transport_end in the reader, once it has left its loop; the second of
\* two calls does nothing.
LeaveLoop(p) ==
    IF p.ended
    THEN /\ provider' = [p EXCEPT !.reader = "done"]
         /\ UNCHANGED callVars
    ELSE /\ provider' = [p EXCEPT !.ended = TRUE, !.reader = "ending"]
         /\ Terminate(Pending)

TimeOutShutdown ==
    /\ provider.reader = "shutdown"
    /\ Outlasts(Tasks)
    /\ LeaveLoop([provider EXCEPT !.cleanupFailed = TRUE])
    /\ UNCHANGED <<serviceVars, sdkVars, relayVars, childVars>>

\* recv fails, or the frame is too long.
FailRead ==
    /\ route # None
    /\ provider.reader = "recv"
    /\ LeaveLoop(provider)
    /\ UNCHANGED <<serviceVars, sdkVars, relayVars, childVars>>

\* Variant: nobody is told.
ClosedSilently(p) == [p EXCEPT !.ws = "closed"]

\* _close_transport
Closed(p) ==
    [p EXCEPT !.ws = "closed", !.routeEnded = @ \/ ~p.cleanupFailed]

FinishReader ==
    /\ provider.reader = "ending"
    /\ Tasks = {}
    /\ provider' = [Closed(provider) EXCEPT !.reader = "done"]
    /\ UNCHANGED <<serviceVars, sdkVars, relayVars, callVars, childVars>>

TimeOutReader ==
    /\ provider.reader = "ending"
    /\ Outlasts(Tasks)
    /\ provider' = [provider EXCEPT !.cleanupFailed = TRUE, !.reader = "failed"]
    /\ UNCHANGED <<serviceVars, sdkVars, relayVars, callVars, childVars>>

LoseSocket ==
    /\ provider.ws = "open"
    /\ provider' = [provider EXCEPT !.ws = "lost"]
    /\ UNCHANGED <<serviceVars, sdkVars, relayVars, callVars, childVars>>

-----------------------------------------------------------------------------
(* SharedSDK.qualified_relay *)

\* The owner is admitted and the socket is connected.  The binding of an
\* activation names no connection.
StartRoute ==
    /\ relay = "admitting"
    /\ ~relayCancelled
    /\ routes' = routes + 1
    /\ route' = routes + 1
    /\ provider' = NewProvider
    /\ relay' = "registering"
    /\ UNCHANGED <<service, stale, sdkVars, relayCancelled, awaited, callVars,
                   childVars>>

\* Admission or connecting fails, or is cancelled.
AbandonRoute ==
    /\ relay = "admitting"
    /\ relay' = "done"
    /\ relayCancelled' = FALSE
    /\ UNCHANGED <<serviceVars, sdkVars, awaited, route, provider, callVars,
                   childVars>>

FinishRegister ==
    /\ relay = "registering"
    /\ ~relayCancelled
    /\ relay' = "serving"
    /\ UNCHANGED <<serviceVars, sdkVars, relayCancelled, awaited, route,
                   provider, callVars, childVars>>

\* The finally block: what a cancelled call did is not known, so that the child
\* must not serve another owner.  Then _on_transport_end, if the reader has not
\* called it already.
LeaveRoute ==
    /\ relayCancelled' = FALSE
    /\ dirty' = (dirty \/ Pending # {})
    /\ awaited' = Tasks
    /\ IF provider.ended
       THEN /\ relay' = "joining"
            /\ provider' = [provider EXCEPT !.ready = FALSE]
            /\ UNCHANGED callVars
       ELSE /\ relay' = "ending"
            /\ provider' = [provider EXCEPT !.ready = FALSE, !.ended = TRUE]
            /\ Terminate(Pending)
    /\ UNCHANGED <<serviceVars, invalid, route, childVars>>

\* register is refused or times out.
FailRegister == relay = "registering" /\ LeaveRoute

WakeRelay ==
    /\ relay = "serving"
    /\ provider.routeEnded \/ relayCancelled
    /\ LeaveRoute

\* The end of the finally block
Release(d) ==
    /\ dirty' = d
    /\ relay' = "done"
    /\ relayCancelled' = FALSE
    /\ awaited' = {}
    /\ route' = None
    /\ UNCHANGED invalid

\* Of a provider that has been released nothing is used any more.
Released(p) == [NoProvider EXCEPT !.connection = p.connection]

FinishEnding ==
    /\ relay = "ending"
    /\ ~relayCancelled
    /\ awaited \cap Tasks = {}
    /\ provider' = Closed(provider)
    /\ relay' = "joining"
    /\ UNCHANGED <<serviceVars, sdkVars, relayCancelled, awaited, route,
                   callVars, childVars>>

\* Variant: the route is over when its reader is.
JoinReaderOnly ==
    /\ relay = "joining"
    /\ ~relayCancelled
    /\ provider.reader \in {"done", "failed"}
    /\ Release(dirty \/ provider.reader = "failed")
    /\ provider' = Released(provider)
    /\ UNCHANGED <<serviceVars, callVars, childVars>>

\* The reader's task has ended.  A connection is closed before the route is
\* released, and whatever is left over makes the child dirty.
JoinReader ==
    /\ relay = "joining"
    /\ ~relayCancelled
    /\ provider.reader \in {"done", "failed"}
    /\ IF provider.reader = "done" /\ provider.connection # None
       THEN /\ relay' = "disconnecting"
            /\ UNCHANGED <<sdkVars, relayCancelled, awaited, route, provider>>
       ELSE /\ Release(dirty \/ provider.cleanupFailed \/ Tasks # {})
            /\ provider' = Released(provider)
    /\ UNCHANGED <<serviceVars, callVars, childVars>>

DisconnectOwn ==
    /\ relay = "disconnecting"
    /\ ~relayCancelled
    /\ \/ /\ conns' = conns \ {provider.connection}
          /\ Release(dirty \/ provider.cleanupFailed \/ Tasks # {})
       \/ Release(TRUE) /\ UNCHANGED conns
    /\ provider' = Released(provider)
    /\ UNCHANGED <<serviceVars, callVars, child, cancelSent, known>>

\* One of the waits of the finally block times out or is cancelled.
FailCleanup ==
    /\ \/ relay \in {"ending", "joining", "disconnecting"} /\ relayCancelled
       \/ relay = "ending" /\ Outlasts(awaited \cap Tasks)
       \/ /\ relay = "joining"
          /\ provider.reader \in {"shutdown", "ending"}
          /\ Outlasts(Tasks)
    /\ Release(TRUE)
    /\ provider' = Released(provider)
    /\ UNCHANGED <<serviceVars, callVars, childVars>>

-----------------------------------------------------------------------------
(* Service.tick *)

\* The child is reaped; whoever still waits for it gets an error.
ReapSdk ==
    /\ conns' = {}
    /\ child' = [c \in Call |-> IF child[c] = "running" THEN "none" ELSE child[c]]
    /\ pc' = [c \in Call |-> IF pc[c] \in Running THEN "done" ELSE pc[c]]
    /\ UNCHANGED <<owner, target, unwritten, cancelled, claimed, answers,
                   cancelSent, known>>

\* Service.begin; qualified_relay refuses a child whose tools have changed.
BeginRelay ==
    /\ service = "standby"
    /\ ~dirty
    /\ routes < MaxRoutes
    /\ service' = "relaying"
    /\ stale' = FALSE
    /\ relay' = IF invalid THEN "done" ELSE "admitting"
    /\ UNCHANGED <<routes, sdkVars, relayCancelled, awaited, route, provider,
                   callVars, childVars>>

\* The request expires before it is accepted or is cancelled, a receipt or the
\* process behind it changes, or the child leaves a ping unanswered.
InvalidateRequest ==
    /\ service = "relaying"
    /\ ~stale
    /\ stale' = TRUE
    /\ UNCHANGED <<service, routes, sdkVars, relayVars, provider, callVars,
                   childVars>>

\* Service.finish cancels the task ...
RevokeRelay ==
    /\ service = "relaying"
    /\ stale \/ invalid \/ relay = "done"
    /\ service' = "revoking"
    /\ stale' = FALSE
    /\ relayCancelled' = (relay # "done")
    /\ provider' = IF route = None THEN provider
                   ELSE [provider EXCEPT !.ready = FALSE]
    /\ UNCHANGED <<routes, sdkVars, relay, awaited, route, callVars, childVars>>

\* ... and waits for it,
FinishRevoke ==
    /\ service = "revoking"
    /\ relay = "done"
    /\ service' = "standby"
    /\ relay' = "none"
    /\ UNCHANGED <<stale, routes, sdkVars, relayCancelled, awaited, route,
                   provider, callVars, childVars>>

\* but not for ever (CLEANUP_FAILED).
GiveUpRevoke ==
    /\ service = "revoking"
    /\ relay # "done"
    /\ service' = "stopped"
    /\ Release(TRUE)
    /\ ReapSdk
    /\ provider' = Released(provider)
    /\ UNCHANGED <<stale, routes>>

\* The tools are read again and compared with what was reviewed.
RequalifySdk ==
    /\ service = "standby"
    /\ invalid
    /\ \/ invalid' = FALSE /\ UNCHANGED service
       \/ service' = "stopped" /\ UNCHANGED invalid
    /\ UNCHANGED <<stale, routes, dirty, relayVars, provider, callVars, childVars>>

\* sdk_lifetime ends: the child is dirty, its tools cannot be read or it leaves a
\* ping unanswered.  A new child is started, unless the end of the old one could
\* not be confirmed.
RestartSdk ==
    /\ service = "standby"
    /\ \/ UNCHANGED service
       \/ service' = "stopped"
    /\ dirty' = FALSE
    /\ invalid' = FALSE
    /\ ReapSdk
    /\ UNCHANGED <<stale, routes, relayVars, provider>>

-----------------------------------------------------------------------------
(* The specification *)

\* What the event loop does by itself, timers included
CallStep(c) ==
    \/ StartCall(c)
    \/ AdmitCall(c)
    \/ RefuseCall(c)
    \/ InvokeSdk(c)
    \/ TakeResult(c)
    \/ TimeOutCall(c)
    \/ FailTimedOut(c)
    \/ WriteAnswer(c)
    \/ CancelCall(c)

ReaderStep ==
    \/ FinishCancel
    \/ FinishShutdown
    \/ FinishReader
    \/ TimeOutShutdown
    \/ TimeOutReader

RelayStep ==
    \/ StartRoute
    \/ AbandonRoute
    \/ FinishRegister
    \/ FailRegister
    \/ WakeRelay
    \/ FinishEnding
    \/ JoinReader
    \/ DisconnectOwn
    \/ FailCleanup

ServiceStep ==
    \/ RevokeRelay
    \/ FinishRevoke
    \/ RequalifySdk
    \/ RestartSdk

\* What comes from outside
ManagerStep ==
    \/ \E c \in Call : ReceiveCall(c) \/ ReceiveCancel(c)
    \/ ReceiveShutdown
    \/ FailRead
    \/ LoseSocket

OwnerStep == BeginRelay \/ InvalidateRequest

ChildStep == ChangeTools \/ \E c \in Call : ExecuteCall(c)

Next ==
    \/ \E c \in Call : CallStep(c)
    \/ ReaderStep
    \/ RelayStep
    \/ ServiceStep
    \/ GiveUpRevoke
    \/ ManagerStep
    \/ OwnerStep
    \/ ChildStep

Spec == Init /\ [][Next]_vars

\* The event loop runs every task that can go on, every wait has a timeout and
\* a dead socket is noticed.  Owner, manager and child do as they like.
Fairness ==
    /\ \A c \in Call : WF_vars(CallStep(c))
    /\ WF_vars(ReaderStep)
    /\ WF_vars(RelayStep)
    /\ WF_vars(ServiceStep)
    /\ WF_vars(FailRead /\ provider.ws # "open")

FairSpec == Spec /\ Fairness

-----------------------------------------------------------------------------
(* Properties *)

\* A call is never answered twice, although its own task, the reader and the
\* relay may all want to answer it (terminal_sent; _terminal, _handle_cancel,
\* _handle_shutdown, _on_transport_end).
AnsweredOnce == \A c \in Call : answers[c] <= 1

\* A call that has ended on an open socket has been answered: cancelled, timed
\* out, refused or not.  The only exception is a call that was cancelled while its
\* own answer waited for the send lock: its task has claimed the answer, so that
\* nobody else gives it, and drops it (_dispatch_call, CancelledError).
FinishedIsAnswered ==
    \A c \in Call :
        pc[c] = "done" /\ owner[c] = route /\ provider.ws = "open"
            => answers[c] = IF c \in unwritten THEN 0 ELSE 1

\* A call reaches the child with no connection but the one its own owner has
\* opened, whoever had the child before ("caller cannot retarget",
\* _dispatch_call; Service.begin).
OwnConnectionOnly ==
    \A c \in Call : target[c] # None => owner[target[c]] = owner[c]

\* A child that may serve the next owner runs no call of the last one in the
\* adapter: however the relay ended, it waited for all tasks or gave the child
\* up (qualified_relay, finally).
StandbyIsQuiet ==
    service = "standby" /\ ~dirty => \A c \in Call : pc[c] \notin Running

\* The strengthening that makes the properties above inductive.  A call of the
\* route that is claimed has been answered, is about to be, or is one of those
\* whose answer was dropped;
ClaimInv ==
    /\ cancelled \subseteq claimed
    /\ AnsweredOnce
    /\ \A c \in Call :
         /\ c \notin claimed => answers[c] = 0
         /\ pc[c] = "new" => c \notin claimed
         /\ pc[c] = "answer" => c \in claimed /\ answers[c] = 0
         /\ pc[c] \in Running \ {"answer"} /\ c \in claimed => c \in cancelled
         /\ c \in unwritten => pc[c] = "done" /\ answers[c] = 0
         /\ owner[c] = route =>
              /\ pc[c] = "done" => c \in claimed
              /\ c \in claimed /\ provider.ws = "open"
                   => pc[c] = "answer" \/ answers[c] = 1 \/ c \in unwritten

\* the service, the relay and the state of the child go together;
RelayInv ==
    /\ relay \in {"none", "admitting", "done"} <=> route = None
    /\ route # None => route = routes
    /\ relay = "admitting" => routes < MaxRoutes
    /\ service = "standby" => relay = "none"
    /\ dirty => relay \notin {"admitting", "registering", "serving"}

\* and all that is running, the binding and the connections that calls were sent
\* with belong to one owner.
OwnerInv ==
    /\ \A c \in Call :
         /\ owner[c] \in IF pc[c] = "new" THEN {None} ELSE 1 .. routes
         /\ pc[c] \in Running => owner[c] = route \/ (dirty /\ route = None)
         /\ target[c] # None => pc[target[c]] # "new" /\ pc[c] # "new"
    /\ \A c, d \in Call : pc[c] \in Running /\ pc[d] \in Running => owner[c] = owner[d]
    /\ provider.connection # None =>
         /\ pc[provider.connection] # "new"
         /\ route # None => owner[provider.connection] = route
         /\ \A c \in Call : pc[c] \in Running => owner[c] = owner[provider.connection]

\* Whoever answers, cancels, times out, revokes or restarts: claims and answers
\* of calls agree, and calls, binding and route belong together (_dispatch_call,
\* _terminal, qualified_relay, Service.tick).
AdapterInv ==
    /\ TypeOK
    /\ ClaimInv
    /\ RelayInv
    /\ OwnerInv
    /\ OwnConnectionOnly

\* A connection that the adapter knew of, and that nobody asked to close, is
\* closed before another owner gets the child (qualified_relay, finally).
KnownIsClosed ==
    \A c \in conns :
        route # None /\ owner[c] # route
            => c \notin known \/ \E d \in Disconnect : target[d] = c

\* No connection of an earlier owner is open in the child that serves the next:
\* "the unknown result of a cancelled connect must not be passed to a new
\* owner" (provider.py, qualified_relay).
NoForeignConnection ==
    \A c \in conns : route # None => owner[c] = route

\* When its socket is gone, a route is released, unless a task outlasted the
\* cleanup: then _route_ended is not set and the relay waits on
\* (_on_transport_end, _close_transport, qualified_relay).
LostRouteIsReleased ==
    route # None /\ provider.ws # "open"
        ~> route = None \/ provider.cleanupFailed
=============================================================================
