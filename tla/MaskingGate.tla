----------------------------- MODULE MaskingGate -----------------------------
(***************************************************************************)
(* The masking gate (session_manager/masking/gate.rs and client.rs, and    *)
(* the masking branch of call_proxy_tool_inner in mcp/server.rs).          *)
(*                                                                         *)
(* With masking on, a proxied call asks the masking service for permission *)
(* (preflight), runs, and gets its result back through the service         *)
(* (finalize).  A call that fails on the way leaves a terminal event for   *)
(* the service's history.  Events go through a durable outbox: a list in   *)
(* memory, behind an async lock, and a file that is rewritten atomically.  *)
(* Whoever holds the lock delivers the events, oldest first; a replay task *)
(* does so from time to time.                                              *)
(*                                                                         *)
(* The service is external: any request may fail, and may have had its     *)
(* effect although no answer came.  It keeps one final record per call and *)
(* answers a second one with TERMINAL_ALREADY_RECORDED.  An event is named *)
(* by its call_id; its error code plays no part.                           *)
(***************************************************************************)
EXTENDS Naturals, Sequences, SequencesExt

CONSTANTS
    Call,       \* proxied calls, each with a call_id of its own
    Invalid,    \* calls whose terminal event does not pass valid_terminal
    Refused,    \* calls that ask for no deadline on a session of the wrong kind
    MaxEvents,  \* MAX_TERMINAL_OUTBOX_EVENTS
    Replay,     \* the replay task, as a holder of the lock
    None

ASSUME GateAssumption ==
    /\ Invalid \subseteq Call
    /\ Refused \subseteq Call
    /\ MaxEvents \in Nat
    /\ Replay \notin Call \cup {None}
    /\ None \notin Call

VARIABLES
    pc,        \* where each call is
    answer,    \* what the agent got
    history,   \* what the service has on record for each call
    lock,      \* who holds the outbox
    flush,     \* where the holder is in flush_terminal_locked
    outbox,    \* TerminalOutbox.events
    file,      \* events in masking_terminal_outbox.json
    replay,    \* the replay task
    accepted,  \* all events ever put into the outbox, in order
    acked      \* all events ever taken out of it, in order

outboxVars == <<outbox, file, accepted, acked>>
vars == <<pc, answer, history, lock, flush, outboxVars, replay>>

-----------------------------------------------------------------------------
(* Types and initial state *)

\* "retry": the second attempt of finalize.  "record": waiting for the lock with
\* a terminal event.  "lost": the process died under the call.
CallState ==
    {"new", "preflight", "allowed", "running", "finalize", "retry", "record",
     "flushing", "done", "lost"}

\* "failure" is a sanitized MaskingFailure, "history" HISTORY_UNAVAILABLE and
\* "error" a protocol error.
Reply == {"none", "public", "failure", "history", "error"}

\* The record of the service: permission given, and its two final records.
Closed == {"final", "terminal"}
History == {"none", "allowed"} \cup Closed

TypeOK ==
    /\ pc \in [Call -> CallState]
    /\ answer \in [Call -> Reply]
    /\ history \in [Call -> History]
    /\ lock \in Call \cup {Replay, None}
    /\ flush \in {"none", "post", "acked"}
    /\ outbox \in Seq(Call)
    /\ file \in Seq(Call)
    /\ replay \in {"sleeping", "waiting", "flushing"}
    /\ accepted \in Seq(Call)
    /\ acked \in Seq(Call)

Init ==
    /\ pc = [k \in Call |-> "new"]
    /\ answer = [k \in Call |-> "none"]
    /\ history = [k \in Call |-> "none"]
    /\ lock = None
    /\ flush = "none"
    /\ outbox = <<>>
    /\ file = <<>>
    /\ replay = "waiting"
    /\ accepted = <<>>
    /\ acked = <<>>

-----------------------------------------------------------------------------
(* The call: call_proxy_tool_inner, preflight, finalize *)

Goto(k, s) ==
    /\ pc' = [pc EXCEPT ![k] = s]
    /\ UNCHANGED <<answer, lock, flush, outboxVars, replay>>

Answer(k, a) ==
    /\ pc' = [pc EXCEPT ![k] = "done"]
    /\ answer' = [answer EXCEPT ![k] = a]

\* A session whose database is not identified gets its terminal event at once.
BeginCall(k) ==
    /\ pc[k] = "new"
    /\ \/ Goto(k, "preflight")
       \/ Goto(k, "record")
    /\ UNCHANGED history

Allow(k) ==
    /\ pc[k] = "preflight"
    /\ history' = [history EXCEPT ![k] = "allowed"]
    /\ Goto(k, "allowed")

\* Denied, timed out, unreachable or not understood.  The service may have
\* given its permission all the same.
FailPreflight(k) ==
    /\ pc[k] = "preflight"
    /\ history' = [history EXCEPT ![k] = "allowed"] \/ UNCHANGED history
    /\ Goto(k, "record")

\* proxy_call_deadline refuses the call after the service has allowed it.
RefuseDeadline(k) ==
    /\ pc[k] = "allowed"
    /\ k \in Refused
    /\ Answer(k, "error")
    /\ UNCHANGED <<history, lock, flush, outboxVars, replay>>

Dispatch(k) ==
    /\ pc[k] = "allowed"
    /\ k \notin Refused
    /\ Goto(k, "running")
    /\ UNCHANGED history

\* Variant for the mutation tests: an error of the dispatcher goes back to the agent directly.
EndDispatchUnfinalized(k) ==
    /\ pc[k] = "running"
    /\ \/ Goto(k, "finalize")
       \/ Answer(k, "error") /\ UNCHANGED <<lock, flush, outboxVars, replay>>
    /\ UNCHANGED history

\* Results and errors of the dispatcher are both passed on to finalize.
EndDispatch(k) ==
    /\ pc[k] = "running"
    /\ Goto(k, "finalize")
    /\ UNCHANGED history

Finalize(k) ==
    /\ pc[k] \in {"finalize", "retry"}
    /\ history' = [history EXCEPT ![k] = "final"]
    /\ Answer(k, "public")
    /\ UNCHANGED <<lock, flush, outboxVars, replay>>

\* A transport failure is retried once; it and a timeout may hide a success.
FailFinalize(k) ==
    /\ \/ pc[k] = "finalize" /\ Goto(k, "retry")
       \/ pc[k] \in {"finalize", "retry"} /\ Goto(k, "record")
    /\ history' = [history EXCEPT ![k] = "final"] \/ UNCHANGED history

-----------------------------------------------------------------------------
(* The outbox *)

\* enqueue succeeds.  The call_id is new: it was made for this call.
enqueue(k) ==
    /\ k \notin Invalid
    /\ Len(outbox) < MaxEvents
    /\ outbox' = Append(outbox, k)
    /\ file' = outbox'
    /\ accepted' = Append(accepted, k)
    /\ UNCHANGED acked

\* The lock is taken and the event enqueued.  An event that is not valid, an
\* outbox that is full or a file that cannot be written (any time) refuse it, and
\* then the agent is told HISTORY_UNAVAILABLE.
record_terminal(k) ==
    /\ pc[k] = "record"
    /\ lock = None
    /\ \/ /\ enqueue(k)
          /\ lock' = k
          /\ flush' = "post"
          /\ pc' = [pc EXCEPT ![k] = "flushing"]
          /\ UNCHANGED answer
       \/ Answer(k, "history") /\ UNCHANGED <<lock, flush, outboxVars>>
    /\ UNCHANGED <<history, replay>>

\* Variant: the guard of the lock is leaked.
UnlockLeaking ==
    /\ lock' = lock
    /\ flush' = "none"
    /\ \/ lock = Replay /\ replay' = "sleeping" /\ UNCHANGED <<pc, answer>>
       \/ lock \in Call /\ Answer(lock, "failure") /\ UNCHANGED replay

\* The holder of the lock leaves flush_terminal_locked; a call is answered.
Unlock ==
    /\ lock' = None
    /\ flush' = "none"
    /\ \/ lock = Replay /\ replay' = "sleeping" /\ UNCHANGED <<pc, answer>>
       \/ lock \in Call /\ Answer(lock, "failure") /\ UNCHANGED replay

\* Nothing is left to deliver.
EndFlush ==
    /\ flush = "post"
    /\ outbox = <<>>
    /\ Unlock
    /\ UNCHANGED <<history, outboxVars>>

Recorded(k) == [history EXCEPT ![k] = IF @ = "final" THEN @ ELSE "terminal"]

\* Variant: the event is taken out before it is delivered.
acknowledge_before_delivery ==
    /\ flush = "post"
    /\ outbox # <<>>
    /\ outbox' = Tail(outbox)
    /\ file' = outbox'
    /\ acked' = Append(acked, Head(outbox))
    /\ UNCHANGED <<pc, answer, history, lock, flush, accepted, replay>>

\* client.terminal answers "recorded" or TERMINAL_ALREADY_RECORDED.
Deliver ==
    /\ flush = "post"
    /\ outbox # <<>>
    /\ history' = Recorded(Head(outbox))
    /\ flush' = "acked"
    /\ UNCHANGED <<pc, answer, lock, outboxVars, replay>>

\* Any other answer, or none, ends the round.  The event may have arrived.
FailDelivery ==
    /\ flush = "post"
    /\ outbox # <<>>
    /\ history' = Recorded(Head(outbox)) \/ UNCHANGED history
    /\ Unlock
    /\ UNCHANGED outboxVars

\* Variant: an event that could not be taken out of the file is dropped anyway.
acknowledge_dropping ==
    /\ flush = "acked"
    /\ \/ /\ outbox' = Tail(outbox)
          /\ file' = outbox' \/ file' = file
          /\ acked' = Append(acked, Head(outbox))
          /\ flush' = "post"
          /\ UNCHANGED <<pc, answer, lock, replay, accepted>>
       \/ Unlock /\ UNCHANGED outboxVars
    /\ UNCHANGED history

\* The delivered event leaves memory and file together; if the file cannot be
\* written it is put back and the round ends.
acknowledge_first ==
    /\ flush = "acked"
    /\ \/ /\ outbox' = Tail(outbox)
          /\ file' = outbox'
          /\ acked' = Append(acked, Head(outbox))
          /\ flush' = "post"
          /\ UNCHANGED <<pc, answer, lock, replay, accepted>>
       \/ Unlock /\ UNCHANGED outboxVars
    /\ UNCHANGED history

-----------------------------------------------------------------------------
(* The replay task, crashes and restarts *)

\* Variant: the replay task gives up while something is left.
WakeReplayIfEmpty ==
    /\ replay = "sleeping"
    /\ outbox = <<>>
    /\ replay' = "waiting"
    /\ UNCHANGED <<pc, answer, history, lock, flush, outboxVars>>

\* TERMINAL_REPLAY_INTERVAL is over.
WakeReplay ==
    /\ replay = "sleeping"
    /\ replay' = "waiting"
    /\ UNCHANGED <<pc, answer, history, lock, flush, outboxVars>>

ReplayLock ==
    /\ replay = "waiting"
    /\ lock = None
    /\ lock' = Replay
    /\ flush' = "post"
    /\ replay' = "flushing"
    /\ UNCHANGED <<pc, answer, history, outboxVars>>

\* The process dies and TerminalOutbox::load reads the file.
Restart ==
    /\ pc' = [k \in Call |-> IF pc[k] \in {"new", "done", "lost"} THEN pc[k] ELSE "lost"]
    /\ lock' = None
    /\ flush' = "none"
    /\ outbox' = file
    /\ replay' = "waiting"
    /\ UNCHANGED <<answer, history, file, accepted, acked>>

-----------------------------------------------------------------------------
(* The specification *)

CallStep(k) ==
    \/ BeginCall(k)
    \/ Allow(k)
    \/ FailPreflight(k)
    \/ RefuseDeadline(k)
    \/ Dispatch(k)
    \/ EndDispatch(k)
    \/ Finalize(k)
    \/ FailFinalize(k)

FlushStep ==
    \/ EndFlush
    \/ Deliver
    \/ FailDelivery
    \/ acknowledge_first

Next ==
    \/ \E k \in Call : CallStep(k) \/ record_terminal(k)
    \/ FlushStep
    \/ WakeReplay
    \/ ReplayLock
    \/ Restart

Spec == Init /\ [][Next]_vars

\* Requests end by their timeouts and the dispatcher ends every call; the lock is
\* handed out first come, first served (tokio's Mutex); the replay task sleeps
\* for five seconds.
Fairness ==
    /\ \A k \in Call : /\ WF_vars(CallStep(k) /\ pc[k] # "new")
                       /\ SF_vars(record_terminal(k))
    /\ WF_vars(FlushStep)
    /\ WF_vars(WakeReplay)
    /\ SF_vars(ReplayLock)

FairSpec == Spec /\ Fairness

-----------------------------------------------------------------------------
(* Properties *)

\* A call that was told it failed has left its trace: the service has a final
\* record of it or the event waits in the file, through crashes, failed writes
\* and lost answers (preflight, finalize, record_terminal, acknowledge_first).
FailureIsRecorded ==
    \A k \in Call : answer[k] = "failure" =>
        history[k] \in Closed \/ Contains(file, k)

\* Every event that was accepted is delivered once, in order, or still waiting:
\* none is lost, doubled or overtaken by a crash, a failed write or the replay
\* task (TerminalOutbox, flush_terminal_locked).
OutboxIsQueue == accepted = acked \o file

\* What is taken out of the outbox has been recorded by the service.
AckedIsRecorded == \A i \in DOMAIN acked : history[acked[i]] \in Closed

\* Memory and file never disagree: a failed write is undone in memory, so that a
\* restart changes nothing (enqueue, acknowledge_first).
MemoryMatchesFile == outbox = file

\* The file a restart finds is one it accepts: no call twice, at most MaxEvents
\* events, all of them valid (TerminalOutbox::load, ensure_unique_terminal_calls).
FileLoads ==
    /\ Len(file) <= MaxEvents
    /\ IsInjective(file)
    /\ \A k \in Invalid : ~Contains(file, k)

\* The strengthening that makes these inductive: the event of a call is accepted
\* once, at its end, and only an event the service has is taken out.
AcceptedInv ==
    /\ IsInjective(accepted)
    /\ \A i \in DOMAIN accepted :
         /\ accepted[i] \notin Invalid
         /\ pc[accepted[i]] \in {"flushing", "done", "lost"}
    /\ \A k \in Call :
         answer[k] = "failure" \/ lock = k => Contains(accepted, k)

FlushInv ==
    /\ flush = "none" <=> lock = None
    /\ flush = "acked" => outbox # <<>> /\ history[Head(outbox)] \in Closed

\* Crashes, failed writes, lost answers and the replay task leave the outbox a
\* durable queue (gate.rs).
GateInv ==
    /\ TypeOK
    /\ MemoryMatchesFile
    /\ OutboxIsQueue
    /\ AckedIsRecorded
    /\ AcceptedInv
    /\ FlushInv
    /\ Len(file) <= MaxEvents

\* A call the service has allowed does not end without telling it how: it is
\* finalized or leaves a terminal event, unless the agent is told that there is
\* no history.  The exception is the call that is refused its deadline option
\* after the preflight (proxy_call_deadline): of it the service hears no more.
AllowedIsClosed ==
    \A k \in Call \ Refused : history[k] = "allowed" /\ pc[k] = "done" =>
        Contains(file, k) \/ answer[k] = "history"

\* Every call is answered unless the process dies, whatever the service and the
\* disk do, the service that stays down and keeps the outbox full included.
CallsAnswered ==
    \A k \in Call : pc[k] \notin {"new", "done", "lost"} ~> pc[k] \in {"done", "lost"}

\* The service does not fail every attempt to deliver, nor the disk every write.
ServiceRecovers == SF_vars(Deliver) /\ SF_vars(acknowledge_first /\ outbox' # outbox)

\* Every event in the outbox gets to the service if the service comes back
\* (spawn_terminal_replay).
EventsDelivered ==
    ServiceRecovers =>
        \A k \in Call : Contains(file, k) ~> ~Contains(file, k) /\ history[k] \in Closed
=============================================================================
