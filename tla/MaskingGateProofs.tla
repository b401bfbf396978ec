-------------------------- MODULE MaskingGateProofs --------------------------
(***************************************************************************)
(* Proofs about module MaskingGate: the outbox is a durable queue, no      *)
(* failed call goes unrecorded and every call the service allowed is       *)
(* closed, for any number of calls, crashes and failures of the service    *)
(* and of the disk.                                                        *)
(***************************************************************************)
EXTENDS MaskingGate, TLAPS

-----------------------------------------------------------------------------
(* Sequences *)

\* An element appended to the second part is appended to the whole.
LEMMA AppendToQueue ==
    ASSUME NEW S, NEW a \in Seq(S), NEW b \in Seq(S), NEW e \in S
    PROVE  Append(a \o b, e) = a \o Append(b, e)
OBVIOUS

\* The head of the second part may be moved to the first.
LEMMA MoveHead ==
    ASSUME NEW S, NEW a \in Seq(S), NEW b \in Seq(S), b # <<>>
    PROVE  a \o b = Append(a, Head(b)) \o Tail(b)
OBVIOUS

\* The second part is found behind the first.
LEMMA SecondPart ==
    ASSUME NEW S, NEW a \in Seq(S), NEW b \in Seq(S), NEW i \in DOMAIN b
    PROVE  /\ Len(a) + i \in DOMAIN (a \o b)
           /\ (a \o b)[Len(a) + i] = b[i]
OBVIOUS

\* The first part is found at its place.
LEMMA FirstPart ==
    ASSUME NEW S, NEW a \in Seq(S), NEW b \in Seq(S), NEW i \in DOMAIN a
    PROVE  /\ i \in DOMAIN (a \o b)
           /\ (a \o b)[i] = a[i]
OBVIOUS

\* What the whole contains, one of the parts contains.
LEMMA InPart ==
    ASSUME NEW S, NEW a \in Seq(S), NEW b \in Seq(S), NEW e, Contains(a \o b, e)
    PROVE  (\E i \in DOMAIN a : a[i] = e) \/ Contains(b, e)
<1>1. PICK i \in 1..Len(a \o b) : (a \o b)[i] = e
  BY DEF Contains
<1>2. CASE i <= Len(a)
  BY <1>1, <1>2
<1>3. CASE i > Len(a)
  <2>1. i - Len(a) \in 1..Len(b) /\ b[i - Len(a)] = e
    BY <1>1, <1>3
  <2> QED
    BY <2>1 DEF Contains
<1>4. QED
  BY <1>1, <1>2, <1>3

\* A new element keeps a sequence free of repetitions.
LEMMA NewElementInjective ==
    ASSUME NEW S, NEW q \in Seq(S), NEW e \in S, IsInjective(q), ~Contains(q, e)
    PROVE  IsInjective(Append(q, e))
BY DEF IsInjective, Contains

-----------------------------------------------------------------------------
(* Steps *)

\* The holder of the lock leaves: a call among them is answered.
LEMMA UnlockStep ==
    ASSUME TypeOK, AcceptedInv, FlushInv, Unlock, UNCHANGED accepted
    PROVE  /\ pc' \in [Call -> CallState]
           /\ answer' \in [Call -> Reply]
           /\ lock' \in Call \cup {Replay, None}
           /\ flush' \in {"none", "post", "acked"}
           /\ replay' \in {"sleeping", "waiting", "flushing"}
           /\ AcceptedInv'
           /\ flush' = "none" /\ lock' = None
<1>1. lock' = None /\ flush' = "none" /\ None \notin Call
  BY GateAssumption DEF Unlock
<1>2. CASE lock = Replay /\ replay' = "sleeping" /\ UNCHANGED <<pc, answer>>
  <2>1. AcceptedInv'
    BY <1>1, <1>2 DEF AcceptedInv
  <2> QED
    BY <1>1, <1>2, <2>1 DEF TypeOK
<1>3. CASE lock \in Call /\ Answer(lock, "failure") /\ UNCHANGED replay
  <2>1. /\ pc' = [pc EXCEPT ![lock] = "done"]
        /\ answer' = [answer EXCEPT ![lock] = "failure"]
        /\ replay' = replay
    BY <1>3 DEF Answer
  <2>2. pc' \in [Call -> CallState] /\ answer' \in [Call -> Reply]
    BY <1>3, <2>1 DEF TypeOK, CallState, Reply
  <2>3. Contains(accepted, lock)
    BY <1>3 DEF AcceptedInv
  <2>4. \A k \in Call : answer'[k] = "failure" => Contains(accepted, k)
    BY <1>3, <2>1, <2>3 DEF TypeOK, AcceptedInv
  <2>5. \A i \in DOMAIN accepted : pc'[accepted[i]] \in {"flushing", "done", "lost"}
    BY <1>3, <2>1 DEF TypeOK, AcceptedInv
  <2>6. AcceptedInv'
    BY <1>1, <2>4, <2>5 DEF AcceptedInv
  <2> QED
    BY <1>1, <2>1, <2>2, <2>6 DEF TypeOK
<1>4. QED
  BY <1>2, <1>3 DEF Unlock

\* Recording a call closes it and leaves the others alone.
LEMMA RecordedStep ==
    ASSUME TypeOK, NEW k \in Call
    PROVE  /\ Recorded(k) \in [Call -> History]
           /\ Recorded(k)[k] \in Closed
           /\ \A j \in Call : history[j] \in Closed => Recorded(k)[j] \in Closed
BY DEF TypeOK, Recorded, History, Closed

\* A call that neither touches the outbox nor has an event in it.
LEMMA QuietCall ==
    ASSUME GateInv, NEW k \in Call,
           pc[k] \in {"new", "preflight", "allowed", "running", "finalize", "retry"},
           NEW s \in CallState, NEW a \in Reply \ {"failure"},
           pc' = [pc EXCEPT ![k] = s],
           answer' = [answer EXCEPT ![k] = a],
           history' \in [Call -> History],
           \A j \in Call \ {k} : history[j] \in Closed => history'[j] \in Closed,
           UNCHANGED <<lock, flush, outboxVars, replay>>
    PROVE  GateInv'
<1>1. TypeOK'
  BY DEF GateInv, TypeOK, outboxVars
<1>2. \A i \in DOMAIN accepted : accepted[i] \in Call /\ accepted[i] # k
  <2>1. \A i \in DOMAIN accepted : accepted[i] \in Call
    BY DEF GateInv, TypeOK
  <2> QED
    BY <2>1 DEF GateInv, AcceptedInv
<1>3. AcceptedInv'
  <2>1. \A j \in Call : answer'[j] = "failure" => answer[j] = "failure"
    BY DEF GateInv, TypeOK
  <2>2. \A i \in DOMAIN accepted : pc'[accepted[i]] = pc[accepted[i]]
    BY <1>2 DEF GateInv, TypeOK
  <2> QED
    BY <2>1, <2>2 DEF GateInv, AcceptedInv, outboxVars
<1>4. AckedIsRecorded'
  <2>1. ASSUME NEW i \in DOMAIN acked PROVE acked[i] \in Call \ {k}
    <3>1. acked \in Seq(Call) /\ file \in Seq(Call)
      BY DEF GateInv, TypeOK
    <3>2. i \in DOMAIN (acked \o file) /\ (acked \o file)[i] = acked[i]
      BY <3>1, FirstPart
    <3> QED
      BY <1>2, <3>1, <3>2 DEF GateInv, OutboxIsQueue
  <2> QED
    BY <2>1 DEF GateInv, AckedIsRecorded, outboxVars
<1>5. FlushInv'
  <2>1. ASSUME outbox # <<>> PROVE Head(outbox) \in Call \ {k}
    <3>1. acked \in Seq(Call) /\ file \in Seq(Call) /\ outbox = file
      BY DEF GateInv, TypeOK, MemoryMatchesFile
    <3>2. 1 \in DOMAIN file /\ Head(outbox) = file[1]
      BY <2>1, <3>1
    <3>3. /\ Len(acked) + 1 \in DOMAIN (acked \o file)
          /\ (acked \o file)[Len(acked) + 1] = file[1]
      BY <3>1, <3>2, SecondPart
    <3> QED
      BY <1>2, <3>2, <3>3 DEF GateInv, OutboxIsQueue
  <2> QED
    BY <2>1 DEF GateInv, FlushInv, outboxVars
<1>6. QED
  BY <1>1, <1>3, <1>4, <1>5
  DEF GateInv, MemoryMatchesFile, OutboxIsQueue, outboxVars

\* An event enters the outbox, or is refused.
LEMMA RecordTerminalStep ==
    ASSUME GateInv, NEW k \in Call, record_terminal(k)
    PROVE  GateInv'
<1>1. pc[k] = "record" /\ lock = None /\ UNCHANGED <<history, replay>>
  BY DEF record_terminal
<1>2. CASE Answer(k, "history") /\ UNCHANGED <<lock, flush, outboxVars>>
  <2>1. /\ pc' = [pc EXCEPT ![k] = "done"]
        /\ answer' = [answer EXCEPT ![k] = "history"]
    BY <1>2 DEF Answer
  <2>2. TypeOK'
    BY <1>1, <1>2, <2>1 DEF GateInv, TypeOK, CallState, Reply, outboxVars
  <2>3. AcceptedInv'
    <3>1. \A j \in Call : answer'[j] = "failure" => answer[j] = "failure"
      BY <2>1 DEF GateInv, TypeOK
    <3>2. \A i \in DOMAIN accepted : pc'[accepted[i]] \in {"flushing", "done", "lost"}
      BY <2>1 DEF GateInv, TypeOK, AcceptedInv
    <3> QED
      BY <1>2, <3>1, <3>2 DEF GateInv, AcceptedInv, outboxVars
  <2> QED
    BY <1>1, <1>2, <2>2, <2>3
    DEF GateInv, MemoryMatchesFile, OutboxIsQueue, AckedIsRecorded, FlushInv, outboxVars
<1>3. CASE /\ k \notin Invalid
           /\ Len(outbox) < MaxEvents
           /\ outbox' = Append(outbox, k)
           /\ file' = outbox'
           /\ accepted' = Append(accepted, k)
           /\ lock' = k
           /\ flush' = "post"
           /\ pc' = [pc EXCEPT ![k] = "flushing"]
           /\ UNCHANGED <<answer, acked>>
  <2>1. TypeOK'
    BY <1>1, <1>3 DEF GateInv, TypeOK, CallState
  <2>2. OutboxIsQueue'
    <3>1. acked \in Seq(Call) /\ file \in Seq(Call)
      BY DEF GateInv, TypeOK
    <3>2. Append(acked \o file, k) = acked \o Append(file, k)
      BY <3>1, AppendToQueue, SMTT(60)
    <3> QED
      BY <1>3, <3>2 DEF GateInv, OutboxIsQueue, MemoryMatchesFile
  <2>3. Len(file') <= MaxEvents
    BY <1>3, GateAssumption DEF GateInv, TypeOK
  <2>4. ~Contains(accepted, k)
    <3> SUFFICES ASSUME Contains(accepted, k) PROVE FALSE
      OBVIOUS
    <3>1. PICK i \in DOMAIN accepted : accepted[i] = k
      BY DEF Contains, GateInv, TypeOK
    <3> QED
      BY <1>1, <3>1 DEF GateInv, AcceptedInv
  <2>5. AcceptedInv'
    <3>1. accepted \in Seq(Call) /\ IsInjective(accepted)
      BY DEF GateInv, TypeOK, AcceptedInv
    <3>2. IsInjective(accepted')
      BY <1>3, <2>4, <3>1, NewElementInjective
    <3>3. /\ DOMAIN accepted' = DOMAIN accepted \cup {Len(accepted) + 1}
          /\ accepted'[Len(accepted) + 1] = k
          /\ \A i \in DOMAIN accepted : accepted'[i] = accepted[i] /\ accepted[i] \in Call
          /\ Len(accepted') = Len(accepted) + 1
          /\ DOMAIN accepted = 1..Len(accepted)
          /\ Len(accepted) \in Nat
      BY <1>3, <3>1
    <3>4. \A j \in Call : pc'[j] = IF j = k THEN "flushing" ELSE pc[j]
      BY <1>3 DEF GateInv, TypeOK
    <3>5. \A i \in DOMAIN accepted' : /\ accepted'[i] \notin Invalid
                                      /\ pc'[accepted'[i]] \in {"flushing", "done", "lost"}
      BY <1>3, <3>3, <3>4 DEF GateInv, AcceptedInv
    <3>6. \A j : Contains(accepted, j) \/ j = k => Contains(accepted', j)
      BY <3>3 DEF Contains
    <3>7. \A j \in Call : answer'[j] = "failure" \/ lock' = j => Contains(accepted', j)
      BY <1>3, <3>6 DEF GateInv, AcceptedInv
    <3> QED
      BY <3>2, <3>5, <3>7 DEF AcceptedInv
  <2>6. FlushInv'
    BY <1>3, GateAssumption DEF FlushInv
  <2> QED
    BY <1>1, <1>3, <2>1, <2>2, <2>3, <2>5, <2>6
    DEF GateInv, MemoryMatchesFile, AckedIsRecorded
<1>4. QED
  BY <1>2, <1>3 DEF record_terminal, enqueue

\* The holder of the lock goes without touching the outbox.
LEMMA LeaveStep ==
    ASSUME GateInv, Unlock, UNCHANGED outboxVars,
           history' \in [Call -> History],
           \A j \in Call : history[j] \in Closed => history'[j] \in Closed
    PROVE  GateInv'
<1>1. /\ pc' \in [Call -> CallState]
      /\ answer' \in [Call -> Reply]
      /\ lock' \in Call \cup {Replay, None}
      /\ flush' \in {"none", "post", "acked"}
      /\ replay' \in {"sleeping", "waiting", "flushing"}
      /\ AcceptedInv'
      /\ flush' = "none" /\ lock' = None
  BY UnlockStep DEF GateInv, outboxVars
<1>2. TypeOK'
  BY <1>1 DEF GateInv, TypeOK, outboxVars
<1>3. AckedIsRecorded'
  <2>1. \A i \in DOMAIN acked : acked[i] \in Call
    BY DEF GateInv, TypeOK
  <2> QED
    BY <2>1 DEF GateInv, AckedIsRecorded, outboxVars
<1>4. QED
  BY <1>1, <1>2, <1>3
  DEF GateInv, MemoryMatchesFile, OutboxIsQueue, FlushInv, outboxVars

\* An event is delivered and remembered.
LEMMA DeliverStep ==
    ASSUME GateInv, Deliver
    PROVE  GateInv'
<1>1. /\ flush = "post" /\ flush' = "acked"
      /\ outbox # <<>>
      /\ history' = Recorded(Head(outbox))
      /\ UNCHANGED <<pc, answer, lock, outbox, file, accepted, acked, replay>>
  BY DEF Deliver, outboxVars
<1>2. Head(outbox) \in Call
  BY <1>1 DEF GateInv, TypeOK
<1>3. /\ history' \in [Call -> History]
      /\ history'[Head(outbox)] \in Closed
      /\ \A j \in Call : history[j] \in Closed => history'[j] \in Closed
  BY <1>1, <1>2, RecordedStep DEF GateInv
<1>4. TypeOK'
  BY <1>1, <1>3 DEF GateInv, TypeOK
<1>5. AckedIsRecorded'
  <2>1. \A i \in DOMAIN acked : acked[i] \in Call
    BY DEF GateInv, TypeOK
  <2> QED
    BY <1>1, <1>3, <2>1 DEF GateInv, AckedIsRecorded
<1>6. FlushInv' /\ AcceptedInv'
  BY <1>1, <1>3 DEF GateInv, FlushInv, AcceptedInv
<1>7. QED
  BY <1>1, <1>4, <1>5, <1>6 DEF GateInv, MemoryMatchesFile, OutboxIsQueue

\* A delivered event leaves the outbox, or stays if the file cannot be written.
LEMMA AcknowledgeStep ==
    ASSUME GateInv, acknowledge_first
    PROVE  GateInv'
<1>1. flush = "acked" /\ history' = history
  BY DEF acknowledge_first
<1>2. /\ outbox # <<>> /\ history[Head(outbox)] \in Closed
      /\ Head(outbox) \in Call /\ Tail(outbox) \in Seq(Call)
      /\ outbox \in Seq(Call) /\ acked \in Seq(Call)
      /\ outbox = file
  BY <1>1 DEF GateInv, TypeOK, FlushInv, MemoryMatchesFile
<1>3. CASE Unlock /\ UNCHANGED outboxVars
  BY <1>1, <1>3, LeaveStep DEF GateInv, TypeOK
<1>4. CASE /\ outbox' = Tail(outbox)
           /\ file' = outbox'
           /\ acked' = Append(acked, Head(outbox))
           /\ flush' = "post"
           /\ UNCHANGED <<pc, answer, lock, replay, accepted>>
  <2>1. TypeOK'
    BY <1>1, <1>2, <1>4 DEF GateInv, TypeOK
  <2>2. OutboxIsQueue'
    <3>1. acked \o outbox = Append(acked, Head(outbox)) \o Tail(outbox)
      BY <1>2, MoveHead
    <3> QED
      BY <1>2, <1>4, <3>1 DEF GateInv, OutboxIsQueue
  <2>3. AckedIsRecorded'
    <3>1. \A i \in DOMAIN acked' : \/ i \in DOMAIN acked /\ acked'[i] = acked[i]
                                   \/ acked'[i] = Head(outbox)
      BY <1>2, <1>4
    <3> QED
      BY <1>1, <1>2, <3>1 DEF GateInv, AckedIsRecorded
  <2>4. Len(file') <= MaxEvents
    BY <1>2, <1>4, GateAssumption DEF GateInv
  <2>5. AcceptedInv' /\ FlushInv'
    BY <1>1, <1>4 DEF GateInv, AcceptedInv, FlushInv
  <2> QED
    BY <1>4, <2>1, <2>2, <2>3, <2>4, <2>5 DEF GateInv, MemoryMatchesFile
<1>5. QED
  BY <1>3, <1>4 DEF acknowledge_first

\* The holder of the lock works on the outbox.
LEMMA FlushSteps ==
    ASSUME GateInv, FlushStep
    PROVE  GateInv'
<1>1. CASE EndFlush
  BY <1>1, LeaveStep DEF EndFlush, GateInv, TypeOK
<1>2. CASE FailDelivery
  <2>1. Head(outbox) \in Call /\ Unlock /\ UNCHANGED outboxVars
    BY <1>2 DEF FailDelivery, GateInv, TypeOK
  <2>2. /\ history' \in [Call -> History]
        /\ \A j \in Call : history[j] \in Closed => history'[j] \in Closed
    <3>1. CASE history' = Recorded(Head(outbox))
      BY <2>1, <3>1, RecordedStep DEF GateInv
    <3>2. CASE UNCHANGED history
      BY <3>2 DEF GateInv, TypeOK
    <3> QED
      BY <1>2, <3>1, <3>2 DEF FailDelivery
  <2> QED
    BY <2>1, <2>2, LeaveStep
<1>3. QED
  BY <1>1, <1>2, DeliverStep, AcknowledgeStep DEF FlushStep

\* A call goes on, outside the outbox.
LEMMA CallSteps ==
    ASSUME GateInv, NEW k \in Call, CallStep(k)
    PROVE  GateInv'
<1> DEFINE Quiet == {"new", "preflight", "allowed", "running", "finalize", "retry"}
<1>1. /\ pc[k] \in Quiet
      /\ \E s \in CallState : pc' = [pc EXCEPT ![k] = s]
      /\ UNCHANGED <<lock, flush, outboxVars, replay>>
  BY DEF CallStep, BeginCall, Allow, FailPreflight, RefuseDeadline, Dispatch,
         EndDispatch, Finalize, FailFinalize, Goto, Answer, CallState
<1>2. \E a \in Reply \ {"failure"} : answer' = [answer EXCEPT ![k] = a]
  <2>1. CASE RefuseDeadline(k) \/ Finalize(k)
    BY <2>1 DEF RefuseDeadline, Finalize, Answer, Reply
  <2>2. CASE UNCHANGED answer
    <3>1. answer[k] # "failure"
      <4> SUFFICES ASSUME answer[k] = "failure" PROVE FALSE
        OBVIOUS
      <4>1. PICK i \in DOMAIN accepted : accepted[i] = k
        BY DEF GateInv, AcceptedInv, TypeOK, Contains
      <4> QED
        BY <1>1, <4>1 DEF GateInv, AcceptedInv
    <3>2. answer' = [answer EXCEPT ![k] = answer[k]] /\ answer[k] \in Reply
      BY <2>2 DEF GateInv, TypeOK
    <3> QED
      BY <3>1, <3>2
  <2> QED
    BY <2>1, <2>2 DEF CallStep, BeginCall, Allow, FailPreflight, Dispatch,
                      EndDispatch, FailFinalize, Goto
<1>3. /\ history' \in [Call -> History]
      /\ \A j \in Call \ {k} : history[j] \in Closed => history'[j] \in Closed
  <2>1. CASE UNCHANGED history
    BY <2>1 DEF GateInv, TypeOK
  <2>2. CASE history' = [history EXCEPT ![k] = "final"]
    BY <2>2 DEF GateInv, TypeOK, History, Closed
  <2>3. CASE history' = [history EXCEPT ![k] = "allowed"]
    BY <2>3 DEF GateInv, TypeOK, History, Closed
  <2> QED
    BY <2>1, <2>2, <2>3 DEF CallStep, BeginCall, Allow, FailPreflight, RefuseDeadline,
       Dispatch, EndDispatch, Finalize, FailFinalize
<1>4. QED
  BY <1>1, <1>2, <1>3, QuietCall

\* A restart finds in the file what was in memory.
LEMMA RestartStep ==
    ASSUME GateInv, Restart
    PROVE  GateInv'
<1>1. /\ lock' = None /\ flush' = "none" /\ outbox' = file /\ replay' = "waiting"
      /\ UNCHANGED <<answer, history, file, accepted, acked>>
      /\ pc' = [k \in Call |->
                  IF pc[k] \in {"new", "done", "lost"} THEN pc[k] ELSE "lost"]
  BY DEF Restart
<1>2. pc' \in [Call -> CallState]
  BY <1>1 DEF GateInv, TypeOK, CallState
<1>3. TypeOK'
  BY <1>1, <1>2 DEF GateInv, TypeOK
<1>4. AcceptedInv'
  <2>1. \A i \in DOMAIN accepted : accepted[i] \in Call
    BY DEF GateInv, TypeOK
  <2>2. \A i \in DOMAIN accepted : pc'[accepted[i]] \in {"flushing", "done", "lost"}
    BY <1>1, <2>1 DEF GateInv, AcceptedInv
  <2> QED
    BY <1>1, <2>2, GateAssumption DEF GateInv, AcceptedInv
<1>5. QED
  BY <1>1, <1>3, <1>4
  DEF GateInv, MemoryMatchesFile, OutboxIsQueue, AckedIsRecorded, FlushInv

\* The replay task sleeps and takes the lock.
LEMMA ReplaySteps ==
    ASSUME GateInv, WakeReplay \/ ReplayLock
    PROVE  GateInv'
<1>1. UNCHANGED <<pc, answer, history, outbox, file, accepted, acked>>
  BY DEF WakeReplay, ReplayLock, outboxVars
<1>2. TypeOK'
  BY <1>1 DEF WakeReplay, ReplayLock, GateInv, TypeOK
<1>3. FlushInv' /\ AcceptedInv'
  <2>1. CASE WakeReplay
    BY <1>1, <2>1 DEF WakeReplay, GateInv, FlushInv, AcceptedInv
  <2>2. CASE ReplayLock
    BY <1>1, <2>2, GateAssumption DEF ReplayLock, GateInv, FlushInv, AcceptedInv
  <2> QED
    BY <2>1, <2>2
<1>4. QED
  BY <1>1, <1>2, <1>3 DEF GateInv, MemoryMatchesFile, OutboxIsQueue, AckedIsRecorded

\* The outbox starts as an empty queue.
LEMMA GateInit == Init => GateInv
<1> SUFFICES ASSUME Init PROVE GateInv
  OBVIOUS
<1>1. TypeOK
  BY DEF Init, TypeOK, CallState, Reply, History
<1>2. AcceptedInv
  BY GateAssumption DEF Init, AcceptedInv, IsInjective
<1>3. QED
  BY <1>1, <1>2, GateAssumption
  DEF Init, GateInv, MemoryMatchesFile, OutboxIsQueue, AckedIsRecorded, FlushInv

-----------------------------------------------------------------------------
(* Theorems *)

\* The inductive invariant: whatever crashes, fails or is lost, the outbox is a
\* durable queue of valid events (gate.rs, TerminalOutbox).
THEOREM GateConsistent == Spec => []GateInv
<1>1. GateInv /\ [Next]_vars => GateInv'
  <2> SUFFICES ASSUME GateInv, [Next]_vars PROVE GateInv'
    OBVIOUS
  <2>1. CASE UNCHANGED vars
    BY <2>1 DEF vars, outboxVars, GateInv, TypeOK, MemoryMatchesFile, OutboxIsQueue,
                AckedIsRecorded, AcceptedInv, FlushInv
  <2> QED
    BY <2>1, RecordTerminalStep, CallSteps, FlushSteps, ReplaySteps, RestartStep DEF Next
<1>2. QED
  BY <1>1, GateInit, PTL DEF Spec

\* All variables keep their types; in particular the agent gets one of the
\* sanitized answers (call_proxy_tool_inner).
THEOREM GateTypeCorrect == Spec => []TypeOK
<1>1. GateInv => TypeOK
  BY DEF GateInv
<1>2. QED
  BY <1>1, GateConsistent, PTL

\* Accepted events are delivered once and in order, or still waiting
\* (flush_terminal_locked).
THEOREM GateOutboxIsQueue == Spec => []OutboxIsQueue
<1>1. GateInv => OutboxIsQueue
  BY DEF GateInv
<1>2. QED
  BY <1>1, GateConsistent, PTL

\* Only events the service has on record leave the outbox (acknowledge_first).
THEOREM GateAckedIsRecorded == Spec => []AckedIsRecorded
<1>1. GateInv => AckedIsRecorded
  BY DEF GateInv
<1>2. QED
  BY <1>1, GateConsistent, PTL

\* Memory and file agree after every step, failed writes included (enqueue,
\* acknowledge_first).
THEOREM GateMemoryMatchesFile == Spec => []MemoryMatchesFile
<1>1. GateInv => MemoryMatchesFile
  BY DEF GateInv
<1>2. QED
  BY <1>1, GateConsistent, PTL

\* A call that was told of its failure has left a trace that survives: a final
\* record of the service or an event in the file (record_terminal).
THEOREM GateFailureIsRecorded == Spec => []FailureIsRecorded
<1>1. GateInv => FailureIsRecorded
  <2> SUFFICES ASSUME GateInv, NEW k \in Call, answer[k] = "failure"
               PROVE  history[k] \in Closed \/ Contains(file, k)
    BY DEF FailureIsRecorded
  <2>1. acked \in Seq(Call) /\ file \in Seq(Call)
    BY DEF GateInv, TypeOK
  <2>2. Contains(acked \o file, k)
    BY DEF GateInv, AcceptedInv, OutboxIsQueue
  <2>3. (\E i \in DOMAIN acked : acked[i] = k) \/ Contains(file, k)
    BY <2>1, <2>2, InPart
  <2> QED
    BY <2>3 DEF GateInv, AckedIsRecorded
<1>2. QED
  BY <1>1, GateConsistent, PTL

\* The file is one that TerminalOutbox::load accepts, at any moment.
THEOREM GateFileLoads == Spec => []FileLoads
<1>1. GateInv => FileLoads
  <2> SUFFICES ASSUME GateInv PROVE FileLoads
    OBVIOUS
  <2>1. acked \in Seq(Call) /\ file \in Seq(Call) /\ accepted = acked \o file
    BY DEF GateInv, TypeOK, OutboxIsQueue
  <2>2. ASSUME NEW i \in DOMAIN file
        PROVE  Len(acked) + i \in DOMAIN accepted /\ accepted[Len(acked) + i] = file[i]
    BY <2>1, <2>2, SecondPart
  <2>3. IsInjective(file)
    <3>1. \A i, j \in DOMAIN accepted : accepted[i] = accepted[j] => i = j
      BY DEF GateInv, AcceptedInv, IsInjective
    <3>2. ASSUME NEW i \in DOMAIN file, NEW j \in DOMAIN file, file[i] = file[j]
          PROVE  i = j
      <4>1. Len(acked) + i = Len(acked) + j
        BY <2>2, <3>1, <3>2
      <4>2. Len(acked) \in Nat /\ i \in Nat /\ j \in Nat
        BY <2>1
      <4> QED
        BY <4>1, <4>2
    <3> QED
      BY <3>2, Zenon DEF IsInjective
  <2>4. ASSUME NEW k \in Invalid, Contains(file, k) PROVE FALSE
    <3>1. PICK i \in DOMAIN file : file[i] = k
      BY <2>1, <2>4 DEF Contains
    <3> QED
      BY <2>2, <2>4, <3>1 DEF GateInv, AcceptedInv
  <2> QED
    BY <2>3, <2>4 DEF GateInv, FileLoads
<1>2. QED
  BY <1>1, GateConsistent, PTL
-----------------------------------------------------------------------------
(* How calls end *)

\* A call that has ended was finalized, or has left an event (failure), or was
\* told that there is no history, or was refused its deadline option.
EndedInv ==
    \A k \in Call : pc[k] = "done" =>
        \/ answer[k] \in {"failure", "history"}
        \/ answer[k] = "public" /\ history[k] = "final"
        \/ answer[k] = "error" /\ k \in Refused

\* The final record of a call stays, whatever event arrives late.
LEMMA FinalStays ==
    ASSUME TypeOK, NEW k \in Call, NEW j \in Call, history[j] = "final"
    PROVE  Recorded(k)[j] = "final"
BY DEF TypeOK, Recorded

\* Calls that end keep to one of the four ways, the others are not disturbed.
LEMMA EndedStep ==
    ASSUME TypeOK, EndedInv, [Next]_vars
    PROVE  EndedInv'
<1>1. ASSUME NEW k \in Call, CallStep(k) PROVE EndedInv'
  <2>1. \A j \in Call \ {k} : /\ pc'[j] = pc[j]
                              /\ answer'[j] = answer[j]
                              /\ history'[j] = history[j]
    BY <1>1 DEF TypeOK, CallStep, BeginCall, Allow, FailPreflight, RefuseDeadline,
       Dispatch, EndDispatch, Finalize, FailFinalize, Goto, Answer
  <2>2. pc'[k] = "done" => \/ answer'[k] = "public" /\ history'[k] = "final"
                           \/ answer'[k] = "error" /\ k \in Refused
    BY <1>1 DEF TypeOK, CallStep, BeginCall, Allow, FailPreflight, RefuseDeadline,
       Dispatch, EndDispatch, Finalize, FailFinalize, Goto, Answer
  <2> QED
    BY <2>1, <2>2 DEF EndedInv
<1>2. ASSUME NEW k \in Call, record_terminal(k) PROVE EndedInv'
  BY <1>2 DEF TypeOK, EndedInv, record_terminal, Answer
<1>3. ASSUME Unlock,
             \A j \in Call : history[j] = "final" => history'[j] = "final"
      PROVE  EndedInv'
  BY <1>3 DEF TypeOK, EndedInv, Unlock, Answer
<1>4. ASSUME UNCHANGED <<pc, answer>>,
             \A j \in Call : history[j] = "final" => history'[j] = "final"
      PROVE  EndedInv'
  BY <1>4 DEF EndedInv
<1>5. CASE FlushStep
  <2>1. \A j \in Call : history[j] = "final" => history'[j] = "final"
    <3>1. ASSUME outbox # <<>>, history' = Recorded(Head(outbox))
          PROVE  \A j \in Call : history[j] = "final" => history'[j] = "final"
      <4>1. Head(outbox) \in Call
        BY <3>1 DEF TypeOK
      <4> QED
        BY <3>1, <4>1, FinalStays
    <3> QED
      BY <1>5, <3>1 DEF FlushStep, EndFlush, Deliver, FailDelivery, acknowledge_first
  <2>2. Unlock \/ UNCHANGED <<pc, answer>>
    BY <1>5 DEF FlushStep, EndFlush, Deliver, FailDelivery, acknowledge_first
  <2> QED
    BY <1>3, <1>4, <2>1, <2>2
<1>6. CASE WakeReplay \/ ReplayLock \/ UNCHANGED vars
  BY <1>4, <1>6 DEF WakeReplay, ReplayLock, vars
<1>7. CASE Restart
  BY <1>7 DEF Restart, EndedInv
<1>8. QED
  BY <1>1, <1>2, <1>5, <1>6, <1>7 DEF Next

\* A call the service has allowed is finalized, or its event waits in the file,
\* or the agent knows that there is no history, whatever crashes or fails on
\* the way; only the call refused its deadline option is forgotten.
THEOREM GateAllowedIsClosed == Spec => []AllowedIsClosed
<1>1. Init => EndedInv
  BY DEF Init, EndedInv
<1>2. GateInv /\ EndedInv /\ [Next]_vars => EndedInv'
  BY EndedStep DEF GateInv
<1>3. FailureIsRecorded /\ EndedInv => AllowedIsClosed
  BY DEF FailureIsRecorded, EndedInv, AllowedIsClosed, Closed
<1>4. QED
  BY <1>1, <1>2, <1>3, GateConsistent, GateFailureIsRecorded, PTL DEF Spec
=============================================================================
