----------------------- MODULE SessionDispatcherProofs -----------------------
(***************************************************************************)
(* Proofs about SessionDispatcher for any set of calls, any deadlines and  *)
(* every way a connection may close.  DispatchInv is inductive, and on top *)
(* of it ReleaseInv (the drains) and ClientInv (what the client executes). *)
(***************************************************************************)
EXTENDS SessionDispatcher, SequenceTheorems, TLAPS

-----------------------------------------------------------------------------
(* Sequences *)

\* Appending keeps what was there.
LEMMA AppendFacts ==
    ASSUME NEW S, NEW s \in Seq(S), NEW e \in S
    PROVE  /\ Append(s, e) \in Seq(S)
           /\ DOMAIN Append(s, e) = DOMAIN s \cup {Len(s) + 1}
           /\ \A i \in DOMAIN s : Append(s, e)[i] = s[i]
           /\ Append(s, e)[Len(s) + 1] = e
           /\ DOMAIN s = 1..Len(s)
           /\ Len(s) \in Nat
OBVIOUS

\* t has elements of s only, in the same order.
Thinned(t, s) ==
    /\ \A a \in DOMAIN t : \E i \in DOMAIN s : t[a] = s[i]
    /\ \A a, b \in DOMAIN t : a < b =>
         \E i, j \in DOMAIN s : i < j /\ t[a] = s[i] /\ t[b] = s[j]

\* The tail keeps everything but the first place.
LEMMA TailThins ==
    ASSUME NEW S, NEW s \in Seq(S), s # <<>>
    PROVE  /\ Tail(s) \in Seq(S)
           /\ Thinned(Tail(s), s)
           /\ \A a \in DOMAIN Tail(s) : \E j \in DOMAIN s : 1 < j /\ Tail(s)[a] = s[j]
           /\ 1 \in DOMAIN s /\ Head(s) = s[1]
<1>1. /\ Tail(s) \in Seq(S)
      /\ Len(Tail(s)) = Len(s) - 1
      /\ \A i \in 1..Len(Tail(s)) : Tail(s)[i] = s[i + 1]
  BY HeadTailProperties
<1>2. Len(s) \in Nat \ {0} /\ DOMAIN s = 1..Len(s) /\ DOMAIN Tail(s) = 1..Len(s) - 1
  BY <1>1
<1>3. \A a \in DOMAIN Tail(s) : /\ a + 1 \in DOMAIN s
                                /\ 1 < a + 1
                                /\ Tail(s)[a] = s[a + 1]
  BY <1>1, <1>2
<1>4. \A a, b \in DOMAIN Tail(s) : a < b => a + 1 < b + 1
  BY <1>2
<1>5. Head(s) = s[1] /\ 1 \in DOMAIN s
  BY <1>2
<1>6. QED
  BY <1>1, <1>3, <1>4, <1>5 DEF Thinned

\* A waiter that leaves keeps the others in order.
LEMMA RemoveAtThins ==
    ASSUME NEW S, NEW s \in Seq(S), NEW n \in DOMAIN s
    PROVE  /\ RemoveAt(s, n) \in Seq(S)
           /\ Thinned(RemoveAt(s, n), s)
           /\ \A a \in DOMAIN RemoveAt(s, n) :
                \E j \in DOMAIN s : j # n /\ RemoveAt(s, n)[a] = s[j]
<1> DEFINE l == SubSeq(s, 1, n - 1)
           r == SubSeq(s, n + 1, Len(s))
           t == RemoveAt(s, n)
<1>1. Len(s) \in Nat /\ DOMAIN s = 1..Len(s) /\ n \in 1..Len(s)
  OBVIOUS
<1>2. /\ l \in Seq(S)
      /\ Len(l) = n - 1
      /\ \A i \in 1..n - 1 : l[i] = s[i]
  <2>1. \A i \in 1..n - 1 : s[i] \in S
    BY <1>1
  <2>2. n - 1 \in Int
    BY <1>1
  <2>3. QED
    BY <1>1, <2>1, <2>2, SubSeqProperties
<1>3. /\ r \in Seq(S)
      /\ Len(r) = Len(s) - n
      /\ \A i \in 1..Len(s) - n : r[i] = s[n + i]
  <2>1. \A i \in n + 1..Len(s) : s[i] \in S
    BY <1>1
  <2>2. n + 1 \in Int /\ Len(s) \in Int
    BY <1>1
  <2>3. /\ r \in Seq(S)
        /\ Len(r) = IF n + 1 <= Len(s) THEN Len(s) - (n + 1) + 1 ELSE 0
        /\ \A i \in 1..Len(s) - (n + 1) + 1 : r[i] = s[(n + 1) + i - 1]
    BY <2>1, <2>2, SubSeqProperties
  <2>4. QED
    BY <1>1, <2>3
<1>4. t = l \o r
  BY DEF RemoveAt
<1>5. /\ t \in Seq(S)
      /\ DOMAIN t = 1..Len(s) - 1
      /\ \A i \in 1..Len(s) - 1 : t[i] = IF i < n THEN s[i] ELSE s[i + 1]
  <2> HIDE DEF l, r, t
  <2>1. /\ t \in Seq(S)
        /\ Len(t) = Len(l) + Len(r)
        /\ \A i \in 1..Len(l) + Len(r) :
             t[i] = IF i <= Len(l) THEN l[i] ELSE r[i - Len(l)]
    BY <1>2, <1>3, <1>4, ConcatProperties
  <2>2. Len(l) + Len(r) = Len(s) - 1
    BY <1>1, <1>2, <1>3
  <2>3. DOMAIN t = 1..Len(s) - 1
    BY <2>1, <2>2
  <2>4. ASSUME NEW i \in 1..Len(s) - 1
        PROVE  t[i] = IF i < n THEN s[i] ELSE s[i + 1]
    <3>1. CASE i < n
      BY <1>1, <1>2, <2>1, <2>2, <3>1
    <3>2. CASE ~(i < n)
      <4>1. /\ i - (n - 1) \in 1..Len(s) - n
            /\ n + (i - (n - 1)) = i + 1
            /\ ~(i <= n - 1)
        BY <1>1, <3>2
      <4>2. t[i] = r[i - (n - 1)]
        BY <1>2, <2>1, <2>2, <4>1
      <4>3. QED
        BY <1>3, <3>2, <4>1, <4>2
    <3>3. QED
      BY <3>1, <3>2
  <2>5. QED
    BY <2>1, <2>3, <2>4
<1>6. ASSUME NEW a \in DOMAIN t
      PROVE  \E i \in DOMAIN s : i # n /\ t[a] = s[i]
  <2> DEFINE i == IF a < n THEN a ELSE a + 1
  <2>1. i \in DOMAIN s /\ i # n
    BY <1>1, <1>5
  <2>2. t[a] = s[i]
    BY <1>5
  <2>3. QED
    BY <2>1, <2>2
<1>7. ASSUME NEW a \in DOMAIN t, NEW b \in DOMAIN t, a < b
      PROVE  \E i, j \in DOMAIN s : i < j /\ t[a] = s[i] /\ t[b] = s[j]
  <2> DEFINE i == IF a < n THEN a ELSE a + 1
             j == IF b < n THEN b ELSE b + 1
  <2>1. i \in DOMAIN s /\ j \in DOMAIN s /\ i < j
    BY <1>1, <1>5, <1>7
  <2>2. t[a] = s[i] /\ t[b] = s[j]
    BY <1>5
  <2>3. QED
    BY <2>1, <2>2
<1>8. QED
  BY <1>5, <1>6, <1>7 DEF Thinned

-----------------------------------------------------------------------------
(* Types *)

\* The invariant holds when the session starts.
LEMMA InitDispatch == Init => DispatchInv
<1> SUFFICES ASSUME Init PROVE DispatchInv
  OBVIOUS
<1> USE DEF Init
<1>1. TypeOK
  <2>1. /\ outbound \in BOOLEAN
        /\ writer \in BOOLEAN
        /\ registered \in BOOLEAN
    BY Zenon
  <2>2. queue \in Seq(Call) /\ sent \in Seq(Call)
    OBVIOUS
  <2>3. QED
    BY <2>1, <2>2 DEF TypeOK, CallState, Outcome, Answer, SocketState, ShutdownState
<1>2. OneCallAtATime
  BY DEF OneCallAtATime, Holding
<1>3. DOMAIN queue = {} /\ DOMAIN sent = {}
  OBVIOUS
<1>4. QueueInv /\ SentInv /\ FifoOrder /\ GivenUpNeverSent
  BY <1>3 DEF QueueInv, SentInv, FifoOrder, GivenUpNeverSent
<1>5. AnswerInv /\ PendingHasWaiter
  BY DEF AnswerInv, PendingHasWaiter
<1>6. QED
  BY <1>1, <1>2, <1>4, <1>5 DEF DispatchInv

\* Every step keeps the types; that inflight does not fall below zero takes
\* OneCallAtATime.
LEMMA TypeStep ==
    ASSUME TypeOK, OneCallAtATime, [Next]_vars
    PROVE  TypeOK'
<1> USE DEF callVars, arrivalVars, signalVars, tableVars, clientVars, closeVars
<1>1. ASSUME NEW k \in Call, JoinQueue(k) PROVE TypeOK'
  <2>1. Append(queue, k) \in Seq(Call)
    BY AppendFacts DEF TypeOK
  <2>2. CASE dispatcher = "Drained"
    BY <1>1, <2>2 DEF TypeOK, JoinQueue, Return, CallState, Outcome
  <2>3. CASE dispatcher = "Open"
    <3>1. pc' \in [Call -> CallState] /\ queue' \in Seq(Call)
      BY <1>1, <2>1, <2>3 DEF TypeOK, JoinQueue, CallState
    <3>2. ticket' \in [Call -> Nat] /\ tickets' \in Nat
      <4>1. ticket \in [Call -> Nat] /\ tickets \in Nat
        BY DEF TypeOK
      <4>2. tickets' = tickets + 1 /\ ticket' = [ticket EXCEPT ![k] = tickets + 1]
        BY <1>1, <2>3 DEF JoinQueue
      <4>3. QED
        BY <4>1, <4>2
    <3>3. QED
      BY <1>1, <2>3, <3>1, <3>2 DEF TypeOK, JoinQueue
  <2>4. QED
    BY <2>2, <2>3 DEF TypeOK
<1>2. ASSUME NEW k \in Call, GiveUpQueued(k) PROVE TypeOK'
  <2>1. queue' \in Seq(Call)
    BY <1>2, RemoveAtThins DEF TypeOK, GiveUpQueued, LeaveQueue
  <2>2. QED
    BY <1>2, <2>1 DEF TypeOK, GiveUpQueued, Return, CallState, Outcome
<1>3. ASSUME NEW k \in Call, Admit(k) PROVE TypeOK'
  <2>1. queue' \in Seq(Call)
    BY <1>3, TailThins DEF TypeOK, Admit
  <2>2. CASE dispatcher = "Drained"
    BY <1>3, <2>1, <2>2, ZenonT(60) DEF TypeOK, Admit, Return, CallState, Outcome
  <2>3. CASE dispatcher = "Open"
    <3>1. pc' = [pc EXCEPT ![k] = "admitted"] /\ permits' = 0
          /\ inflight' = inflight + 1
      BY <1>3, <2>3 DEF Admit
    <3>2. pc' \in [Call -> CallState] /\ inflight' \in Nat
      BY <3>1 DEF TypeOK, CallState
    <3>3. QED
      BY <1>3, <2>1, <2>3, <3>1, <3>2 DEF TypeOK, Admit
  <2>4. QED
    BY <2>2, <2>3 DEF TypeOK
<1>4. ASSUME NEW k \in Call, pc[k] \in Holding PROVE inflight - 1 \in Nat
  BY <1>4 DEF OneCallAtATime
<1>5. ASSUME NEW k \in Call, CheckHandle(k) PROVE TypeOK'
  BY <1>4, <1>5 DEF TypeOK, CheckHandle, Release, Return, CallState, Outcome, Holding
<1>6. ASSUME NEW k \in Call, InsertPending(k) PROVE TypeOK'
  BY <1>6 DEF TypeOK, InsertPending, CallState
<1>7. ASSUME NEW k \in Call, SendRequest(k) PROVE TypeOK'
  <2>1. sent' \in Seq(Call)
    <3>1. Append(sent, k) \in Seq(Call)
      BY AppendFacts DEF TypeOK
    <3>2. QED
      BY <1>7, <3>1 DEF TypeOK, SendRequest
  <2>2. QED
    BY <1>4, <1>7, <2>1
    DEF TypeOK, SendRequest, Release, Return, CallState, Outcome, Holding
<1>8. ASSUME NEW k \in Call, TakeAnswer(k) PROVE TypeOK'
  BY <1>4, <1>8
  DEF TypeOK, TakeAnswer, Release, Return, CallState, Outcome, Answer, Holding
<1>9. ASSUME NEW k \in Call, TimeOut(k) PROVE TypeOK'
  BY <1>4, <1>9 DEF TypeOK, TimeOut, Release, Return, CallState, Outcome, Holding
<1>10. ASSUME NEW k \in Call, SendCancel(k) PROVE TypeOK'
  BY <1>10 DEF TypeOK, SendCancel
<1>11. ASSUME NEW k \in Call, FireCancellation(k) \/ PassDeadline(k) PROVE TypeOK'
  BY <1>11 DEF TypeOK, FireCancellation, PassDeadline
<1>12. CASE ReceiveRequest
  <2>1. sent[delivered + 1] \in Call
    BY <1>12 DEF TypeOK, ReceiveRequest
  <2>2. QED
    BY <1>12, <2>1 DEF TypeOK, ReceiveRequest
<1>13. ASSUME NEW k \in Call, NEW a \in Answer, CompleteResponse(k, a) PROVE TypeOK'
  BY <1>13 DEF TypeOK, CompleteResponse
<1>14. ASSUME NEW k \in Call, ConfirmCancel(k) PROVE TypeOK'
  BY <1>14 DEF TypeOK, ConfirmCancel
<1>15. CASE FailWriter
  BY <1>15 DEF TypeOK, FailWriter
<1>16. CASE LeaveLoop
  BY <1>16 DEF TypeOK, LeaveLoop, SocketState
<1>17. CASE TearDown
  <2>1. writer' \in BOOLEAN /\ registered' \in BOOLEAN
    BY <1>17, Zenon DEF TearDown
  <2>2. socket' \in SocketState
    BY <1>17 DEF TearDown, CloseConnection, MarkDisconnected, SocketState
  <2>3. QED
    BY <1>17, <2>1, <2>2 DEF TypeOK, TearDown, CloseConnection,
       MarkDisconnected, StoreDisconnected, ClearPending,
                             TakeOutbound, DrainDispatcher
<1>18. CASE ShutDown
  <2>1. registered' \in BOOLEAN
    BY <1>18, Zenon DEF ShutDown
  <2>2. shutdown' \in ShutdownState
    BY <1>18 DEF ShutDown, ShutdownState
  <2>3. QED
    BY <1>18, <2>1, <2>2 DEF TypeOK, ShutDown, StoreDisconnected, ClearPending,
                             TakeOutbound, DrainDispatcher
<1>19. CASE UNCHANGED vars
  BY <1>19 DEF TypeOK, vars
<1>20. QED
  BY <1>1, <1>2, <1>3, <1>5, <1>6, <1>7, <1>8, <1>9, <1>10, <1>11, <1>12, <1>13,
     <1>14, <1>15, <1>16, <1>17, <1>18, <1>19
  DEF Next, CallStep, ClientStep

-----------------------------------------------------------------------------
(* The permit *)

\* What the other steps leave alone.
LEMMA QuietStep ==
    ASSUME [Next]_vars,
           \A k \in Call : ~JoinQueue(k) /\ ~CallStep(k)
    PROVE  UNCHANGED <<pc, outcome, queue, permits, inflight, ticket, tickets, sent>>
BY DEF Next, ClientStep, FireCancellation, PassDeadline, ReceiveRequest,
       CompleteResponse, ConfirmCancel, FailWriter, LeaveLoop, TearDown,
       CloseConnection, MarkDisconnected, ShutDown,
       vars, callVars, arrivalVars

\* A step that moves no call in or out of the holders keeps the count.
LEMMA HoldersKept ==
    ASSUME TypeOK, OneCallAtATime, UNCHANGED <<permits, inflight>>,
           \A k \in Call : pc'[k] \in Holding <=> pc[k] \in Holding
    PROVE  OneCallAtATime'
BY DEF OneCallAtATime

\* Returning gives the permit back, whatever the outcome.
LEMMA ReleaseFreesPermit ==
    ASSUME TypeOK, OneCallAtATime, NEW k \in Call, NEW o, pc[k] \in Holding,
           Release(k, o)
    PROVE  OneCallAtATime'
<1>1. inflight = 1
  BY DEF OneCallAtATime
<1>2. permits' = 1 /\ inflight' = 0
  BY <1>1 DEF Release
<1>3. \A j \in Call : pc'[j] \notin Holding
  BY DEF OneCallAtATime, Release, Return, TypeOK, Holding
<1>4. QED
  BY <1>2, <1>3 DEF OneCallAtATime

\* Every step keeps one holder, counted by inflight and by the semaphore.
LEMMA OneCallStep ==
    ASSUME TypeOK, OneCallAtATime, [Next]_vars
    PROVE  OneCallAtATime'
<1>1. ASSUME NEW k \in Call, JoinQueue(k) \/ GiveUpQueued(k) PROVE OneCallAtATime'
  BY <1>1, HoldersKept DEF JoinQueue, GiveUpQueued, Return, TypeOK, Holding
<1>2. ASSUME NEW k \in Call, Admit(k) PROVE OneCallAtATime'
  <2>1. CASE dispatcher = "Drained"
    BY <1>2, <2>1, HoldersKept DEF Admit, Return, TypeOK, Holding
  <2>2. CASE dispatcher = "Open"
    <3>1. inflight = 0
      BY <1>2 DEF Admit, OneCallAtATime, TypeOK
    <3>2. \A j \in Call : pc[j] \notin Holding
      BY <3>1 DEF OneCallAtATime
    <3>3. /\ pc' = [pc EXCEPT ![k] = "admitted"]
          /\ permits' = 0
          /\ inflight' = 1
      BY <1>2, <2>2, <3>1 DEF Admit
    <3>4. /\ pc'[k] \in Holding
          /\ \A j \in Call : pc'[j] \in Holding => j = k
      BY <3>2, <3>3 DEF TypeOK, Holding
    <3>5. QED
      BY <3>3, <3>4 DEF OneCallAtATime
  <2>3. QED
    BY <2>1, <2>2 DEF TypeOK
<1>3. ASSUME NEW k \in Call, CheckHandle(k) PROVE OneCallAtATime'
  <2>1. CASE handle = "Active"
    BY <1>3, <2>1, HoldersKept DEF CheckHandle, TypeOK, Holding
  <2>2. CASE handle = "Disconnected"
    BY <1>3, <2>2, ReleaseFreesPermit DEF CheckHandle, Holding
  <2>3. QED
    BY <2>1, <2>2 DEF TypeOK
<1>4. ASSUME NEW k \in Call, InsertPending(k) PROVE OneCallAtATime'
  BY <1>4, HoldersKept DEF InsertPending, TypeOK, Holding
<1>5. ASSUME NEW k \in Call, SendRequest(k) PROVE OneCallAtATime'
  <2>1. CASE outbound /\ writer
    BY <1>5, <2>1, HoldersKept DEF SendRequest, TypeOK, Holding
  <2>2. CASE ~(outbound /\ writer)
    BY <1>5, <2>2, ReleaseFreesPermit DEF SendRequest, Holding
  <2>3. QED
    BY <2>1, <2>2
<1>6. ASSUME NEW k \in Call, TakeAnswer(k) \/ TimeOut(k) PROVE OneCallAtATime'
  BY <1>6, ReleaseFreesPermit DEF TakeAnswer, TimeOut, Holding
<1>7. ASSUME NEW k \in Call, SendCancel(k) PROVE OneCallAtATime'
  BY <1>7, HoldersKept DEF SendCancel
<1>8. ASSUME \A k \in Call : ~JoinQueue(k) /\ ~CallStep(k) PROVE OneCallAtATime'
  BY <1>8, QuietStep, HoldersKept
<1>9. QED
  BY <1>1, <1>2, <1>3, <1>4, <1>5, <1>6, <1>7, <1>8 DEF CallStep

-----------------------------------------------------------------------------
(* The order of the calls *)

OrderInv == QueueInv /\ SentInv /\ FifoOrder

\* Calls that leave the queue or go on to their end disturb no order.
LEMMA OrderKept ==
    ASSUME TypeOK, TypeOK', OrderInv,
           UNCHANGED <<ticket, tickets, sent>>,
           Thinned(queue', queue),
           \A i \in DOMAIN queue' : pc'[queue'[i]] = "queued",
           \A k \in Call :
               /\ pc'[k] \in Holding => pc[k] \in Holding
               /\ pc'[k] \in Holding \ {"waiting"} => pc[k] \in Holding \ {"waiting"}
               /\ pc[k] \in {"waiting", "done"} => pc'[k] \in {"waiting", "done"}
    PROVE  OrderInv'
<1>1. /\ \A a \in DOMAIN queue' : \E i \in DOMAIN queue : queue'[a] = queue[i]
      /\ \A a, b \in DOMAIN queue' : a < b =>
           \E i, j \in DOMAIN queue :
               i < j /\ queue'[a] = queue[i] /\ queue'[b] = queue[j]
  BY DEF Thinned
<1>2. QueueInv'
  BY <1>1 DEF OrderInv, QueueInv
<1>3. SentInv'
  <2>1. \A i \in DOMAIN sent : sent[i] \in Call
    BY DEF TypeOK
  <2>2. QED
    BY <1>1, <2>1 DEF OrderInv, SentInv
<1>4. FifoOrder'
  BY DEF OrderInv, FifoOrder
<1>5. QED
  BY <1>2, <1>3, <1>4 DEF OrderInv

\* A step that leaves the queue alone keeps its order.
LEMMA SameQueueThins ==
    ASSUME TypeOK, queue' = queue
    PROVE  Thinned(queue', queue)
BY DEF Thinned, TypeOK

\* A call joins behind everyone: its ticket is larger than all tickets given.
LEMMA JoinKeepsOrder ==
    ASSUME TypeOK, TypeOK', OrderInv, NEW k \in Call, JoinQueue(k),
           dispatcher = "Open"
    PROVE  OrderInv'
<1> DEFINE n == Len(queue) + 1
<1>1. /\ pc[k] = "new"
      /\ pc' = [pc EXCEPT ![k] = "queued"]
      /\ queue' = Append(queue, k)
      /\ tickets' = tickets + 1
      /\ ticket' = [ticket EXCEPT ![k] = tickets + 1]
      /\ sent' = sent
  BY DEF JoinQueue
<1>2. /\ DOMAIN queue' = DOMAIN queue \cup {n}
      /\ \A i \in DOMAIN queue : queue'[i] = queue[i] /\ i < n /\ queue[i] \in Call
      /\ queue'[n] = k
      /\ n \in Nat
      /\ DOMAIN queue \subseteq Nat
  <2>1. queue \in Seq(Call)
    BY DEF TypeOK
  <2>2. QED
    BY <1>1, <2>1, AppendFacts
<1>3. /\ \A i \in DOMAIN queue : queue[i] # k
      /\ \A i \in DOMAIN sent : sent[i] # k /\ sent[i] \in Call
  <2>1. \A i \in DOMAIN queue : pc[queue[i]] = "queued"
    BY DEF OrderInv, QueueInv
  <2>2. \A i \in DOMAIN sent : pc[sent[i]] \in {"waiting", "done"}
    BY DEF OrderInv, SentInv
  <2>3. \A i \in DOMAIN sent : sent[i] \in Call
    BY DEF TypeOK
  <2>4. QED
    BY <1>1, <2>1, <2>2, <2>3
<1>4. /\ \A j \in Call : j # k => pc'[j] = pc[j] /\ ticket'[j] = ticket[j]
      /\ pc'[k] = "queued"
      /\ ticket'[k] = tickets + 1
  BY <1>1 DEF TypeOK
<1>5. /\ tickets \in Nat
      /\ \A j \in Call : ticket[j] \in Nat /\ ticket[j] <= tickets
  BY DEF OrderInv, QueueInv, TypeOK
<1>6. \A j \in Call : ticket[j] < tickets + 1
  BY <1>5
<1>7. \A i \in DOMAIN queue : ~(n < i)
  BY <1>2
<1> HIDE DEF n
<1>8. QueueInv'
  <2>1. \A j \in Call : ticket'[j] <= tickets'
    <3>1. \A j \in Call : ticket[j] <= tickets + 1
      BY <1>5
    <3>2. tickets + 1 <= tickets + 1
      BY <1>5
    <3>3. QED
      BY <1>1, <1>4, <3>1, <3>2
  <2>2. \A i \in DOMAIN queue' : pc'[queue'[i]] = "queued"
    BY <1>2, <1>3, <1>4 DEF OrderInv, QueueInv
  <2>3. \A i, j \in DOMAIN queue' : i < j => ticket'[queue'[i]] < ticket'[queue'[j]]
    <3>1. ~(n < n)
      BY <1>2
    <3>2. QED
      BY <1>2, <1>3, <1>4, <1>6, <1>7, <3>1 DEF OrderInv, QueueInv
  <2>4. \A j \in Call, i \in DOMAIN queue' :
           pc'[j] \in Holding => ticket'[j] < ticket'[queue'[i]]
    BY <1>2, <1>3, <1>4, <1>6 DEF OrderInv, QueueInv, Holding
  <2>5. QED
    BY <2>1, <2>2, <2>3, <2>4 DEF QueueInv
<1>9. SentInv'
  <2>1. \A i \in DOMAIN sent' : pc'[sent'[i]] \in {"waiting", "done"}
    BY <1>1, <1>3, <1>4 DEF OrderInv, SentInv
  <2>2. \A i \in DOMAIN sent', j \in DOMAIN queue' :
           ticket'[sent'[i]] < ticket'[queue'[j]]
    BY <1>1, <1>2, <1>3, <1>4, <1>6 DEF OrderInv, SentInv
  <2>3. \A i \in DOMAIN sent', j \in Call :
           pc'[j] \in Holding \ {"waiting"} => ticket'[sent'[i]] < ticket'[j]
    BY <1>1, <1>3, <1>4 DEF OrderInv, SentInv, Holding
  <2>4. QED
    BY <2>1, <2>2, <2>3 DEF SentInv
<1>10. FifoOrder'
  BY <1>1, <1>3, <1>4 DEF OrderInv, FifoOrder
<1>11. QED
  BY <1>8, <1>9, <1>10 DEF OrderInv

\* The first waiter has the smallest ticket of the queue, and a larger one than
\* anything that was sent.
LEMMA AdmitKeepsOrder ==
    ASSUME TypeOK, TypeOK', OneCallAtATime, OrderInv, NEW k \in Call, Admit(k),
           dispatcher = "Open"
    PROVE  OrderInv'
<1>1. /\ pc[k] = "queued"
      /\ permits = 1
      /\ queue # <<>>
      /\ Head(queue) = k
      /\ queue' = Tail(queue)
      /\ pc' = [pc EXCEPT ![k] = "admitted"]
      /\ UNCHANGED <<ticket, tickets, sent>>
  BY DEF Admit, arrivalVars
<1>2. /\ \A a \in DOMAIN queue' : \E i \in DOMAIN queue : queue'[a] = queue[i]
      /\ \A a, b \in DOMAIN queue' : a < b =>
           \E i, j \in DOMAIN queue :
               i < j /\ queue'[a] = queue[i] /\ queue'[b] = queue[j]
      /\ \A a \in DOMAIN queue' : \E j \in DOMAIN queue : 1 < j /\ queue'[a] = queue[j]
      /\ 1 \in DOMAIN queue /\ queue[1] = k
  <2>1. queue \in Seq(Call)
    BY DEF TypeOK
  <2>2. /\ Thinned(Tail(queue), queue)
        /\ \A a \in DOMAIN Tail(queue) :
             \E j \in DOMAIN queue : 1 < j /\ Tail(queue)[a] = queue[j]
        /\ 1 \in DOMAIN queue /\ Head(queue) = queue[1]
    BY <1>1, <2>1, TailThins
  <2>3. QED
    BY <1>1, <2>2 DEF Thinned
<1>3. \A a \in DOMAIN queue' : ticket[k] < ticket[queue'[a]]
  BY <1>2 DEF OrderInv, QueueInv
<1>4. \A j \in Call : pc[j] \notin Holding
  <2>1. inflight = 0
    BY <1>1 DEF OneCallAtATime, TypeOK
  <2>2. QED
    BY <2>1 DEF OneCallAtATime
<1>5. \A a \in DOMAIN queue' : queue'[a] # k
  <2>1. ~(ticket[k] < ticket[k])
    BY DEF TypeOK
  <2>2. QED
    BY <1>3, <2>1
<1>6. \A j \in Call : j # k => pc'[j] = pc[j]
  BY <1>1 DEF TypeOK
<1>7. pc'[k] = "admitted"
  BY <1>1 DEF TypeOK
<1>8. \A a \in DOMAIN queue' : queue'[a] \in Call
  BY DEF TypeOK
<1>9. QueueInv'
  <2>1. \A j \in Call : ticket'[j] <= tickets'
    BY <1>1 DEF OrderInv, QueueInv
  <2>2. \A i \in DOMAIN queue' : pc'[queue'[i]] = "queued"
    BY <1>2, <1>5, <1>6, <1>8 DEF OrderInv, QueueInv
  <2>3. \A i, j \in DOMAIN queue' : i < j => ticket'[queue'[i]] < ticket'[queue'[j]]
    BY <1>1, <1>2 DEF OrderInv, QueueInv
  <2>4. \A j \in Call, i \in DOMAIN queue' :
           pc'[j] \in Holding => ticket'[j] < ticket'[queue'[i]]
    BY <1>1, <1>3, <1>4, <1>6
  <2>5. QED
    BY <2>1, <2>2, <2>3, <2>4 DEF QueueInv
<1>10. SentInv'
  <2>1. \A i \in DOMAIN sent : sent[i] \in Call /\ sent[i] # k
    BY <1>1 DEF OrderInv, SentInv, TypeOK
  <2>2. \A i \in DOMAIN sent' : pc'[sent'[i]] \in {"waiting", "done"}
    BY <1>1, <1>6, <2>1 DEF OrderInv, SentInv
  <2>3. \A i \in DOMAIN sent', j \in DOMAIN queue' :
           ticket'[sent'[i]] < ticket'[queue'[j]]
    BY <1>1, <1>2 DEF OrderInv, SentInv
  <2>4. \A i \in DOMAIN sent', j \in Call :
           pc'[j] \in Holding \ {"waiting"} => ticket'[sent'[i]] < ticket'[j]
    BY <1>1, <1>2, <1>4, <1>6 DEF OrderInv, SentInv
  <2>5. QED
    BY <2>2, <2>3, <2>4 DEF SentInv
<1>11. FifoOrder'
  BY <1>1 DEF OrderInv, FifoOrder
<1>12. QED
  BY <1>9, <1>10, <1>11 DEF OrderInv

\* The call that sends is the only holder of the permit, so nothing that was
\* admitted before it is still to be sent.
LEMMA SendKeepsOrder ==
    ASSUME TypeOK, TypeOK', OneCallAtATime, OrderInv, NEW k \in Call,
           SendRequest(k), outbound /\ writer
    PROVE  OrderInv'
<1> DEFINE n == Len(sent) + 1
<1>1. /\ pc[k] = "inserted"
      /\ pc' = [pc EXCEPT ![k] = "waiting"]
      /\ sent' = Append(sent, k)
      /\ UNCHANGED <<queue, ticket, tickets>>
  BY DEF SendRequest, arrivalVars
<1>2. /\ DOMAIN sent' = DOMAIN sent \cup {n}
      /\ \A i \in DOMAIN sent : sent'[i] = sent[i] /\ i < n /\ sent[i] \in Call
      /\ sent'[n] = k
      /\ n \in Nat
      /\ DOMAIN sent \subseteq Nat
  <2>1. sent \in Seq(Call)
    BY DEF TypeOK
  <2>2. QED
    BY <1>1, <2>1, AppendFacts
<1>3. /\ \A j \in Call : j # k => pc'[j] = pc[j]
      /\ pc'[k] = "waiting"
  BY <1>1 DEF TypeOK
<1>4. \A j \in Call : j # k => pc[j] \notin Holding
  BY <1>1 DEF OneCallAtATime, Holding
<1>5. \A i \in DOMAIN queue : queue[i] \in Call /\ queue[i] # k
  <2>1. \A i \in DOMAIN queue : queue[i] \in Call
    BY DEF TypeOK
  <2>2. QED
    BY <1>1, <2>1 DEF OrderInv, QueueInv
<1>6. \A i \in DOMAIN sent : sent[i] # k /\ ticket[sent[i]] < ticket[k]
  <2>1. pc[k] \in Holding \ {"waiting"} /\ pc[k] \notin {"waiting", "done"}
    BY <1>1 DEF Holding
  <2>2. QED
    BY <2>1 DEF OrderInv, SentInv
<1>7. \A j \in DOMAIN queue : ticket[k] < ticket[queue[j]]
  <2>1. pc[k] \in Holding
    BY <1>1 DEF Holding
  <2>2. QED
    BY <2>1 DEF OrderInv, QueueInv
<1>8. ~(n < n) /\ \A i \in DOMAIN sent : ~(n < i)
  BY <1>2
<1> HIDE DEF n
<1>9. QueueInv'
  <2>1. \A j \in Call : pc'[j] \in Holding => pc[j] \in Holding
    BY <1>1, <1>3, <1>4 DEF Holding
  <2>2. \A i \in DOMAIN queue : pc'[queue[i]] = "queued"
    BY <1>3, <1>5 DEF OrderInv, QueueInv
  <2>3. QED
    BY <1>1, <2>1, <2>2 DEF OrderInv, QueueInv
<1>10. SentInv'
  <2>1. \A i \in DOMAIN sent' : pc'[sent'[i]] \in {"waiting", "done"}
    BY <1>2, <1>3, <1>6 DEF OrderInv, SentInv
  <2>2. \A i \in DOMAIN sent', j \in DOMAIN queue' :
           ticket'[sent'[i]] < ticket'[queue'[j]]
    BY <1>1, <1>2, <1>7 DEF OrderInv, SentInv
  <2>3. \A j \in Call : pc'[j] \notin Holding \ {"waiting"}
    BY <1>3, <1>4
  <2>4. QED
    BY <2>1, <2>2, <2>3 DEF SentInv
<1>11. FifoOrder'
  BY <1>1, <1>2, <1>6, <1>8 DEF OrderInv, FifoOrder
<1>12. QED
  BY <1>9, <1>10, <1>11 DEF OrderInv

\* A call is in the queue once: what is left when its place is taken away does
\* not hold it any more.
LEMMA LeftTheQueue ==
    ASSUME TypeOK, OrderInv, NEW n \in DOMAIN queue,
           \A a \in DOMAIN queue' :
               \E j \in DOMAIN queue : j # n /\ queue'[a] = queue[j]
    PROVE  \A a \in DOMAIN queue' : queue'[a] # queue[n]
<1>1. DOMAIN queue \subseteq Nat /\ \A j \in DOMAIN queue : ticket[queue[j]] \in Nat
  BY DEF TypeOK
<1>2. ASSUME NEW j \in DOMAIN queue, j # n PROVE queue[j] # queue[n]
  <2>1. j < n \/ n < j
    BY <1>1, <1>2
  <2>2. ticket[queue[j]] < ticket[queue[n]] \/ ticket[queue[n]] < ticket[queue[j]]
    BY <2>1 DEF OrderInv, QueueInv
  <2>3. QED
    BY <1>1, <2>2
<1>3. QED
  BY <1>2

\* Every step keeps the order of the queue and of what was sent.
LEMMA OrderStep ==
    ASSUME TypeOK, TypeOK', OneCallAtATime, OrderInv, [Next]_vars
    PROVE  OrderInv'
<1> DEFINE Onward ==
        \A k \in Call :
            /\ pc'[k] \in Holding => pc[k] \in Holding
            /\ pc'[k] \in Holding \ {"waiting"} => pc[k] \in Holding \ {"waiting"}
            /\ pc[k] \in {"waiting", "done"} => pc'[k] \in {"waiting", "done"}
<1>0. \A i \in DOMAIN queue : pc[queue[i]] = "queued" /\ queue[i] \in Call
  <2>1. \A i \in DOMAIN queue : queue[i] \in Call
    BY DEF TypeOK
  <2>2. QED
    BY <2>1 DEF OrderInv, QueueInv
<1>1. ASSUME NEW k \in Call, pc[k] # "queued", NEW s \in CallState,
             pc' = [pc EXCEPT ![k] = s]
      PROVE  \A i \in DOMAIN queue : pc'[queue[i]] = "queued"
  BY <1>0, <1>1 DEF TypeOK
<1>2. ASSUME UNCHANGED <<queue, ticket, tickets, sent>>,
             \A i \in DOMAIN queue : pc'[queue[i]] = "queued",
             Onward
      PROVE  OrderInv'
  BY <1>2, OrderKept, SameQueueThins
<1>3. ASSUME NEW k \in Call, JoinQueue(k) PROVE OrderInv'
  <2>1. CASE dispatcher = "Drained"
    <3>1. pc' = [pc EXCEPT ![k] = "done"] /\ pc[k] = "new"
      BY <1>3, <2>1 DEF JoinQueue, Return
    <3>2. Onward
      BY <3>1 DEF TypeOK, Holding
    <3>3. UNCHANGED <<queue, ticket, tickets, sent>>
      BY <1>3, <2>1 DEF JoinQueue, arrivalVars
    <3>4. QED
      BY <1>1, <1>2, <3>1, <3>2, <3>3 DEF CallState
  <2>2. CASE dispatcher = "Open"
    BY <1>3, <2>2, JoinKeepsOrder
  <2>3. QED
    BY <2>1, <2>2 DEF TypeOK
<1>4. ASSUME NEW k \in Call, GiveUpQueued(k) PROVE OrderInv'
  <2>1. /\ pc' = [pc EXCEPT ![k] = "done"]
        /\ pc[k] = "queued"
        /\ UNCHANGED <<ticket, tickets, sent>>
    BY <1>4 DEF GiveUpQueued, Return, arrivalVars
  <2>2. PICK n \in DOMAIN queue : queue[n] = k /\ queue' = RemoveAt(queue, n)
    BY <1>4 DEF GiveUpQueued, LeaveQueue
  <2>3. /\ Thinned(queue', queue)
        /\ \A a \in DOMAIN queue' :
             \E j \in DOMAIN queue : j # n /\ queue'[a] = queue[j]
    BY <2>2, RemoveAtThins DEF TypeOK
  <2>4. \A a \in DOMAIN queue' : queue'[a] # k
    BY <2>2, <2>3, LeftTheQueue
  <2>5. \A a \in DOMAIN queue' : pc'[queue'[a]] = "queued"
    BY <1>0, <2>1, <2>3, <2>4 DEF TypeOK
  <2>6. Onward
    BY <2>1 DEF TypeOK, Holding
  <2>7. QED
    BY <2>1, <2>3, <2>5, <2>6, OrderKept
<1>5. ASSUME NEW k \in Call, Admit(k) PROVE OrderInv'
  <2>1. CASE dispatcher = "Drained"
    <3>1. /\ pc' = [pc EXCEPT ![k] = "done"]
          /\ pc[k] = "queued"
          /\ UNCHANGED <<ticket, tickets, sent>>
          /\ queue # <<>> /\ Head(queue) = k
          /\ queue' = Tail(queue)
      BY <1>5, <2>1 DEF Admit, Return, arrivalVars
    <3>2. /\ Thinned(queue', queue)
          /\ \A a \in DOMAIN queue' :
               \E j \in DOMAIN queue : 1 < j /\ queue'[a] = queue[j]
          /\ 1 \in DOMAIN queue /\ queue[1] = k
      BY <3>1, TailThins DEF TypeOK
    <3>3. \A a \in DOMAIN queue' :
             \E j \in DOMAIN queue : j # 1 /\ queue'[a] = queue[j]
      BY <3>2
    <3>4. \A a \in DOMAIN queue' : queue'[a] # k
      BY <3>2, <3>3, LeftTheQueue
    <3>5. \A a \in DOMAIN queue' : pc'[queue'[a]] = "queued"
      BY <1>0, <3>1, <3>3, <3>4, SMTT(60) DEF TypeOK
    <3>6. Onward
      BY <3>1 DEF TypeOK, Holding
    <3>7. QED
      BY <3>1, <3>2, <3>5, <3>6, OrderKept
  <2>2. CASE dispatcher = "Open"
    BY <1>5, <2>2, AdmitKeepsOrder
  <2>3. QED
    BY <2>1, <2>2 DEF TypeOK
<1>6. ASSUME NEW k \in Call, pc[k] \in Holding, NEW o, Release(k, o), sent' = sent
      PROVE  OrderInv'
  <2>1. pc' = [pc EXCEPT ![k] = "done"] /\ UNCHANGED <<queue, ticket, tickets>>
    BY <1>6 DEF Release, Return, arrivalVars
  <2>2. Onward
    BY <1>6, <2>1 DEF TypeOK, Holding
  <2>3. pc[k] # "queued"
    BY <1>6 DEF Holding
  <2>4. QED
    BY <1>1, <1>2, <1>6, <2>1, <2>2, <2>3 DEF CallState
<1>7. ASSUME NEW k \in Call, CheckHandle(k) \/ InsertPending(k) PROVE OrderInv'
  <2>1. /\ pc[k] \in {"admitted", "checked"}
        /\ sent' = sent
    BY <1>7 DEF CheckHandle, InsertPending
  <2>2. \/ Release(k, "SessionGone")
        \/ /\ UNCHANGED <<queue, ticket, tickets>>
           /\ \E s \in {"checked", "inserted"} : pc' = [pc EXCEPT ![k] = s]
    BY <1>7 DEF CheckHandle, InsertPending, arrivalVars
  <2>3. CASE Release(k, "SessionGone")
    BY <1>6, <2>1, <2>3 DEF Holding
  <2>4. ASSUME NEW s \in {"checked", "inserted"}, pc' = [pc EXCEPT ![k] = s],
               UNCHANGED <<queue, ticket, tickets>>
        PROVE  OrderInv'
    <3>1. Onward
      BY <2>1, <2>4 DEF TypeOK, Holding
    <3>2. QED
      BY <1>1, <1>2, <2>1, <2>4, <3>1 DEF CallState
  <2>5. QED
    BY <2>2, <2>3, <2>4
<1>8. ASSUME NEW k \in Call, SendRequest(k) PROVE OrderInv'
  <2>1. CASE outbound /\ writer
    BY <1>8, <2>1, SendKeepsOrder
  <2>2. CASE ~(outbound /\ writer)
    BY <1>6, <1>8, <2>2 DEF SendRequest, Holding
  <2>3. QED
    BY <2>1, <2>2
<1>9. ASSUME NEW k \in Call, TakeAnswer(k) \/ TimeOut(k) PROVE OrderInv'
  BY <1>6, <1>9 DEF TakeAnswer, TimeOut, Holding
<1>10. ASSUME UNCHANGED <<pc, queue, ticket, tickets, sent>> PROVE OrderInv'
  BY <1>0, <1>2, <1>10
<1>11. ASSUME NEW k \in Call, SendCancel(k) PROVE OrderInv'
  BY <1>10, <1>11 DEF SendCancel, arrivalVars
<1>12. ASSUME \A k \in Call : ~JoinQueue(k) /\ ~CallStep(k) PROVE OrderInv'
  BY <1>10, <1>12, QuietStep
<1>13. QED
  BY <1>3, <1>4, <1>5, <1>7, <1>8, <1>9, <1>11, <1>12 DEF CallStep

-----------------------------------------------------------------------------
(* Answers, the pending table and what was reported *)

TableInv == AnswerInv /\ PendingHasWaiter /\ GivenUpNeverSent

\* A call returns with an outcome that says nothing about the queue, and takes
\* its entry with it.
LEMMA ReturnKeepsTable ==
    ASSUME TypeOK, TableInv, NEW k \in Call,
           NEW o \in Outcome \ {"CancelledWhileQueued", "TimedOutWhileQueued"},
           Return(k, o), pending' = pending \ {k}, UNCHANGED <<slot, sent>>
    PROVE  TableInv'
<1>1. /\ pc'[k] = "done"
      /\ outcome'[k] = o
      /\ \A j \in Call : j # k => pc'[j] = pc[j] /\ outcome'[j] = outcome[j]
  BY DEF Return, TypeOK
<1>2. AnswerInv'
  BY <1>1 DEF TableInv, AnswerInv
<1>3. PendingHasWaiter'
  BY <1>1 DEF TableInv, PendingHasWaiter, TypeOK
<1>4. GivenUpNeverSent'
  BY <1>1 DEF TableInv, GivenUpNeverSent
<1>5. QED
  BY <1>2, <1>3, <1>4 DEF TableInv

\* A call goes one step on.
LEMMA AdvanceKeepsTable ==
    ASSUME TypeOK, TableInv, NEW k \in Call,
           NEW s \in CallState \ {"done"},
           pc' = [pc EXCEPT ![k] = s],
           pc[k] # "done",
           pc[k] \in {"inserted", "waiting"} => s \in {"inserted", "waiting"},
           UNCHANGED <<outcome, pending, slot>>,
           \A i \in DOMAIN sent' : sent'[i] # k => \E j \in DOMAIN sent : sent'[i] = sent[j]
    PROVE  TableInv'
<1>1. /\ pc'[k] = s
      /\ \A j \in Call : j # k => pc'[j] = pc[j]
  BY DEF TypeOK
<1>2. AnswerInv'
  BY <1>1 DEF TableInv, AnswerInv
<1>3. PendingHasWaiter'
  BY <1>1 DEF TableInv, PendingHasWaiter, TypeOK
<1>4. outcome[k] = "none"
  BY DEF TableInv, AnswerInv
<1>5. GivenUpNeverSent'
  BY <1>4 DEF TableInv, GivenUpNeverSent
<1>6. QED
  BY <1>2, <1>3, <1>5 DEF TableInv

\* Every step keeps the table: only calls in dispatch_request or behind it have
\* an entry or an answer.
LEMMA TableStep ==
    ASSUME TypeOK, TypeOK', OrderInv, TableInv, [Next]_vars
    PROVE  TableInv'
<1> USE DEF callVars, arrivalVars, signalVars, tableVars
<1>1. ASSUME NEW k \in Call, JoinQueue(k) PROVE TableInv'
  <2>1. CASE dispatcher = "Drained"
    <3>1. pending \ {k} = pending
      BY <1>1 DEF JoinQueue, TableInv, PendingHasWaiter
    <3>2. QED
      BY <1>1, <2>1, <3>1, ReturnKeepsTable DEF JoinQueue, Outcome
  <2>2. CASE dispatcher = "Open"
    BY <1>1, <2>2, AdvanceKeepsTable DEF JoinQueue, CallState
  <2>3. QED
    BY <2>1, <2>2 DEF TypeOK
<1>2. ASSUME NEW k \in Call, GiveUpQueued(k) PROVE TableInv'
  <2>1. /\ pc[k] = "queued"
        /\ pc'[k] = "done"
        /\ \A j \in Call : j # k => pc'[j] = pc[j] /\ outcome'[j] = outcome[j]
        /\ UNCHANGED <<pending, slot, sent>>
    BY <1>2 DEF GiveUpQueued, Return, TypeOK
  <2>2. \A i \in DOMAIN sent : sent[i] # k
    BY <2>1 DEF OrderInv, SentInv
  <2>3. AnswerInv'
    BY <2>1 DEF TableInv, AnswerInv
  <2>4. PendingHasWaiter'
    BY <2>1 DEF TableInv, PendingHasWaiter, TypeOK
  <2>5. GivenUpNeverSent'
    BY <2>1, <2>2 DEF TableInv, GivenUpNeverSent
  <2>6. QED
    BY <2>3, <2>4, <2>5 DEF TableInv
<1>3. ASSUME NEW k \in Call, Admit(k) PROVE TableInv'
  <2>1. CASE dispatcher = "Drained"
    <3>1. pending \ {k} = pending
      BY <1>3 DEF Admit, TableInv, PendingHasWaiter
    <3>2. QED
      BY <1>3, <2>1, <3>1, ReturnKeepsTable DEF Admit, Outcome
  <2>2. CASE dispatcher = "Open"
    BY <1>3, <2>2, AdvanceKeepsTable DEF Admit, CallState
  <2>3. QED
    BY <2>1, <2>2 DEF TypeOK
<1>4. ASSUME NEW k \in Call, CheckHandle(k) PROVE TableInv'
  <2>1. CASE handle = "Disconnected"
    <3>1. pending \ {k} = pending
      BY <1>4 DEF CheckHandle, TableInv, PendingHasWaiter
    <3>2. QED
      BY <1>4, <2>1, <3>1, ReturnKeepsTable DEF CheckHandle, Release, Outcome
  <2>2. CASE handle = "Active"
    BY <1>4, <2>2, AdvanceKeepsTable DEF CheckHandle, CallState
  <2>3. QED
    BY <2>1, <2>2 DEF TypeOK
<1>5. ASSUME NEW k \in Call, InsertPending(k) PROVE TableInv'
  <2>1. /\ pc[k] = "checked"
        /\ pc'[k] = "inserted"
        /\ \A j \in Call : j # k => pc'[j] = pc[j]
        /\ pending' = pending \cup {k}
        /\ UNCHANGED <<outcome, slot, sent>>
    BY <1>5 DEF InsertPending, TypeOK
  <2>2. slot[k] = "empty" /\ outcome[k] = "none"
    BY <2>1 DEF TableInv, AnswerInv
  <2>3. AnswerInv'
    BY <2>1, <2>2 DEF TableInv, AnswerInv
  <2>4. PendingHasWaiter'
    BY <2>1, <2>2 DEF TableInv, PendingHasWaiter, TypeOK
  <2>5. GivenUpNeverSent'
    BY <2>1 DEF TableInv, GivenUpNeverSent
  <2>6. QED
    BY <2>3, <2>4, <2>5 DEF TableInv
<1>6. ASSUME NEW k \in Call, SendRequest(k) PROVE TableInv'
  <2>1. CASE outbound /\ writer
    <3>1. \A i \in DOMAIN sent' :
             sent'[i] # k => \E j \in DOMAIN sent : sent'[i] = sent[j]
      <4>1. sent \in Seq(Call)
        BY DEF TypeOK
      <4>2. sent' = Append(sent, k)
        BY <1>6, <2>1 DEF SendRequest
      <4>3. QED
        BY <4>1, <4>2, AppendFacts
    <3>2. QED
      BY <1>6, <2>1, <3>1, AdvanceKeepsTable DEF SendRequest, CallState
  <2>2. CASE ~(outbound /\ writer)
    BY <1>6, <2>2, ReturnKeepsTable DEF SendRequest, Release, Outcome
  <2>3. QED
    BY <2>1, <2>2
<1>7. ASSUME NEW k \in Call, TakeAnswer(k) PROVE TableInv'
  <2>1. pending \ {k} = pending
    BY <1>7 DEF TakeAnswer, TableInv, PendingHasWaiter
  <2>2. (IF slot[k] = "dropped" THEN "SessionGone" ELSE slot[k])
           \in Outcome \ {"CancelledWhileQueued", "TimedOutWhileQueued"}
    BY <1>7 DEF TakeAnswer, TypeOK, Outcome, Answer
  <2>3. QED
    BY <1>7, <2>1, <2>2, ReturnKeepsTable DEF TakeAnswer, Release
<1>8. ASSUME NEW k \in Call, TimeOut(k) PROVE TableInv'
  BY <1>8, ReturnKeepsTable DEF TimeOut, Release, Outcome
<1>9. ASSUME UNCHANGED <<pc, outcome, pending, slot, sent>> PROVE TableInv'
  BY <1>9 DEF TableInv, AnswerInv, PendingHasWaiter, GivenUpNeverSent
<1>10. ASSUME NEW k \in Call,
              SendCancel(k) \/ FireCancellation(k) \/ PassDeadline(k) \/ ConfirmCancel(k)
       PROVE  TableInv'
  BY <1>9, <1>10 DEF SendCancel, FireCancellation, PassDeadline, ConfirmCancel
<1>11. ASSUME ReceiveRequest \/ FailWriter \/ LeaveLoop \/ UNCHANGED vars
       PROVE  TableInv'
  BY <1>9, <1>11 DEF ReceiveRequest, FailWriter, LeaveLoop, vars
<1>12. ASSUME NEW k \in Call, NEW a \in Answer, CompleteResponse(k, a)
       PROVE  TableInv'
  <2>1. /\ UNCHANGED <<pc, outcome, sent>>
        /\ pending' = pending \ {k}
        /\ \A j \in Call : j # k => slot'[j] = slot[j]
        /\ k \notin pending => slot'[k] = slot[k]
    BY <1>12 DEF CompleteResponse, TypeOK
  <2>2. AnswerInv'
    BY <2>1 DEF TableInv, AnswerInv, PendingHasWaiter
  <2>3. PendingHasWaiter'
    BY <2>1 DEF TableInv, PendingHasWaiter, TypeOK
  <2>4. GivenUpNeverSent'
    BY <2>1 DEF TableInv, GivenUpNeverSent
  <2>5. QED
    BY <2>2, <2>3, <2>4 DEF TableInv
<1>13. ASSUME ClearPending, UNCHANGED <<pc, outcome, sent>> PROVE TableInv'
  <2>1. /\ pending' = {}
        /\ \A j \in Call : slot'[j] = IF j \in pending THEN "dropped" ELSE slot[j]
    BY <1>13 DEF ClearPending
  <2>2. AnswerInv'
    BY <1>13, <2>1 DEF TableInv, AnswerInv, PendingHasWaiter
  <2>3. PendingHasWaiter' /\ GivenUpNeverSent'
    BY <1>13, <2>1 DEF TableInv, PendingHasWaiter, GivenUpNeverSent
  <2>4. QED
    BY <2>2, <2>3 DEF TableInv
<1>14. ASSUME TearDown \/ ShutDown PROVE TableInv'
  <2>1. ClearPending \/ UNCHANGED <<pending, slot>>
    BY <1>14 DEF TearDown, CloseConnection, MarkDisconnected, ShutDown,
       StoreDisconnected, TakeOutbound, DrainDispatcher
  <2>2. UNCHANGED <<pc, outcome, sent>>
    BY <1>14 DEF TearDown, CloseConnection, MarkDisconnected, ShutDown
  <2>3. QED
    BY <1>9, <1>13, <2>1, <2>2
<1>15. QED
  BY <1>1, <1>2, <1>3, <1>4, <1>5, <1>6, <1>7, <1>8, <1>10, <1>11, <1>12, <1>14
  DEF Next, CallStep, ClientStep

-----------------------------------------------------------------------------
(* The drains and the calls that wait *)

\* A call that still waits for its answer has its entry, where the next drain
\* finds it (dispatch_request inserts the entry before it sends).
WaitersPending ==
    \A k \in Call :
        pc[k] \in {"inserted", "waiting"} /\ slot[k] = "empty" => k \in pending

\* The states of the connection task behind its first drain_pending
Drained1 == Marking \cup {"mark", "closed"}

\* The first drain takes the sender; nothing can be sent while the second one
\* runs.  Without shutdown_session only the second one drains the dispatcher.
SenderTaken ==
    /\ socket \in Drained1 => ~outbound
    /\ dispatcher = "Drained" /\ shutdown = "none" => socket = "closed"

\* What the second clearing of the pending table has reached
AllReleased ==
    socket \in {"outbound2", "dispatcher2"} \/ Suspended =>
        \A k \in Call : pc[k] = "waiting" => slot[k] # "empty"

ReleaseInv == WaitersPending /\ SenderTaken /\ AllReleased

\* A step that wakes or starts no call, and leaves the connection task and
\* the dispatcher alone.
LEMMA ReleaseKept ==
    ASSUME ReleaseInv,
           UNCHANGED <<socket, dispatcher, outbound>>,
           shutdown' = "none" => shutdown = "none",
           \A k \in Call :
               /\ pc'[k] = "waiting" => pc[k] = "waiting"
               /\ pc'[k] = "waiting" /\ slot[k] # "empty" => slot'[k] # "empty"
               /\ pc'[k] \in {"inserted", "waiting"} /\ slot'[k] = "empty" =>
                     k \in pending'
    PROVE  ReleaseInv'
<1>1. WaitersPending'
  BY DEF WaitersPending
<1>2. SenderTaken'
  BY DEF ReleaseInv, SenderTaken, Drained1
<1>3. AllReleased'
  BY DEF ReleaseInv, AllReleased, Suspended
<1>4. QED
  BY <1>1, <1>2, <1>3 DEF ReleaseInv

\* Clearing the pending table leaves no call that waits for an empty slot.
LEMMA ClearReleases ==
    ASSUME TypeOK, WaitersPending, ClearPending, UNCHANGED pc
    PROVE  /\ WaitersPending'
           /\ \A k \in Call : pc'[k] = "waiting" => slot'[k] # "empty"
           /\ \A k \in Call : slot[k] # "empty" => slot'[k] # "empty"
<1>1. \A k \in Call : slot'[k] = IF k \in pending THEN "dropped" ELSE slot[k]
  BY DEF ClearPending
<1>2. \A k \in Call : pc'[k] \in {"inserted", "waiting"} => slot'[k] # "empty"
  BY <1>1 DEF WaitersPending
<1>3. QED
  BY <1>1, <1>2 DEF WaitersPending

\* The connection task: the sender is gone before the table is cleared for the
\* second time, and the table before the dispatcher.
LEMMA TearDownReleases ==
    ASSUME TypeOK, ReleaseInv, TearDown
    PROVE  ReleaseInv'
<1> USE DEF callVars, tableVars
<1>1. UNCHANGED <<pc, shutdown>>
  BY DEF TearDown
<1>2. WaitersPending /\ SenderTaken /\ AllReleased
  BY DEF ReleaseInv
<1>3. ClearPending \/ UNCHANGED <<pending, slot>>
  BY DEF TearDown, CloseConnection, MarkDisconnected, StoreDisconnected,
         TakeOutbound, DrainDispatcher
<1>4. /\ WaitersPending'
      /\ \A k \in Call : slot[k] # "empty" => slot'[k] # "empty"
  <2>1. CASE UNCHANGED <<pending, slot>>
    BY <1>1, <1>2, <2>1 DEF WaitersPending
  <2>2. QED
    BY <1>1, <1>2, <1>3, <2>1, ClearReleases
<1>5. SenderTaken'
  BY <1>1, <1>2 DEF SenderTaken, Drained1, Marking, TearDown, CloseConnection,
     MarkDisconnected, StoreDisconnected, ClearPending, TakeOutbound, DrainDispatcher
<1>6. AllReleased'
  <2>1. CASE socket = "pending2"
    <3>1. ClearPending
      BY <2>1 DEF TearDown, CloseConnection, MarkDisconnected
    <3>2. QED
      BY <1>1, <1>2, <3>1, ClearReleases DEF AllReleased
  <2>2. CASE socket \in {"outbound2", "dispatcher2"}
    BY <1>1, <1>2, <1>4, <2>2 DEF AllReleased
  <2>3. CASE socket \notin {"pending2", "outbound2", "dispatcher2"}
    <3>1. socket' \notin {"outbound2", "dispatcher2"} /\ dispatcher' = dispatcher
      BY <2>3 DEF TearDown, CloseConnection, MarkDisconnected,
         StoreDisconnected, ClearPending, TakeOutbound
    <3>2. socket # "closed"
      BY DEF TearDown, CloseConnection, MarkDisconnected
    <3>3. ~Suspended'
      BY <1>1, <1>2, <3>1, <3>2 DEF Suspended, SenderTaken
    <3>4. QED
      BY <3>1, <3>3 DEF AllReleased
  <2>4. QED
    BY <2>1, <2>2, <2>3
<1>7. QED
  BY <1>4, <1>5, <1>6 DEF ReleaseInv

\* shutdown_session releases calls too, and is not none once it has begun.
LEMMA ShutDownReleases ==
    ASSUME TypeOK, ReleaseInv, ShutDown
    PROVE  ReleaseInv'
<1> USE DEF callVars, tableVars
<1>1. UNCHANGED <<pc, socket>>
  BY DEF ShutDown
<1>2. shutdown' # "none"
  BY DEF ShutDown
<1>3. WaitersPending /\ SenderTaken /\ AllReleased
  BY DEF ReleaseInv
<1>4. ClearPending \/ UNCHANGED <<pending, slot>>
  BY DEF ShutDown, StoreDisconnected, TakeOutbound, DrainDispatcher
<1>5. /\ WaitersPending'
      /\ \A k \in Call : slot[k] # "empty" => slot'[k] # "empty"
  <2>1. CASE UNCHANGED <<pending, slot>>
    BY <1>1, <1>3, <2>1 DEF WaitersPending
  <2>2. QED
    BY <1>1, <1>3, <1>4, <2>1, ClearReleases
<1>6. outbound' => outbound
  BY DEF ShutDown, StoreDisconnected, ClearPending, TakeOutbound, DrainDispatcher
<1>7. SenderTaken'
  BY <1>1, <1>2, <1>3, <1>6 DEF SenderTaken, Drained1
<1>8. AllReleased'
  BY <1>1, <1>2, <1>3, <1>5 DEF AllReleased, Suspended
<1>9. QED
  BY <1>5, <1>7, <1>8 DEF ReleaseInv

\* Every step keeps the released calls released.
LEMMA ReleaseStep ==
    ASSUME DispatchInv, TypeOK', ReleaseInv, [Next]_vars
    PROVE  ReleaseInv'
<1> USE DEF callVars, arrivalVars, signalVars, tableVars, closeVars, clientVars
<1>0. TypeOK /\ WaitersPending
  BY DEF DispatchInv, ReleaseInv
<1>1. ASSUME NEW k \in Call, NEW s \in CallState \ {"inserted", "waiting"},
             pc' = [pc EXCEPT ![k] = s],
             pending' = pending \/ pending' = pending \ {k},
             UNCHANGED <<socket, dispatcher, outbound, shutdown, slot>>
      PROVE  ReleaseInv'
  BY <1>0, <1>1, ReleaseKept DEF WaitersPending, TypeOK
<1>2. ASSUME NEW k \in Call, JoinQueue(k) PROVE ReleaseInv'
  BY <1>1, <1>2 DEF JoinQueue, Return, CallState
<1>3. ASSUME NEW k \in Call, GiveUpQueued(k) PROVE ReleaseInv'
  BY <1>1, <1>3 DEF GiveUpQueued, Return, CallState
<1>4. ASSUME NEW k \in Call, Admit(k) PROVE ReleaseInv'
  BY <1>1, <1>4 DEF Admit, Return, CallState
<1>5. ASSUME NEW k \in Call, CheckHandle(k) PROVE ReleaseInv'
  BY <1>1, <1>5 DEF CheckHandle, Release, Return, CallState
<1>6. ASSUME NEW k \in Call, InsertPending(k) PROVE ReleaseInv'
  BY <1>0, <1>6, ReleaseKept DEF InsertPending, WaitersPending, TypeOK
<1>7. ASSUME NEW k \in Call, SendRequest(k) PROVE ReleaseInv'
  <2>1. CASE ~(outbound /\ writer)
    BY <1>1, <1>7, <2>1 DEF SendRequest, Release, Return, CallState
  <2>2. CASE outbound /\ writer
    <3>1. /\ pc[k] = "inserted"
          /\ pc' = [pc EXCEPT ![k] = "waiting"]
          /\ UNCHANGED <<socket, dispatcher, outbound, shutdown, slot, pending>>
      BY <1>7, <2>2 DEF SendRequest
    <3>2. SenderTaken
      BY DEF ReleaseInv
    <3>3. WaitersPending'
      BY <1>0, <3>1 DEF WaitersPending, TypeOK
    <3>4. SenderTaken'
      BY <3>1, <3>2 DEF SenderTaken, Drained1
    <3>5. socket' \notin Drained1
      BY <2>2, <3>1, <3>2 DEF SenderTaken
    <3>6. AllReleased'
      BY <3>5 DEF AllReleased, Suspended, Drained1, Marking
    <3>7. QED
      BY <3>3, <3>4, <3>6 DEF ReleaseInv
  <2>3. QED
    BY <2>1, <2>2
<1>8. ASSUME NEW k \in Call, TakeAnswer(k) \/ TimeOut(k) PROVE ReleaseInv'
  BY <1>1, <1>8 DEF TakeAnswer, TimeOut, Release, Return, CallState
<1>9. ASSUME UNCHANGED <<pc, slot, pending, socket, dispatcher, outbound, shutdown>>
      PROVE  ReleaseInv'
  BY <1>0, <1>9, ReleaseKept DEF WaitersPending
<1>10. ASSUME NEW k \in Call,
              SendCancel(k) \/ FireCancellation(k) \/ PassDeadline(k) \/ ConfirmCancel(k)
       PROVE  ReleaseInv'
  BY <1>9, <1>10 DEF SendCancel, FireCancellation, PassDeadline, ConfirmCancel
<1>11. ASSUME ReceiveRequest \/ FailWriter \/ UNCHANGED vars PROVE ReleaseInv'
  BY <1>9, <1>11 DEF ReceiveRequest, FailWriter, vars
<1>12. ASSUME NEW k \in Call, NEW a \in Answer, CompleteResponse(k, a)
       PROVE  ReleaseInv'
  <2>1. /\ UNCHANGED <<pc, socket, dispatcher, outbound, shutdown>>
        /\ pending' = pending \ {k}
        /\ \A j \in Call : j # k \/ k \notin pending => slot'[j] = slot[j]
        /\ k \in pending => slot'[k] = a
    BY <1>0, <1>12 DEF CompleteResponse, TypeOK
  <2>2. a # "empty"
    BY DEF Answer
  <2>3. \A j \in Call : slot[j] # "empty" => slot'[j] # "empty"
    BY <2>1, <2>2
  <2>4. \A j \in Call : pc'[j] \in {"inserted", "waiting"} /\ slot'[j] = "empty" =>
                            j \in pending'
    BY <1>0, <2>1, <2>2 DEF WaitersPending
  <2>5. QED
    BY <2>1, <2>3, <2>4, ReleaseKept
<1>13. CASE LeaveLoop
  <2>1. /\ socket = "open" /\ socket' = "state1"
        /\ UNCHANGED <<pc, slot, pending, dispatcher, outbound, shutdown>>
    BY <1>13 DEF LeaveLoop
  <2>2. WaitersPending'
    BY <1>0, <2>1 DEF WaitersPending
  <2>3. SenderTaken'
    BY <2>1 DEF ReleaseInv, SenderTaken, Drained1, Marking
  <2>4. AllReleased'
    BY <2>1 DEF AllReleased, Suspended
  <2>5. QED
    BY <2>2, <2>3, <2>4 DEF ReleaseInv
<1>14. QED
  BY <1>0, <1>2, <1>3, <1>4, <1>5, <1>6, <1>7, <1>8, <1>10, <1>11, <1>12, <1>13,
     TearDownReleases, ShutDownReleases
  DEF Next, CallStep, ClientStep

-----------------------------------------------------------------------------
(* What the client executes *)

\* A call whose request is under way to the client or is being executed there
Unanswered(k) ==
    \/ k \in executing
    \/ \E i \in DOMAIN sent : delivered < i /\ sent[i] = k

\* The client executes what it has been sent.
ExecutingSent ==
    /\ delivered <= Len(sent)
    /\ \A k \in executing : \E i \in DOMAIN sent : i <= delivered /\ sent[i] = k

\* Only the client answers, and once: a call it has yet to answer has no
\* answer, and if it has returned, then without one.
AnswersAreFinal ==
    \A k \in Call :
        /\ slot[k] \in Answer => pc[k] \in {"waiting", "done"} /\ ~Unanswered(k)
        /\ Unanswered(k) /\ pc[k] = "done" =>
              outcome[k] \in {"TimedOutWhileRunning", "SessionGone"}

ClientInv == ExecutingSent /\ AnswersAreFinal

\* A call that is unanswered has been sent.
LEMMA UnansweredSent ==
    ASSUME TypeOK, SentInv, ExecutingSent, NEW k \in Call, Unanswered(k)
    PROVE  pc[k] \in {"waiting", "done"}
BY DEF Unanswered, ExecutingSent, SentInv

\* Each request is sent once: its tickets differ.
LEMMA SentOnce ==
    ASSUME TypeOK, FifoOrder, NEW i \in DOMAIN sent, NEW j \in DOMAIN sent,
           sent[i] = sent[j]
    PROVE  i = j
<1>1. i \in Int /\ j \in Int
  BY DEF TypeOK
<1>2. ticket[sent[i]] \in Nat
  BY DEF TypeOK
<1>3. ~(i < j) /\ ~(j < i)
  BY <1>2 DEF FifoOrder
<1>4. QED
  BY <1>1, <1>3

\* A step that sends and receives nothing keeps what the client has.
LEMMA ClientKept ==
    ASSUME ClientInv,
           UNCHANGED <<sent, delivered, executing>>,
           \A k \in Call :
               /\ slot'[k] \in Answer => slot[k] \in Answer
               /\ pc[k] \in {"waiting", "done"} => pc'[k] \in {"waiting", "done"}
               /\ Unanswered(k) /\ pc'[k] = "done" =>
                     \/ pc[k] = "done" /\ outcome'[k] = outcome[k]
                     \/ outcome'[k] \in {"TimedOutWhileRunning", "SessionGone"}
    PROVE  ClientInv'
<1>1. \A k : Unanswered(k)' <=> Unanswered(k)
  BY DEF Unanswered
<1>2. ExecutingSent'
  BY DEF ClientInv, ExecutingSent
<1>3. AnswersAreFinal'
  BY <1>1 DEF ClientInv, AnswersAreFinal
<1>4. QED
  BY <1>2, <1>3 DEF ClientInv

\* Sending: the new request has no answer yet.
LEMMA SendKeepsClient ==
    ASSUME TypeOK, SentInv, ClientInv, NEW k \in Call,
           pc[k] = "inserted",
           pc' = [pc EXCEPT ![k] = "waiting"],
           sent' = Append(sent, k),
           UNCHANGED <<slot, outcome, delivered, executing>>
    PROVE  ClientInv'
<1>1. /\ DOMAIN sent' = DOMAIN sent \cup {Len(sent) + 1}
      /\ \A i \in DOMAIN sent : sent'[i] = sent[i]
      /\ sent'[Len(sent) + 1] = k
      /\ Len(sent) \in Nat /\ Len(sent') = Len(sent) + 1
  <2>1. sent \in Seq(Call)
    BY DEF TypeOK
  <2>2. QED
    BY <2>1, AppendFacts
<1>2. \A j \in Call : j # k => (Unanswered(j)' => Unanswered(j))
  BY <1>1 DEF Unanswered
<1>3. pc'[k] = "waiting" /\ \A j \in Call : j # k => pc'[j] = pc[j]
  BY DEF TypeOK
<1>4. slot[k] \notin Answer
  BY DEF ClientInv, AnswersAreFinal
<1>5. ExecutingSent'
  <2>1. delivered' <= Len(sent')
    BY <1>1 DEF ClientInv, ExecutingSent, TypeOK
  <2>2. \A j \in executing : \E i \in DOMAIN sent' : i <= delivered /\ sent'[i] = j
    BY <1>1 DEF ClientInv, ExecutingSent
  <2>3. QED
    BY <2>1, <2>2 DEF ExecutingSent
<1>6. AnswersAreFinal'
  <2>1. ASSUME NEW j \in Call
        PROVE  /\ slot'[j] \in Answer => pc'[j] \in {"waiting", "done"} /\ ~Unanswered(j)'
               /\ Unanswered(j)' /\ pc'[j] = "done" =>
                     outcome'[j] \in {"TimedOutWhileRunning", "SessionGone"}
    <3>1. CASE j = k
      BY <1>3, <1>4, <3>1
    <3>2. CASE j # k
      BY <1>2, <1>3, <3>2 DEF ClientInv, AnswersAreFinal
    <3>3. QED
      BY <3>1, <3>2
  <2>2. QED
    BY <2>1 DEF AnswersAreFinal
<1>7. QED
  BY <1>5, <1>6 DEF ClientInv

\* Receiving: the request was under way and is being executed now.
LEMMA ReceiveKeepsClient ==
    ASSUME TypeOK, ClientInv, ReceiveRequest
    PROVE  ClientInv'
<1>1. /\ delivered' = delivered + 1
      /\ executing' = executing \cup {sent[delivered + 1]}
      /\ UNCHANGED <<sent, pc, slot, outcome>>
      /\ delivered < Len(sent)
  BY DEF ReceiveRequest, callVars, tableVars
<1>2. /\ delivered \in Nat
      /\ Len(sent) \in Nat
      /\ DOMAIN sent = 1..Len(sent)
  BY DEF TypeOK
<1>3. delivered + 1 \in DOMAIN sent
  BY <1>1, <1>2
<1>4. \A k : Unanswered(k)' => Unanswered(k)
  <2>1. ASSUME NEW k, k \in executing' PROVE Unanswered(k)
    BY <1>1, <1>2, <1>3, <2>1 DEF Unanswered
  <2>2. ASSUME NEW k, NEW i \in DOMAIN sent, delivered' < i, sent[i] = k
        PROVE  Unanswered(k)
    <3>1. delivered < i
      BY <1>1, <1>2, <2>2
    <3>2. QED
      BY <2>2, <3>1 DEF Unanswered
  <2>3. QED
    BY <1>1, <2>1, <2>2 DEF Unanswered
<1>5. ExecutingSent'
  <2>1. delivered' <= Len(sent')
    BY <1>1, <1>2
  <2>2. ASSUME NEW k \in executing'
        PROVE  \E i \in DOMAIN sent : i <= delivered' /\ sent[i] = k
    <3>1. CASE k = sent[delivered + 1]
      BY <1>1, <1>2, <1>3, <3>1
    <3>2. CASE k \in executing
      <4>1. PICK i \in DOMAIN sent : i <= delivered /\ sent[i] = k
        BY <3>2 DEF ClientInv, ExecutingSent
      <4>2. i <= delivered'
        BY <1>1, <1>2, <4>1
      <4>3. QED
        BY <4>1, <4>2
    <3>3. QED
      BY <1>1, <3>1, <3>2
  <2>3. QED
    BY <1>1, <2>1, <2>2 DEF ExecutingSent
<1>6. AnswersAreFinal'
  BY <1>1, <1>4 DEF ClientInv, AnswersAreFinal
<1>7. QED
  BY <1>5, <1>6 DEF ClientInv

\* Answering: the client lets go of the call it answers, which it has been
\* sent once.
LEMMA AnswerKeepsClient ==
    ASSUME TypeOK, SentInv, FifoOrder, ClientInv, NEW k \in Call, NEW a \in Answer,
           CompleteResponse(k, a)
    PROVE  ClientInv'
<1>1. /\ k \in executing
      /\ executing' = executing \ {k}
      /\ UNCHANGED <<sent, delivered, pc, outcome>>
      /\ \A j \in Call : j # k => slot'[j] = slot[j]
  BY DEF CompleteResponse, callVars, TypeOK
<1>2. PICK i \in DOMAIN sent : i <= delivered /\ sent[i] = k
  BY <1>1 DEF ClientInv, ExecutingSent
<1>3. pc[k] \in {"waiting", "done"}
  BY <1>2 DEF SentInv
<1>4. ~Unanswered(k)'
  <2>1. ASSUME NEW j \in DOMAIN sent, delivered < j, sent[j] = k PROVE FALSE
    <3>1. j = i
      BY <1>2, <2>1, SentOnce
    <3>2. i \in Nat /\ delivered \in Nat
      BY DEF TypeOK
    <3>3. QED
      BY <1>2, <2>1, <3>1, <3>2
  <2>2. QED
    BY <1>1, <2>1 DEF Unanswered
<1>5. \A j : Unanswered(j)' => Unanswered(j)
  BY <1>1 DEF Unanswered
<1>6. ExecutingSent'
  BY <1>1 DEF ClientInv, ExecutingSent
<1>7. AnswersAreFinal'
  BY <1>1, <1>3, <1>4, <1>5 DEF ClientInv, AnswersAreFinal
<1>8. QED
  BY <1>6, <1>7 DEF ClientInv

\* Every step keeps what the client owes consistent with what calls returned.
LEMMA ClientInvStep ==
    ASSUME DispatchInv, ClientInv, [Next]_vars
    PROVE  ClientInv'
<1> USE DEF callVars, arrivalVars, signalVars, tableVars, closeVars, clientVars
<1>0. TypeOK /\ SentInv /\ FifoOrder /\ ExecutingSent /\ AnswersAreFinal
  BY DEF DispatchInv, ClientInv
<1>1. ASSUME NEW k \in Call, NEW s \in CallState,
             pc' = [pc EXCEPT ![k] = s],
             pc[k] \notin {"waiting", "done"},
             \A j \in Call : j # k => outcome'[j] = outcome[j],
             UNCHANGED <<slot, sent, delivered, executing>>
      PROVE  ClientInv'
  <2>1. ~Unanswered(k)
    BY <1>0, <1>1, UnansweredSent
  <2>2. \A j \in Call : j # k => pc'[j] = pc[j]
    BY <1>0, <1>1 DEF TypeOK
  <2>3. QED
    BY <1>1, <2>1, <2>2, ClientKept
<1>2. ASSUME NEW k \in Call, JoinQueue(k) PROVE ClientInv'
  <2>1. \A j \in Call : j # k => outcome'[j] = outcome[j]
    BY <1>0, <1>2 DEF JoinQueue, Return, TypeOK
  <2>2. QED
    BY <1>1, <1>2, <2>1 DEF JoinQueue, Return, CallState
<1>3. ASSUME NEW k \in Call, GiveUpQueued(k) PROVE ClientInv'
  <2>1. \A j \in Call : j # k => outcome'[j] = outcome[j]
    BY <1>0, <1>3 DEF GiveUpQueued, Return, TypeOK
  <2>2. QED
    BY <1>1, <1>3, <2>1 DEF GiveUpQueued, Return, CallState
<1>4. ASSUME NEW k \in Call, Admit(k) PROVE ClientInv'
  <2>1. \A j \in Call : j # k => outcome'[j] = outcome[j]
    BY <1>0, <1>4 DEF Admit, Return, TypeOK
  <2>2. QED
    BY <1>1, <1>4, <2>1 DEF Admit, Return, CallState
<1>5. ASSUME NEW k \in Call, CheckHandle(k) PROVE ClientInv'
  <2>1. \A j \in Call : j # k => outcome'[j] = outcome[j]
    BY <1>0, <1>5 DEF CheckHandle, Release, Return, TypeOK
  <2>2. QED
    BY <1>1, <1>5, <2>1 DEF CheckHandle, Release, Return, CallState
<1>6. ASSUME NEW k \in Call, InsertPending(k) PROVE ClientInv'
  BY <1>1, <1>6 DEF InsertPending, CallState
<1>7. ASSUME NEW k \in Call, SendRequest(k) PROVE ClientInv'
  <2>1. CASE outbound /\ writer
    BY <1>0, <1>7, <2>1, SendKeepsClient DEF SendRequest
  <2>2. CASE ~(outbound /\ writer)
    <3>1. \A j \in Call : j # k => outcome'[j] = outcome[j]
      BY <1>0, <1>7, <2>2 DEF SendRequest, Release, Return, TypeOK
    <3>2. QED
      BY <1>1, <1>7, <2>2, <3>1 DEF SendRequest, Release, Return, CallState
  <2>3. QED
    BY <2>1, <2>2
<1>8. ASSUME NEW k \in Call, NEW o, Return(k, o), pc[k] = "waiting",
             Unanswered(k) => o \in {"TimedOutWhileRunning", "SessionGone"},
             UNCHANGED <<slot, sent, delivered, executing>>
      PROVE  ClientInv'
  <2>1. /\ pc'[k] = "done" /\ outcome'[k] = o
        /\ \A j \in Call : j # k => pc'[j] = pc[j] /\ outcome'[j] = outcome[j]
    BY <1>0, <1>8 DEF Return, TypeOK
  <2>2. QED
    BY <1>8, <2>1, ClientKept
<1>9. ASSUME NEW k \in Call, TakeAnswer(k) PROVE ClientInv'
  <2>1. Unanswered(k) => slot[k] = "dropped"
    BY <1>0, <1>9 DEF AnswersAreFinal, TakeAnswer, TypeOK
  <2>2. QED
    BY <1>8, <1>9, <2>1 DEF TakeAnswer, Release
<1>10. ASSUME NEW k \in Call, TimeOut(k) PROVE ClientInv'
  BY <1>8, <1>10 DEF TimeOut, Release
<1>11. ASSUME UNCHANGED <<pc, outcome, slot, sent, delivered, executing>>
       PROVE  ClientInv'
  BY <1>11, ClientKept
<1>12. ASSUME NEW k \in Call,
              SendCancel(k) \/ FireCancellation(k) \/ PassDeadline(k) \/ ConfirmCancel(k)
       PROVE  ClientInv'
  BY <1>11, <1>12 DEF SendCancel, FireCancellation, PassDeadline, ConfirmCancel
<1>13. ASSUME FailWriter \/ LeaveLoop \/ UNCHANGED vars PROVE ClientInv'
  BY <1>11, <1>13 DEF FailWriter, LeaveLoop, vars
<1>14. ASSUME TearDown \/ ShutDown PROVE ClientInv'
  <2>1. UNCHANGED <<pc, outcome, sent, delivered, executing>>
    BY <1>14 DEF TearDown, ShutDown
  <2>2. ClearPending \/ slot' = slot
    BY <1>14 DEF TearDown, CloseConnection, MarkDisconnected, ShutDown,
       StoreDisconnected, TakeOutbound, DrainDispatcher
  <2>3. \A k \in Call : slot'[k] \in Answer => slot[k] \in Answer
    BY <2>2 DEF ClearPending, Answer
  <2>4. QED
    BY <2>1, <2>3, ClientKept
<1>15. QED
  BY <1>0, <1>2, <1>3, <1>4, <1>5, <1>6, <1>7, <1>9, <1>10, <1>12, <1>13, <1>14,
     ReceiveKeepsClient, AnswerKeepsClient
  DEF Next, CallStep, ClientStep, ClientInv

-----------------------------------------------------------------------------
(* Theorems *)

\* DispatchInv is inductive and holds in every reachable state: the queue, the
\* permit, the pending table, the answers and what was sent stay consistent
\* under every interleaving of enqueue, complete_response, drain_pending and
\* shutdown_session.
THEOREM DispatcherConsistent == Spec => []DispatchInv
<1>1. ASSUME DispatchInv, [Next]_vars PROVE DispatchInv'
  <2>1. TypeOK /\ OneCallAtATime /\ OrderInv /\ TableInv
    BY <1>1 DEF DispatchInv, OrderInv, TableInv
  <2>2. TypeOK' /\ OneCallAtATime'
    BY <1>1, <2>1, TypeStep, OneCallStep
  <2>3. OrderInv' /\ TableInv'
    BY <1>1, <2>1, <2>2, OrderStep, TableStep
  <2>4. QED
    BY <2>2, <2>3 DEF DispatchInv, OrderInv, TableInv
<1>2. QED
  BY <1>1, InitDispatch, PTL DEF Spec

\* Every variable keeps its type; in particular inflight never falls below zero.
THEOREM DispatcherTypeCorrect == Spec => []TypeOK
<1>1. DispatchInv => TypeOK
  BY DEF DispatchInv
<1>2. QED
  BY <1>1, DispatcherConsistent, PTL

\* At most one call of a session runs, and inflight counts it (Semaphore(1) and
\* InflightGuard of enqueue), for any number of calls.
THEOREM DispatcherRunsOne == Spec => []OneCallAtATime
<1>1. DispatchInv => OneCallAtATime
  BY DEF DispatchInv
<1>2. QED
  BY <1>1, DispatcherConsistent, PTL

\* Requests leave in the order in which their calls joined the queue of the
\* admission semaphore, for any number of calls.
THEOREM DispatcherIsFifo == Spec => []FifoOrder
<1>1. DispatchInv => FifoOrder
  BY DEF DispatchInv
<1>2. QED
  BY <1>1, DispatcherConsistent, PTL

\* No entry of the pending table outlives the call that waits for it.
THEOREM DispatcherLeaksNoPending == Spec => []PendingHasWaiter
<1>1. DispatchInv => PendingHasWaiter
  BY DEF DispatchInv
<1>2. QED
  BY <1>1, DispatcherConsistent, PTL

\* A call reported as cancelled or timed out in the queue never reached the writer.
THEOREM DispatcherGivenUpNeverSent == Spec => []GivenUpNeverSent
<1>1. DispatchInv => GivenUpNeverSent
  BY DEF DispatchInv
<1>2. QED
  BY <1>1, DispatcherConsistent, PTL
\* A call that slips between the locks of the first drain_pending is released
\* by the second: when a lost connection has been marked, every waiting call
\* has its answer or has been dropped.  ReleaseInv is the inductive part.
THEOREM SuspensionReleasesAll == Spec => []SuspendedReleasesAll
<1>1. Init => ReleaseInv
  BY DEF Init, ReleaseInv, WaitersPending, SenderTaken, AllReleased, Drained1,
         Marking, Suspended
<1>2. ASSUME DispatchInv, DispatchInv', ReleaseInv, [Next]_vars PROVE ReleaseInv'
  BY <1>2, ReleaseStep DEF DispatchInv
<1>3. ReleaseInv => SuspendedReleasesAll
  BY DEF ReleaseInv, AllReleased, SuspendedReleasesAll
<1>4. QED
  BY <1>1, <1>2, <1>3, DispatcherConsistent, PTL DEF Spec

\* Two calls are executed by the client at the same time only if the manager
\* has given one of them up, by its deadline or because the connection closes,
\* for any number of calls.  ClientInv is the inductive part.
THEOREM DispatcherClientExecutesOne == Spec => []ClientExecutesOne
<1>1. Init => ClientInv
  BY DEF Init, ClientInv, ExecutingSent, AnswersAreFinal, Unanswered, Answer
<1>2. ASSUME DispatchInv, ClientInv, [Next]_vars PROVE ClientInv'
  BY <1>2, ClientInvStep
<1>3. ASSUME DispatchInv, ClientInv PROVE ClientExecutesOne
  <2>1. ASSUME NEW j \in executing, NEW k \in executing, j # k
        PROVE  \E i \in {j, k} : outcome[i] \in {"TimedOutWhileRunning", "SessionGone"}
    <3>1. /\ j \in Call /\ k \in Call
          /\ Unanswered(j) /\ Unanswered(k)
      BY <1>3 DEF DispatchInv, TypeOK, Unanswered
    <3>2. pc[j] \in {"waiting", "done"} /\ pc[k] \in {"waiting", "done"}
      BY <1>3, <3>1, UnansweredSent DEF DispatchInv, ClientInv
    <3>3. pc[j] = "done" \/ pc[k] = "done"
      BY <1>3, <2>1, <3>1, <3>2 DEF DispatchInv, OneCallAtATime, Holding
    <3>4. QED
      BY <1>3, <3>1, <3>3 DEF ClientInv, AnswersAreFinal
  <2>2. QED
    BY <2>1 DEF ClientExecutesOne
<1>4. QED
  BY <1>1, <1>2, <1>3, DispatcherConsistent, PTL DEF Spec
=============================================================================
