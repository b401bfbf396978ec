------------------------ MODULE AdapterServiceProofs ------------------------
(***************************************************************************)
(* Proofs about module AdapterService: calls are answered once and the     *)
(* child is handed on quietly, with every connection the adapter knew of   *)
(* closed before, for any set of calls and any number of activations.      *)
(***************************************************************************)
EXTENDS AdapterService, TLAPS

USE AdapterAssumption

-----------------------------------------------------------------------------
(* Types *)

\* The provider stays a provider when it is closed or released.
LEMMA ProviderTypes ==
    /\ NewProvider \in Provider
    /\ NoProvider \in Provider
    /\ \A p \in Provider : Closed(p) \in Provider /\ Released(p) \in Provider
<1>1. NewProvider \in Provider /\ NoProvider \in Provider
  BY DEF NewProvider, NoProvider, Provider, Socket, Reader
<1>2. ASSUME NEW p \in Provider PROVE Closed(p) \in Provider /\ Released(p) \in Provider
  <2>1. (p.routeEnded \/ ~p.cleanupFailed) \in BOOLEAN
    BY Zenon
  <2>2. Closed(p) \in Provider
    BY <2>1 DEF Closed, Provider, Socket
  <2>3. Released(p) \in Provider
    BY <1>1 DEF Released, Provider
  <2>4. QED
    BY <2>2, <2>3
<1>3. QED
  BY <1>1, <1>2

\* And when one of its flags or its reader moves on.
LEMMA ProviderUpdates ==
    ASSUME NEW p \in Provider
    PROVE  /\ [p EXCEPT !.ready = FALSE] \in Provider
           /\ [p EXCEPT !.ready = FALSE, !.ended = TRUE] \in Provider
           /\ [p EXCEPT !.ready = FALSE, !.routeEnded = TRUE] \in Provider
           /\ [p EXCEPT !.routeEnded = TRUE, !.reader = "recv"] \in Provider
<1>1. [p EXCEPT !.ready = FALSE] \in Provider
  BY DEF Provider
<1>2. [p EXCEPT !.routeEnded = TRUE] \in Provider
  BY DEF Provider
<1>3. \A q \in Provider : [q EXCEPT !.ended = TRUE] \in Provider
  BY DEF Provider
<1>4. \A q \in Provider : [q EXCEPT !.routeEnded = TRUE] \in Provider
  BY DEF Provider
<1>5. \A q \in Provider : [q EXCEPT !.reader = "recv"] \in Provider
  BY DEF Provider, Reader
<1>6. [[p EXCEPT !.ready = FALSE] EXCEPT !.ended = TRUE] \in Provider
  BY <1>1, <1>3
<1>7. [[p EXCEPT !.ready = FALSE] EXCEPT !.routeEnded = TRUE] \in Provider
  BY <1>1, <1>4
<1>8. [[p EXCEPT !.routeEnded = TRUE] EXCEPT !.reader = "recv"] \in Provider
  BY <1>2, <1>5
<1>9. QED
  BY <1>1, <1>6, <1>7, <1>8

\* Answers are counted for calls only.
LEMMA WrittenType ==
    ASSUME TypeOK, NEW S
    PROVE  Written(S) \in [Call -> Nat]
BY DEF TypeOK, Written

\* Cancelling and answering for calls keeps the types of what it changes.
LEMMA TerminateType ==
    ASSUME TypeOK, NEW S \in SUBSET Call, Terminate(S)
    PROVE  /\ cancelled' \subseteq Call
           /\ claimed' \subseteq Call
           /\ answers' \in [Call -> Nat]
           /\ UNCHANGED <<pc, owner, target, unwritten>>
BY WrittenType DEF TypeOK, Terminate

\* So does claiming an answer.
LEMMA ClaimType ==
    ASSUME TypeOK, NEW c \in Call, Claim(c)
    PROVE  /\ pc' \in [Call -> Running \cup {"new", "done"}]
           /\ claimed' \subseteq Call
BY DEF TypeOK, Claim, Running

\* Types: the steps of _dispatch_call.
LEMMA CallStepType ==
    ASSUME TypeOK, NEW c \in Call, CallStep(c)
    PROVE  TypeOK'
<1> USE DEF TypeOK, serviceVars, sdkVars, relayVars, callVars, childVars
<1>1. CASE StartCall(c)
  BY <1>1, ClaimType DEF StartCall, Running
<1>2. CASE AdmitCall(c)
  BY <1>2 DEF AdmitCall, Running, Provider
<1>3. CASE RefuseCall(c)
  BY <1>3, ClaimType DEF RefuseCall
<1>4. CASE InvokeSdk(c)
  BY <1>4 DEF InvokeSdk, Running
<1>5. CASE TakeResult(c)
  <2>1. provider' \in Provider
    BY <1>5 DEF TakeResult, Provider
  <2>2. known' \subseteq Connect
    BY <1>5 DEF TakeResult
  <2>3. QED
    BY <1>5, <2>1, <2>2, ClaimType DEF TakeResult
<1>6. CASE TimeOutCall(c)
  BY <1>6 DEF TimeOutCall, Running
<1>7. CASE FailTimedOut(c)
  BY <1>7, ClaimType DEF FailTimedOut
<1>8. CASE WriteAnswer(c)
  BY <1>8, WrittenType DEF WriteAnswer
<1>9. CASE CancelCall(c)
  BY <1>9 DEF CancelCall
<1>10. QED
  BY <1>1, <1>2, <1>3, <1>4, <1>5, <1>6, <1>7, <1>8, <1>9 DEF CallStep

\* Types: the reader leaves its loop.
LEMMA LeaveLoopType ==
    ASSUME TypeOK, NEW p \in Provider, LeaveLoop(p)
    PROVE  /\ provider' \in Provider
           /\ cancelled' \subseteq Call
           /\ claimed' \subseteq Call
           /\ answers' \in [Call -> Nat]
           /\ UNCHANGED <<pc, owner, target, unwritten>>
<1>1. Pending \subseteq Call
  BY DEF Pending, Tasks
<1>2. CASE p.ended
  BY <1>2 DEF LeaveLoop, Provider, Reader, TypeOK, callVars
<1>3. CASE ~p.ended
  <2>1. Terminate(Pending) /\ provider' = [p EXCEPT !.ended = TRUE, !.reader = "ending"]
    BY <1>3 DEF LeaveLoop
  <2>2. provider' \in Provider
    BY <2>1 DEF Provider, Reader
  <2>3. QED
    BY <1>1, <2>1, <2>2, TerminateType
<1>4. QED
  BY <1>2, <1>3

\* Types: the steps of _run.
LEMMA ReaderStepType ==
    ASSUME TypeOK, ReaderStep
    PROVE  TypeOK'
<1> USE DEF TypeOK, serviceVars, sdkVars, relayVars, callVars, childVars
<1>1. CASE FinishCancel
  <2>1. [provider EXCEPT !.reader = "recv", !.joins = None] \in Provider
    BY DEF Provider, Reader
  <2>2. QED
    BY <1>1, <2>1 DEF FinishCancel
<1>2. CASE FinishShutdown
  BY <1>2, ProviderUpdates DEF FinishShutdown
<1>3. CASE FinishReader
  <2>1. Closed(provider) \in Provider
    BY ProviderTypes
  <2>2. provider' \in Provider
    BY <1>3, <2>1 DEF FinishReader, Provider, Reader
  <2>3. QED
    BY <1>3, <2>2 DEF FinishReader
<1>4. CASE TimeOutShutdown
  <2>1. [provider EXCEPT !.cleanupFailed = TRUE] \in Provider
    BY DEF Provider
  <2>2. QED
    BY <1>4, <2>1, LeaveLoopType DEF TimeOutShutdown
<1>5. CASE TimeOutReader
  BY <1>5 DEF TimeOutReader, Provider, Reader
<1>6. QED
  BY <1>1, <1>2, <1>3, <1>4, <1>5 DEF ReaderStep

\* Types: the end of the finally block of qualified_relay.
LEMMA ReleaseType ==
    ASSUME TypeOK, NEW d \in BOOLEAN, Release(d)
    PROVE  /\ dirty' \in BOOLEAN
           /\ relay' = "done"
           /\ relayCancelled' \in BOOLEAN
           /\ awaited' \subseteq Call
           /\ route' = None
           /\ invalid' \in BOOLEAN
BY DEF Release, TypeOK

\* Types: its beginning.
LEMMA LeaveRouteType ==
    ASSUME TypeOK, LeaveRoute
    PROVE  TypeOK'
<1> USE DEF TypeOK, serviceVars, sdkVars, relayVars, callVars, childVars
<1>1. Pending \subseteq Call /\ Tasks \subseteq Call
  BY DEF Pending, Tasks
<1>2. dirty' \in BOOLEAN
  BY Zenon DEF LeaveRoute
<1>2a. provider \in Provider
  OBVIOUS
<1>3. CASE provider.ended
  <2>1. provider' \in Provider
    BY ONLY <1>2a, <1>3, ProviderUpdates, LeaveRoute DEF LeaveRoute
  <2>2. QED
    BY <1>1, <1>2, <1>3, <2>1 DEF LeaveRoute
<1>4. CASE ~provider.ended
  <2>1. Terminate(Pending)
    BY <1>4, SMTT(60) DEF LeaveRoute
  <2>2. provider' \in Provider
    BY ONLY <1>2a, <1>4, ProviderUpdates, LeaveRoute DEF LeaveRoute
  <2>3. QED
    BY <1>1, <1>2, <1>4, <2>1, <2>2, TerminateType DEF LeaveRoute
<1>5. QED
  BY <1>3, <1>4

\* Types: the steps of qualified_relay; the bound of the activations is checked
\* when the relay begins.
LEMMA RelayStepType ==
    ASSUME TypeOK, RelayInv, RelayStep
    PROVE  TypeOK'
<1> USE DEF TypeOK, serviceVars, sdkVars, relayVars, callVars, childVars
<1>1. CASE StartRoute
  BY <1>1, ProviderTypes DEF StartRoute, RelayInv
<1>2. CASE AbandonRoute
  BY <1>2 DEF AbandonRoute
<1>3. CASE FinishRegister
  BY <1>3 DEF FinishRegister
<1>4. CASE FailRegister \/ WakeRelay
  BY <1>4, LeaveRouteType DEF FailRegister, WakeRelay
<1>5. CASE FinishEnding
  BY <1>5, ProviderTypes DEF FinishEnding
<1>6. (dirty \/ provider.cleanupFailed \/ Tasks # {}) \in BOOLEAN
  BY Zenon
<1>7. CASE JoinReader
  <2>1. CASE relay' = "disconnecting" /\ UNCHANGED <<sdkVars, relayCancelled, awaited, route, provider>>
    BY <1>7, <2>1 DEF JoinReader
  <2>2. CASE /\ Release(dirty \/ provider.cleanupFailed \/ Tasks # {})
             /\ provider' = Released(provider)
    BY <1>6, <1>7, <2>2, ReleaseType, ProviderTypes DEF JoinReader
  <2>3. QED
    BY <1>7, <2>1, <2>2 DEF JoinReader
<1>8. CASE DisconnectOwn
  <2>1. PICK d \in BOOLEAN : Release(d)
    BY <1>6, <1>8 DEF DisconnectOwn
  <2>2. conns' \subseteq Connect /\ provider' \in Provider
    BY <1>8, ProviderTypes DEF DisconnectOwn
  <2>3. QED
    BY <1>8, <2>1, <2>2, ReleaseType DEF DisconnectOwn
<1>9. CASE FailCleanup
  BY <1>9, ReleaseType, ProviderTypes DEF FailCleanup
<1>10. QED
  BY <1>1, <1>2, <1>3, <1>4, <1>5, <1>7, <1>8, <1>9 DEF RelayStep

\* Types: the child is reaped.
LEMMA ReapSdkType ==
    ASSUME TypeOK, ReapSdk
    PROVE  /\ conns' \subseteq Connect
           /\ child' \in [Call -> {"none", "running", "ok", "error"}]
           /\ pc' \in [Call -> Running \cup {"new", "done"}]
           /\ UNCHANGED <<owner, target, unwritten, cancelled, claimed, answers,
                          cancelSent, known>>
BY DEF ReapSdk, TypeOK

\* Types: the steps of the service and what its owners do.
LEMMA ServiceStepType ==
    ASSUME TypeOK, ServiceStep \/ GiveUpRevoke \/ OwnerStep
    PROVE  TypeOK'
<1> USE DEF TypeOK, serviceVars, sdkVars, relayVars, callVars, childVars
<1>1. CASE RevokeRelay
  <2>1. relayCancelled' \in BOOLEAN
    BY <1>1, Zenon DEF RevokeRelay
  <2>2. provider' \in Provider
    BY <1>1 DEF RevokeRelay, Provider
  <2>3. QED
    BY <1>1, <2>1, <2>2 DEF RevokeRelay
<1>2. CASE FinishRevoke
  BY <1>2 DEF FinishRevoke
<1>3. CASE RequalifySdk
  BY <1>3 DEF RequalifySdk
<1>4. CASE RestartSdk
  BY <1>4, ReapSdkType DEF RestartSdk
<1>5. CASE GiveUpRevoke
  BY <1>5, ReapSdkType, ReleaseType, ProviderTypes DEF GiveUpRevoke
<1>6. CASE BeginRelay
  BY <1>6 DEF BeginRelay
<1>7. CASE InvalidateRequest
  BY <1>7 DEF InvalidateRequest
<1>8. QED
  BY <1>1, <1>2, <1>3, <1>4, <1>5, <1>6, <1>7 DEF ServiceStep, OwnerStep

\* Types: what the manager and the child do.
LEMMA OutsideStepType ==
    ASSUME TypeOK, ManagerStep \/ ChildStep
    PROVE  TypeOK'
<1> USE DEF TypeOK, serviceVars, sdkVars, relayVars, callVars, childVars
<1>1. ASSUME NEW c \in Call, ReceiveCall(c) PROVE TypeOK'
  BY <1>1, WrittenType DEF ReceiveCall, Reading, Running
<1>2. ASSUME NEW c \in Call, ReceiveCancel(c) PROVE TypeOK'
  <2>1. provider' \in Provider
    BY <1>2 DEF ReceiveCancel, Provider, Reader
  <2>2. QED
    BY <1>2, <2>1, TerminateType DEF ReceiveCancel
<1>3. CASE ReceiveShutdown
  <2>1. provider' \in Provider
    BY <1>3 DEF ReceiveShutdown, Provider, Reader
  <2>2. Pending \in SUBSET Call
    BY DEF Pending, Tasks
  <2>3. QED
    BY <1>3, <2>1, <2>2, TerminateType DEF ReceiveShutdown
<1>4. CASE FailRead
  BY <1>4, LeaveLoopType DEF FailRead
<1>5. CASE LoseSocket
  BY <1>5, SMTT(60) DEF LoseSocket, Provider, Socket
<1>6. CASE ChangeTools
  BY <1>6, ProviderUpdates DEF ChangeTools
<1>7. ASSUME NEW c \in Call, ExecuteCall(c) PROVE TypeOK'
  BY <1>7 DEF ExecuteCall
<1>8. QED
  BY <1>1, <1>2, <1>3, <1>4, <1>5, <1>6, <1>7 DEF ManagerStep, ChildStep

\* Every step keeps the types.
LEMMA NextType ==
    ASSUME TypeOK, RelayInv, [Next]_vars
    PROVE  TypeOK'
<1>1. CASE UNCHANGED vars
  BY <1>1 DEF vars, serviceVars, sdkVars, relayVars, callVars, childVars, TypeOK
<1>2. QED
  BY <1>1, CallStepType, ReaderStepType, RelayStepType, ServiceStepType,
     OutsideStepType DEF Next

-----------------------------------------------------------------------------
(* The relay *)

\* Every step keeps service, relay and route in step with each other.
LEMMA NextRelay ==
    ASSUME TypeOK, RelayInv, [Next]_vars
    PROVE  RelayInv'
<1> USE DEF TypeOK, RelayInv, serviceVars, sdkVars, relayVars
<1>1. CASE UNCHANGED <<service, routes, dirty, relay, route>>
  BY <1>1
<1>2. CASE StartRoute
  BY <1>2 DEF StartRoute
<1>3. CASE AbandonRoute \/ FinishRegister \/ FinishEnding
  BY <1>3 DEF AbandonRoute, FinishRegister, FinishEnding
<1>4. CASE FailRegister \/ WakeRelay
  BY <1>4 DEF FailRegister, WakeRelay, LeaveRoute
<1>5. CASE JoinReader \/ DisconnectOwn \/ FailCleanup
  BY <1>5 DEF JoinReader, DisconnectOwn, FailCleanup, Release
<1>6. CASE ServiceStep
  BY <1>6 DEF ServiceStep, RevokeRelay, FinishRevoke, RequalifySdk, RestartSdk
<1>7. CASE GiveUpRevoke
  BY <1>7 DEF GiveUpRevoke, Release
<1>8. CASE OwnerStep
  BY <1>8 DEF OwnerStep, BeginRelay, InvalidateRequest
<1>9. ASSUME NEW c \in Call, CallStep(c) PROVE RelayInv'
  BY <1>1, <1>9 DEF CallStep, StartCall, AdmitCall, RefuseCall, InvokeSdk, TakeResult,
     TimeOutCall, FailTimedOut, WriteAnswer, CancelCall
<1>10. CASE ReaderStep
  BY <1>1, <1>10 DEF ReaderStep, FinishCancel, FinishShutdown, FinishReader,
     TimeOutShutdown, TimeOutReader
<1>11. CASE ManagerStep
  BY <1>1, <1>11 DEF ManagerStep, ReceiveCall, ReceiveCancel, ReceiveShutdown,
     FailRead, LoseSocket
<1>12. CASE ChildStep
  BY <1>1, <1>12 DEF ChildStep, ChangeTools, ExecuteCall
<1>13. CASE UNCHANGED vars
  BY <1>1, <1>13 DEF vars
<1>14. QED
  BY <1>2, <1>3, <1>4, <1>5, <1>6, <1>7, <1>8, <1>9, <1>10, <1>11, <1>12, <1>13
  DEF Next, RelayStep

-----------------------------------------------------------------------------
(* Claims and answers *)

\* Calls that are left alone keep their answers, whatever becomes of the route.
LEMMA ClaimKeeps ==
    ASSUME TypeOK, ClaimInv, OwnerInv, UNCHANGED callVars,
           \/ route' = route /\ (provider'.ws = "open" => provider.ws = "open")
           \/ route' = None
           \/ route' = routes + 1
    PROVE  ClaimInv'
<1>1. CASE route' = route /\ (provider'.ws = "open" => provider.ws = "open")
  BY <1>1 DEF ClaimInv, AnsweredOnce, callVars
<1>2. ASSUME NEW c \in Call, route' = None \/ route' = routes + 1, owner[c] = route'
      PROVE  c \notin claimed /\ pc[c] = "new"
  BY <1>2 DEF OwnerInv, ClaimInv, TypeOK
<1>3. CASE route' = None \/ route' = routes + 1
  BY <1>2, <1>3 DEF ClaimInv, AnsweredOnce, callVars
<1>4. QED
  BY <1>1, <1>3

\* Who cancels pending calls answers for those that nobody has claimed.
LEMMA TerminateClaims ==
    ASSUME TypeOK, ClaimInv, NEW S \in SUBSET Pending, Terminate(S), route' = route,
           provider'.ws = provider.ws
    PROVE  ClaimInv'
<1>1. \A c \in S : pc[c] \in Running \ {"task"} /\ c \in Call
  BY DEF Pending, Tasks
<1>2. /\ cancelled' = cancelled \cup S
      /\ claimed' = claimed \cup S
      /\ UNCHANGED <<pc, owner, unwritten>>
      /\ \A c \in Call : answers'[c] = IF c \in S \ claimed /\ provider.ws = "open"
                                       THEN answers[c] + 1 ELSE answers[c]
  BY DEF Terminate, Written
<1>3. \A c \in Call : answers[c] \in Nat
  BY DEF TypeOK
<1>4. QED
  BY <1>1, <1>2, <1>3 DEF ClaimInv, AnsweredOnce, Running

\* A call that is not cancelled is claimed by its task, once.
LEMMA TaskClaims ==
    ASSUME TypeOK, ClaimInv, NEW c \in Call, pc[c] \in Running \ {"answer"}, c \notin cancelled,
           Claim(c), route' = route, provider'.ws = provider.ws,
           UNCHANGED <<owner, cancelled, answers, unwritten>>
    PROVE  ClaimInv'
<1>1. c \notin claimed
  BY DEF ClaimInv
<1>2. claimed' = claimed \cup {c} /\ pc' = [pc EXCEPT ![c] = "answer"]
  BY <1>1 DEF Claim
<1>3. QED
  BY <1>1, <1>2 DEF ClaimInv, AnsweredOnce, TypeOK, Running

\* The reader that leaves its loop answers for the pending calls at most once.
LEMMA LeaveLoopClaims ==
    ASSUME TypeOK, ClaimInv, OwnerInv, NEW p \in Provider, p.ws = provider.ws, LeaveLoop(p),
           route' = route
    PROVE  ClaimInv'
<1>1. CASE p.ended
  <2>1. provider'.ws = provider.ws /\ UNCHANGED callVars
    BY <1>1 DEF LeaveLoop, Provider
  <2>2. QED
    BY <2>1, ClaimKeeps
<1>2. CASE ~p.ended
  <2>1. provider'.ws = provider.ws /\ Terminate(Pending)
    BY <1>2 DEF LeaveLoop, Provider
  <2>2. QED
    BY <2>1, TerminateClaims
<1>3. QED
  BY <1>1, <1>2

\* The task of a call answers it only if nobody else has.
LEMMA CallStepClaims ==
    ASSUME TypeOK, ClaimInv, NEW c \in Call, CallStep(c)
    PROVE  ClaimInv'
<1> USE DEF At, serviceVars, sdkVars, relayVars, childVars
<1>1. CASE StartCall(c)
  <2>1. CASE provider.ready
    BY <1>1, <2>1 DEF StartCall, ClaimInv, AnsweredOnce, TypeOK, Running
  <2>2. CASE ~provider.ready
    BY <1>1, <2>2, TaskClaims DEF StartCall, Running
  <2>3. QED
    BY <2>1, <2>2
<1>2. CASE AdmitCall(c)
  BY <1>2 DEF AdmitCall, ClaimInv, AnsweredOnce, TypeOK, Running
<1>3. CASE RefuseCall(c)
  BY <1>3, TaskClaims DEF RefuseCall, Running
<1>4. CASE InvokeSdk(c)
  BY <1>4 DEF InvokeSdk, ClaimInv, AnsweredOnce, TypeOK, Running
<1>5. CASE TakeResult(c)
  <2>1. provider'.ws = provider.ws
    BY <1>5 DEF TakeResult, TypeOK, Provider
  <2>2. QED
    BY <1>5, <2>1, TaskClaims DEF TakeResult, Running
<1>6. CASE TimeOutCall(c)
  BY <1>6 DEF TimeOutCall, ClaimInv, AnsweredOnce, TypeOK, Running
<1>7. CASE FailTimedOut(c)
  BY <1>7, TaskClaims DEF FailTimedOut, Running
<1>8. CASE WriteAnswer(c)
  <2>1. c \in claimed /\ answers[c] = 0
    BY <1>8 DEF WriteAnswer, ClaimInv
  <2>2. QED
    BY <1>8, <2>1 DEF WriteAnswer, Written, ClaimInv, AnsweredOnce, TypeOK, Running
<1>9. CASE CancelCall(c)
  BY <1>9 DEF CancelCall, ClaimInv, AnsweredOnce, TypeOK, Running
<1>10. QED
  BY <1>1, <1>2, <1>3, <1>4, <1>5, <1>6, <1>7, <1>8, <1>9 DEF CallStep

\* When the child is reaped no route is left, and no call is claimed.
LEMMA ReapKeepsClaims ==
    ASSUME TypeOK, ClaimInv, OwnerInv, ReapSdk, route' = None
    PROVE  ClaimInv'
<1>1. \A c \in Call : owner[c] = None => pc[c] = "new"
  BY DEF OwnerInv, TypeOK
<1>2. QED
  BY <1>1 DEF ReapSdk, ClaimInv, AnsweredOnce, TypeOK, Running

\* So does the relay that ends its route.
LEMMA LeaveRouteClaims ==
    ASSUME TypeOK, ClaimInv, OwnerInv, LeaveRoute
    PROVE  ClaimInv'
<1>1. provider'.ws = provider.ws /\ route' = route
  BY DEF LeaveRoute, TypeOK, Provider
<1>2. CASE provider.ended
  BY <1>1, <1>2, ClaimKeeps DEF LeaveRoute
<1>3. CASE ~provider.ended
  BY <1>1, <1>3, TerminateClaims DEF LeaveRoute
<1>4. QED
  BY <1>2, <1>3

\* Every step keeps claims and answers in agreement.
LEMMA NextClaims ==
    ASSUME TypeOK, ClaimInv, RelayInv, OwnerInv, [Next]_vars
    PROVE  ClaimInv'
<1> USE DEF serviceVars, sdkVars, relayVars, childVars
<1>1. \A p \in Provider : Closed(p).ws = "closed"
  BY DEF Closed, Provider
<1>2. ASSUME NEW c \in Call, CallStep(c) PROVE ClaimInv'
  BY <1>2, CallStepClaims
<1>3. CASE ReaderStep
  <2>1. CASE FinishCancel \/ FinishShutdown \/ TimeOutReader
    <3>1. provider'.ws = provider.ws
      BY <2>1 DEF FinishCancel, FinishShutdown, TimeOutReader, TypeOK, Provider
    <3>2. QED
      BY <2>1, <3>1, ClaimKeeps DEF FinishCancel, FinishShutdown, TimeOutReader
  <2>2. CASE FinishReader
    <3>1. provider'.ws = "closed"
      BY <2>2, <1>1, ProviderTypes DEF FinishReader, TypeOK, Provider
    <3>2. QED
      BY <2>2, <3>1, ClaimKeeps DEF FinishReader
  <2>3. CASE TimeOutShutdown
    <3> DEFINE p == [provider EXCEPT !.cleanupFailed = TRUE]
    <3>1. p \in Provider /\ p.ws = provider.ws
      BY DEF TypeOK, Provider
    <3>2. LeaveLoop(p) /\ route' = route
      BY <2>3 DEF TimeOutShutdown
    <3>3. QED
      BY <3>1, <3>2, LeaveLoopClaims
  <2>4. QED
    BY <1>3, <2>1, <2>2, <2>3 DEF ReaderStep
<1>4. CASE RelayStep
  <2>1. CASE StartRoute
    BY <2>1, ClaimKeeps DEF StartRoute
  <2>2. CASE AbandonRoute \/ FinishRegister
    BY <2>2, ClaimKeeps DEF AbandonRoute, FinishRegister
  <2>3. CASE FailRegister \/ WakeRelay
    BY <2>3, LeaveRouteClaims DEF FailRegister, WakeRelay
  <2>4. CASE FinishEnding
    <3>1. provider'.ws = "closed"
      BY <2>4, <1>1 DEF FinishEnding, TypeOK
    <3>2. QED
      BY <2>4, <3>1, ClaimKeeps DEF FinishEnding
  <2>5. CASE JoinReader \/ DisconnectOwn \/ FailCleanup
    BY <2>5, ClaimKeeps DEF JoinReader, DisconnectOwn, FailCleanup, Release
  <2>6. QED
    BY <1>4, <2>1, <2>2, <2>3, <2>4, <2>5 DEF RelayStep
<1>5. CASE RevokeRelay \/ FinishRevoke \/ RequalifySdk
  <2>1. provider'.ws = provider.ws
    BY <1>5 DEF RevokeRelay, FinishRevoke, RequalifySdk, TypeOK, Provider
  <2>2. QED
    BY <1>5, <2>1, ClaimKeeps DEF RevokeRelay, FinishRevoke, RequalifySdk
<1>6. CASE RestartSdk
  <2>1. route' = None
    BY <1>6 DEF RestartSdk, RelayInv
  <2>2. QED
    BY <1>6, <2>1, ReapKeepsClaims DEF RestartSdk
<1>7. CASE GiveUpRevoke
  BY <1>7, ReapKeepsClaims DEF GiveUpRevoke, Release
<1>8. CASE OwnerStep
  BY <1>8, ClaimKeeps DEF OwnerStep, BeginRelay, InvalidateRequest
<1>9. CASE ManagerStep
  <2>1. ASSUME NEW c \in Call, ReceiveCall(c) PROVE ClaimInv'
    <3>1. c \notin claimed /\ c \notin cancelled /\ answers[c] = 0
      BY <2>1 DEF ReceiveCall, ClaimInv
    <3>2. provider.ws = "open" /\ UNCHANGED <<route, provider, cancelled>>
      BY <2>1 DEF ReceiveCall, Reading
    <3>3. CASE Tasks # {} \/ provider.shutdownStarted
      BY <2>1, <3>1, <3>2, <3>3 DEF ReceiveCall, Written, ClaimInv, AnsweredOnce, TypeOK, Running
    <3>4. CASE ~(Tasks # {} \/ provider.shutdownStarted)
      BY <2>1, <3>1, <3>2, <3>4 DEF ReceiveCall, ClaimInv, AnsweredOnce, TypeOK, Running
    <3>5. QED
      BY <3>3, <3>4
  <2>2. ASSUME NEW c \in Call, ReceiveCancel(c) PROVE ClaimInv'
    <3>1. provider'.ws = provider.ws
      BY <2>2 DEF ReceiveCancel, TypeOK, Provider
    <3>2. QED
      BY <2>2, <3>1, TerminateClaims DEF ReceiveCancel
  <2>3. CASE ReceiveShutdown
    <3>1. provider'.ws = provider.ws
      BY <2>3 DEF ReceiveShutdown, TypeOK, Provider
    <3>2. QED
      BY <2>3, <3>1, TerminateClaims DEF ReceiveShutdown
  <2>4. CASE FailRead
    BY <2>4, LeaveLoopClaims DEF FailRead, TypeOK
  <2>5. CASE LoseSocket
    <3>1. provider'.ws = "lost"
      BY <2>5 DEF LoseSocket, TypeOK, Provider
    <3>2. QED
      BY <2>5, <3>1, ClaimKeeps DEF LoseSocket
  <2>6. QED
    BY <1>9, <2>1, <2>2, <2>3, <2>4, <2>5 DEF ManagerStep
<1>10. CASE ChildStep
  <2>1. CASE ChangeTools
    <3>1. provider'.ws = provider.ws
      BY <2>1 DEF ChangeTools, TypeOK, Provider
    <3>2. QED
      BY <2>1, <3>1, ClaimKeeps DEF ChangeTools
  <2>2. ASSUME NEW c \in Call, ExecuteCall(c) PROVE ClaimInv'
    BY <2>2, ClaimKeeps DEF ExecuteCall
  <2>3. QED
    BY <1>10, <2>1, <2>2 DEF ChildStep
<1>11. CASE UNCHANGED vars
  BY <1>11, ClaimKeeps DEF vars
<1>12. QED
  BY <1>2, <1>3, <1>4, <1>5, <1>6, <1>7, <1>8, <1>9, <1>10, <1>11 DEF Next, ServiceStep

-----------------------------------------------------------------------------
(* Owners *)

\* Calls that stay where they are keep their owners, also when their route goes.
LEMMA OwnerKeeps ==
    ASSUME TypeOK, RelayInv, OwnerInv, UNCHANGED <<pc, owner, target, routes>>,
           provider'.connection = provider.connection,
           \/ route' = route /\ (route = None /\ dirty => dirty')
           \/ route' = None /\ (dirty' \/ (Tasks = {} /\ route # None))
    PROVE  OwnerInv'
<1>1. \A c \in Call : pc[c] \in Running => owner[c] = route' \/ (dirty' /\ route' = None)
  BY DEF OwnerInv, Tasks
<1>2. QED
  BY <1>1 DEF OwnerInv

\* A call that goes on keeps its owner; only an admitted one gets a target.
LEMMA CallStepOwners ==
    ASSUME TypeOK, OwnerInv, OwnConnectionOnly, NEW c \in Call, CallStep(c)
    PROVE  OwnerInv' /\ OwnConnectionOnly'
<1> USE DEF At, serviceVars, sdkVars, relayVars, childVars
<1>1. pc[c] \in Running
  BY DEF CallStep, StartCall, AdmitCall, RefuseCall, InvokeSdk, TakeResult,
     TimeOutCall, FailTimedOut, WriteAnswer, CancelCall, Running
<1>2. /\ UNCHANGED <<routes, dirty, route, owner>>
      /\ \A d \in Call \ {c} : pc'[d] = pc[d]
      /\ pc'[c] # "new"
  BY DEF CallStep, StartCall, AdmitCall, RefuseCall, InvokeSdk, TakeResult,
     TimeOutCall, FailTimedOut, WriteAnswer, CancelCall, Claim, TypeOK
<1>3. /\ target'[c] \in {target[c], provider.connection}
      /\ \A d \in Call \ {c} : target'[d] = target[d]
  BY DEF CallStep, StartCall, AdmitCall, RefuseCall, InvokeSdk, TakeResult,
     TimeOutCall, FailTimedOut, WriteAnswer, CancelCall, TypeOK
<1>4. provider'.connection \in {provider.connection, None, c}
  BY DEF CallStep, StartCall, AdmitCall, RefuseCall, InvokeSdk, TakeResult,
     TimeOutCall, FailTimedOut, WriteAnswer, CancelCall, TypeOK, Provider
<1>5. None \notin Call /\ provider.connection \in Call \cup {None}
  BY DEF TypeOK, Provider
<1>6. OwnerInv'
  BY <1>1, <1>2, <1>3, <1>4, <1>5 DEF OwnerInv, Running, TypeOK
<1>7. OwnConnectionOnly'
  BY <1>1, <1>2, <1>3, <1>5 DEF OwnerInv, OwnConnectionOnly, TypeOK
<1>8. QED
  BY <1>6, <1>7

\* Every step keeps calls, binding and route with one owner.
LEMMA NextOwners ==
    ASSUME TypeOK, RelayInv, OwnerInv, OwnConnectionOnly, [Next]_vars
    PROVE  OwnerInv' /\ OwnConnectionOnly'
<1> USE DEF serviceVars, sdkVars, relayVars, callVars, childVars
<1>1. ASSUME UNCHANGED <<owner, target>> PROVE OwnConnectionOnly'
  BY <1>1 DEF OwnConnectionOnly
<1>2. \A p \in Provider : /\ Closed(p).connection = p.connection
                          /\ Released(p).connection = p.connection
  BY DEF Closed, Released, NoProvider, NewProvider, Provider
<1>3. ASSUME NEW c \in Call, CallStep(c) PROVE OwnerInv' /\ OwnConnectionOnly'
  BY <1>3, CallStepOwners
<1>4. ASSUME NEW p \in Provider, p.connection = provider.connection, LeaveLoop(p)
      PROVE  UNCHANGED <<pc, owner, target>> /\ provider'.connection = provider.connection
  BY <1>4 DEF LeaveLoop, Terminate, Provider
<1>5. CASE ReaderStep
  <2>1. CASE FinishCancel \/ FinishShutdown \/ TimeOutReader
    <3>1. provider'.connection = provider.connection
      BY <2>1 DEF FinishCancel, FinishShutdown, TimeOutReader, TypeOK, Provider
    <3>2. QED
      BY <2>1, <3>1, <1>1, OwnerKeeps DEF FinishCancel, FinishShutdown, TimeOutReader
  <2>2. CASE FinishReader
    <3>1. provider'.connection = provider.connection
      BY <2>2, <1>2, ProviderTypes DEF FinishReader, TypeOK, Provider
    <3>2. QED
      BY <2>2, <3>1, <1>1, OwnerKeeps DEF FinishReader
  <2>3. CASE TimeOutShutdown
    <3> DEFINE p == [provider EXCEPT !.cleanupFailed = TRUE]
    <3>1. p \in Provider /\ p.connection = provider.connection
      BY DEF TypeOK, Provider
    <3>2. LeaveLoop(p)
      BY <2>3 DEF TimeOutShutdown
    <3>3. UNCHANGED <<pc, owner, target>> /\ provider'.connection = provider.connection
      BY <3>1, <3>2, <1>4
    <3>4. QED
      BY <2>3, <3>3, <1>1, OwnerKeeps DEF TimeOutShutdown
  <2>4. QED
    BY <1>5, <2>1, <2>2, <2>3 DEF ReaderStep
<1>6. CASE StartRoute
  <2>1. route = None /\ ~dirty
    BY <1>6 DEF StartRoute, RelayInv
  <2>2. \A c \in Call : pc[c] \notin Running
    BY <2>1 DEF OwnerInv, TypeOK, Running
  <2>3. provider'.connection = None
    BY <1>6 DEF StartRoute, NewProvider
  <2>4. UNCHANGED <<pc, owner, target>> /\ routes' = routes + 1
    BY <1>6 DEF StartRoute
  <2>5. OwnerInv'
    BY <2>2, <2>3, <2>4 DEF OwnerInv, TypeOK
  <2>6. QED
    BY <1>1, <2>4, <2>5
<1>7. CASE AbandonRoute \/ FinishRegister
  BY <1>7, <1>1, OwnerKeeps DEF AbandonRoute, FinishRegister
<1>8. CASE FailRegister \/ WakeRelay
  <2>1. LeaveRoute
    BY <1>8 DEF FailRegister, WakeRelay
  <2>2. provider'.connection = provider.connection
    BY <2>1 DEF LeaveRoute, TypeOK, Provider
  <2>3. UNCHANGED <<pc, owner, target, route, routes>>
    BY <2>1 DEF LeaveRoute, Terminate
  <2>4. dirty => dirty'
    BY <2>1 DEF LeaveRoute
  <2>5. QED
    BY <2>2, <2>3, <2>4, <1>1, OwnerKeeps
<1>9. CASE FinishEnding
  BY <1>9, <1>1, <1>2, OwnerKeeps DEF FinishEnding, TypeOK
<1>10. CASE JoinReader \/ DisconnectOwn \/ FailCleanup
  <2>1. provider'.connection = provider.connection
    BY <1>10, <1>2 DEF JoinReader, DisconnectOwn, FailCleanup, TypeOK
  <2>2. UNCHANGED <<pc, owner, target, routes>> /\ route # None
    BY <1>10 DEF JoinReader, DisconnectOwn, FailCleanup, RelayInv
  <2>3. \/ route' = route /\ dirty' = dirty
        \/ route' = None /\ (dirty' \/ Tasks = {})
    BY <1>10 DEF JoinReader, DisconnectOwn, FailCleanup, Release
  <2>4. QED
    BY <2>1, <2>2, <2>3, <1>1, OwnerKeeps
<1>11. CASE RevokeRelay \/ FinishRevoke \/ RequalifySdk
  <2>1. provider'.connection = provider.connection
    BY <1>11 DEF RevokeRelay, FinishRevoke, RequalifySdk, TypeOK, Provider
  <2>2. QED
    BY <1>11, <2>1, <1>1, OwnerKeeps DEF RevokeRelay, FinishRevoke, RequalifySdk
<1>12. ASSUME ReapSdk, route' = None, UNCHANGED routes,
              provider'.connection = provider.connection
       PROVE  OwnerInv' /\ OwnConnectionOnly'
  <2>1. /\ \A c \in Call : pc'[c] \notin Running
        /\ \A c \in Call : pc'[c] = "new" <=> pc[c] = "new"
        /\ UNCHANGED <<owner, target>>
    BY <1>12 DEF ReapSdk, TypeOK, Running
  <2>2. provider.connection \in Call \cup {None} /\ target \in [Call -> Call \cup {None}]
    BY DEF TypeOK, Provider
  <2>3. OwnerInv'
    BY <1>12, <2>1, <2>2 DEF OwnerInv
  <2>4. QED
    BY <1>1, <2>1, <2>3
<1>13. CASE RestartSdk
  <2>1. route' = None
    BY <1>13 DEF RestartSdk, RelayInv
  <2>2. QED
    BY <1>12, <1>13, <2>1 DEF RestartSdk
<1>14. CASE GiveUpRevoke
  BY <1>2, <1>12, <1>14 DEF GiveUpRevoke, Release, TypeOK
<1>15. CASE OwnerStep
  BY <1>15, <1>1, OwnerKeeps DEF OwnerStep, BeginRelay, InvalidateRequest
<1>16. CASE ManagerStep
  <2>1. ASSUME NEW c \in Call, ReceiveCall(c) PROVE OwnerInv' /\ OwnConnectionOnly'
    <3>1. /\ route # None /\ pc[c] = "new" /\ owner' = [owner EXCEPT ![c] = route]
          /\ UNCHANGED <<provider, target, route, routes, dirty>>
          /\ \A d \in Call \ {c} : pc'[d] = pc[d]
          /\ pc'[c] \in {"task", "done"}
          /\ pc'[c] = "task" => Tasks = {}
      BY <2>1 DEF ReceiveCall, Reading, TypeOK
    <3>2. pc'[c] = "task" => \A d \in Call : pc[d] \notin Running
      BY <3>1 DEF Tasks, OwnerInv
    <3>3. route \in 1 .. routes /\ provider.connection \in Call \cup {None}
      BY <3>1 DEF RelayInv, TypeOK, Provider
    <3>4. OwnerInv'
      BY <3>1, <3>2, <3>3 DEF OwnerInv, TypeOK, Running
    <3>5. OwnConnectionOnly'
      BY <3>1 DEF OwnerInv, OwnConnectionOnly, TypeOK
    <3>6. QED
      BY <3>4, <3>5
  <2>2. ASSUME NEW c \in Call, ReceiveCancel(c) PROVE OwnerInv' /\ OwnConnectionOnly'
    <3>1. provider'.connection = provider.connection
      BY <2>2 DEF ReceiveCancel, TypeOK, Provider
    <3>2. QED
      BY <2>2, <3>1, <1>1, OwnerKeeps DEF ReceiveCancel, Terminate
  <2>3. CASE ReceiveShutdown
    <3>1. provider'.connection = provider.connection
      BY <2>3 DEF ReceiveShutdown, TypeOK, Provider
    <3>2. QED
      BY <2>3, <3>1, <1>1, OwnerKeeps DEF ReceiveShutdown, Terminate
  <2>4. CASE FailRead
    <3>1. UNCHANGED <<pc, owner, target>> /\ provider'.connection = provider.connection
      BY <2>4, <1>4 DEF FailRead, TypeOK
    <3>2. QED
      BY <2>4, <3>1, <1>1, OwnerKeeps DEF FailRead
  <2>5. CASE LoseSocket
    <3>1. provider'.connection = provider.connection
      BY <2>5 DEF LoseSocket, TypeOK, Provider
    <3>2. QED
      BY <2>5, <3>1, <1>1, OwnerKeeps DEF LoseSocket
  <2>6. QED
    BY <1>16, <2>1, <2>2, <2>3, <2>4, <2>5 DEF ManagerStep
<1>17. CASE ChildStep
  <2>1. CASE ChangeTools
    <3>1. provider'.connection = provider.connection
      BY <2>1 DEF ChangeTools, TypeOK, Provider
    <3>2. QED
      BY <2>1, <3>1, <1>1, OwnerKeeps DEF ChangeTools
  <2>2. ASSUME NEW c \in Call, ExecuteCall(c) PROVE OwnerInv' /\ OwnConnectionOnly'
    BY <2>2, <1>1, OwnerKeeps DEF ExecuteCall
  <2>3. QED
    BY <1>17, <2>1, <2>2 DEF ChildStep
<1>18. CASE UNCHANGED vars
  BY <1>18, <1>1, OwnerKeeps DEF vars
<1>19. QED
  BY <1>3, <1>5, <1>6, <1>7, <1>8, <1>9, <1>10, <1>11, <1>13, <1>14, <1>15,
     <1>16, <1>17, <1>18 DEF Next, ServiceStep, RelayStep

-----------------------------------------------------------------------------
(* Connections *)

\* The connections that the adapter knows of and nobody has asked to close
Unsettled == {c \in conns \cap known : \A d \in Disconnect : target[d] # c}

\* A call is sent with the binding, and the binding does not change under it:
\* a provider runs one call at a time.
BindingInv ==
    /\ \A c, d \in Call : pc[c] \in Running /\ pc[d] \in Running => c = d
    /\ \A c \in Call :
         /\ pc[c] \in {"new", "task", "admission"} => target[c] = None
         /\ pc[c] \in {"queued", "sent", "timedout"} =>
              target[c] = provider.connection /\ FitsBinding(c)
         /\ c \in known => child[c] = "ok" /\ pc[c] \in {"answer", "done"}
    /\ provider.reader = "failed" => provider.cleanupFailed

\* An unsettled connection is the one in the binding, or the child has been
\* given up.
SettledInv ==
    \A c \in Unsettled :
        IF route = None THEN dirty ELSE provider.connection = c

KnownInv == AdapterInv /\ BindingInv /\ SettledInv

\* A reader that failed is remembered: whatever else happens to the provider.
FailureKept(p) == p.reader = "failed" => p.cleanupFailed

\* What happens to the provider outside _dispatch_call: its binding stays, and
\* a reader that failed is remembered (_run, _on_transport_end, qualified_relay).
LEMMA ProviderKeeps ==
    ASSUME TypeOK, FailureKept(provider), [Next]_vars,
           ~\E c \in Call : CallStep(c), ~StartRoute
    PROVE  provider'.connection = provider.connection /\ FailureKept(provider')
<1> USE DEF FailureKept, serviceVars, sdkVars, relayVars
<1> DEFINE Kept == provider'.connection = provider.connection /\ FailureKept(provider')
<1>1. \A p \in Provider :
        /\ Closed(p).connection = p.connection /\ Closed(p).reader = p.reader
        /\ Closed(p).cleanupFailed = p.cleanupFailed
        /\ Released(p).connection = p.connection /\ Released(p).reader = "done"
  BY DEF Closed, Released, NoProvider, NewProvider, Provider
<1>2. ASSUME NEW p \in Provider, p.connection = provider.connection, LeaveLoop(p) PROVE Kept
  BY <1>2 DEF LeaveLoop, Provider
<1>3. CASE ReaderStep
  <2>1. CASE FinishCancel \/ FinishShutdown \/ TimeOutReader
    BY <2>1 DEF FinishCancel, FinishShutdown, TimeOutReader, TypeOK, Provider
  <2>2. CASE FinishReader
    <3>1. Closed(provider) \in Provider
      BY ProviderTypes DEF TypeOK
    <3>2. QED
      BY <2>2, <3>1, <1>1 DEF FinishReader, TypeOK, Provider
  <2>3. CASE TimeOutShutdown
    <3> DEFINE p == [provider EXCEPT !.cleanupFailed = TRUE]
    <3>1. p \in Provider /\ p.connection = provider.connection
      BY DEF TypeOK, Provider
    <3>2. LeaveLoop(p)
      BY <2>3 DEF TimeOutShutdown
    <3>3. QED
      BY <3>1, <3>2, <1>2
  <2>4. QED
    BY <1>3, <2>1, <2>2, <2>3 DEF ReaderStep
<1>4. CASE AbandonRoute \/ FinishRegister
  BY <1>4 DEF AbandonRoute, FinishRegister
<1>5. CASE FailRegister \/ WakeRelay
  <2>1. provider' \in {[provider EXCEPT !.ready = FALSE],
                      [provider EXCEPT !.ready = FALSE, !.ended = TRUE]}
    BY <1>5 DEF FailRegister, WakeRelay, LeaveRoute
  <2>2. QED
    BY ONLY <2>1, FailureKept(provider), provider \in Provider DEF TypeOK, Provider, FailureKept
<1>6. CASE FinishEnding \/ JoinReader \/ DisconnectOwn \/ FailCleanup \/ GiveUpRevoke
  <2>1. provider' \in {provider, Closed(provider), Released(provider)}
    BY <1>6 DEF FinishEnding, JoinReader, DisconnectOwn, FailCleanup, GiveUpRevoke
  <2>2. QED
    BY <1>1, <2>1 DEF TypeOK
<1>7. CASE ServiceStep
  BY <1>7 DEF ServiceStep, RevokeRelay, FinishRevoke, RequalifySdk, RestartSdk, TypeOK, Provider
<1>8. CASE OwnerStep
  BY <1>8 DEF OwnerStep, BeginRelay, InvalidateRequest
<1>9. CASE ManagerStep
  <2>1. ASSUME NEW c \in Call, ReceiveCall(c) \/ ReceiveCancel(c) PROVE Kept
    BY <2>1 DEF ReceiveCall, ReceiveCancel, TypeOK, Provider
  <2>2. CASE ReceiveShutdown \/ LoseSocket
    BY <2>2 DEF ReceiveShutdown, LoseSocket, TypeOK, Provider
  <2>3. CASE FailRead
    BY <2>3, <1>2 DEF FailRead, TypeOK
  <2>4. QED
    BY <1>9, <2>1, <2>2, <2>3 DEF ManagerStep
<1>10. CASE ChildStep
  BY <1>10, ZenonT(60) DEF ChildStep, ChangeTools, ExecuteCall, TypeOK, Provider
<1>11. CASE UNCHANGED vars
  BY <1>11 DEF vars
<1>12. QED
  BY <1>3, <1>4, <1>5, <1>6, <1>7, <1>8, <1>9, <1>10, <1>11 DEF Next, RelayStep

\* The steps of _dispatch_call: the binding changes with a result, and that is
\* the result of the only call.
LEMMA CallStepBinding ==
    ASSUME TypeOK, BindingInv, NEW c \in Call, CallStep(c)
    PROVE  BindingInv'
<1> USE DEF At, serviceVars, sdkVars, relayVars, childVars
<1>1. pc[c] \in Running /\ provider.connection \in Call \cup {None} /\ None \notin Call
  BY DEF CallStep, StartCall, AdmitCall, RefuseCall, InvokeSdk, TakeResult,
     TimeOutCall, FailTimedOut, WriteAnswer, CancelCall, Running, TypeOK, Provider
<1>2. \A d \in Call \ {c} : pc[d] \notin Running
  BY <1>1 DEF BindingInv
<1>3. \A d \in Call \ {c} : pc'[d] = pc[d] /\ target'[d] = target[d] /\ child'[d] = child[d]
  BY DEF CallStep, StartCall, AdmitCall, RefuseCall, InvokeSdk, TakeResult,
     TimeOutCall, FailTimedOut, WriteAnswer, CancelCall, Claim, TypeOK
<1>4. pc'[c] # "new"
  BY <1>1 DEF CallStep, StartCall, AdmitCall, RefuseCall, InvokeSdk, TakeResult,
     TimeOutCall, FailTimedOut, WriteAnswer, CancelCall, Claim, TypeOK, Running
<1>5. provider'.reader = provider.reader /\ provider'.cleanupFailed = provider.cleanupFailed
  BY DEF CallStep, StartCall, AdmitCall, RefuseCall, InvokeSdk, TakeResult,
     TimeOutCall, FailTimedOut, WriteAnswer, CancelCall, TypeOK, Provider
<1>6. /\ pc'[c] \in {"new", "task", "admission"} => target'[c] = None
      /\ pc'[c] \in {"queued", "sent", "timedout"} =>
           target'[c] = provider'.connection /\ FitsBinding(c)'
      /\ c \in known' => child'[c] = "ok" /\ pc'[c] \in {"answer", "done"}
  <2>1. CASE StartCall(c) \/ RefuseCall(c) \/ FailTimedOut(c)
    BY <1>4, <2>1 DEF StartCall, RefuseCall, FailTimedOut, Claim, BindingInv, TypeOK
  <2>2. CASE AdmitCall(c)
    BY <2>2 DEF AdmitCall, FitsBinding, BindingInv, TypeOK
  <2>3. CASE InvokeSdk(c) \/ TimeOutCall(c)
    BY <2>3 DEF InvokeSdk, TimeOutCall, FitsBinding, BindingInv, TypeOK
  <2>4. CASE TakeResult(c)
    BY <2>4 DEF TakeResult, Claim, BindingInv, TypeOK
  <2>5. CASE WriteAnswer(c) \/ CancelCall(c)
    BY <2>5 DEF WriteAnswer, CancelCall, BindingInv, TypeOK
  <2>6. QED
    BY <2>1, <2>2, <2>3, <2>4, <2>5 DEF CallStep
<1>7. \A d \in Call \ {c} : d \in known' => d \in known
  BY DEF CallStep, StartCall, AdmitCall, RefuseCall, InvokeSdk, TakeResult,
     TimeOutCall, FailTimedOut, WriteAnswer, CancelCall
<1>8. \A d \in Call \ {c} :
         /\ pc'[d] \in {"new", "task", "admission"} => target'[d] = None
         /\ pc'[d] \notin {"queued", "sent", "timedout"}
         /\ d \in known' => child'[d] = "ok" /\ pc'[d] \in {"answer", "done"}
  BY <1>2, <1>3, <1>7 DEF BindingInv, Running
<1>9. QED
  BY <1>2, <1>3, <1>5, <1>6, <1>8 DEF BindingInv

\* Every step keeps the binding of the call that was sent with it.
LEMMA NextBinding ==
    ASSUME TypeOK, RelayInv, OwnerInv, BindingInv, [Next]_vars
    PROVE  BindingInv'
<1> USE DEF serviceVars, sdkVars, relayVars, callVars, childVars
<1>1. CASE \E c \in Call : CallStep(c)
  BY <1>1, CallStepBinding
<1>2. CASE StartRoute
  <2>1. route = None /\ ~dirty
    BY <1>2 DEF StartRoute, RelayInv
  <2>2. \A c \in Call : pc[c] \notin Running
    BY <2>1 DEF OwnerInv, TypeOK, Running
  <2>3. provider'.reader = "recv"
    BY <1>2 DEF StartRoute, NewProvider
  <2>4. UNCHANGED <<pc, target, child, known>>
    BY <1>2 DEF StartRoute
  <2>5. QED
    BY <2>2, <2>3, <2>4 DEF BindingInv, Running
<1>3. CASE ~(\E c \in Call : CallStep(c)) /\ ~StartRoute
  <2>1. provider'.connection = provider.connection
        /\ (provider'.reader = "failed" => provider'.cleanupFailed)
    BY <1>3, ProviderKeeps DEF BindingInv, FailureKept
  <2>2. ASSUME UNCHANGED <<pc, target, known>>,
               \A c \in Call : child[c] = "ok" => child'[c] = "ok"
        PROVE  BindingInv'
    BY <2>1, <2>2 DEF BindingInv, FitsBinding
  <2>3. ASSUME ReapSdk PROVE BindingInv'
    <3>1. /\ \A c \in Call : pc'[c] \notin Running
          /\ \A c \in Call : pc'[c] = "new" => pc[c] = "new"
          /\ \A c \in Call : pc[c] \in {"answer", "done"} => pc'[c] = "done"
          /\ \A c \in Call : child[c] = "ok" => child'[c] = "ok"
          /\ UNCHANGED <<target, known>>
      BY <2>3 DEF ReapSdk, TypeOK, Running
    <3>2. QED
      BY <2>1, <3>1 DEF BindingInv, Running
  <2>4. CASE ReaderStep
    <3>1. UNCHANGED <<pc, target, known, child>>
      BY <2>4 DEF ReaderStep, FinishCancel, FinishShutdown, FinishReader, TimeOutShutdown,
         TimeOutReader, LeaveLoop, Terminate
    <3>2. QED
      BY <2>2, <3>1
  <2>5. CASE RelayStep
    <3>1. UNCHANGED <<pc, target, known, child>>
      BY <1>3, <2>5 DEF RelayStep, AbandonRoute, FinishRegister, FailRegister, WakeRelay,
         LeaveRoute, Terminate, FinishEnding, JoinReader, DisconnectOwn, FailCleanup
    <3>2. QED
      BY <2>2, <3>1
  <2>6. CASE RevokeRelay \/ FinishRevoke \/ RequalifySdk \/ OwnerStep
    BY <2>2, <2>6 DEF RevokeRelay, FinishRevoke, RequalifySdk, OwnerStep, BeginRelay,
       InvalidateRequest
  <2>7. CASE RestartSdk \/ GiveUpRevoke
    BY <2>3, <2>7 DEF RestartSdk, GiveUpRevoke
  <2>8. ASSUME NEW c \in Call, ReceiveCall(c) PROVE BindingInv'
    <3>1. /\ route # None /\ pc[c] = "new"
          /\ UNCHANGED <<target, known, child>>
          /\ \A d \in Call \ {c} : pc'[d] = pc[d]
          /\ pc'[c] \in {"task", "done"}
          /\ pc'[c] = "task" => Tasks = {}
      BY <2>8 DEF ReceiveCall, Reading, TypeOK
    <3>2. pc'[c] = "task" => \A d \in Call : pc[d] \notin Running
      BY <3>1 DEF Tasks, OwnerInv
    <3>3. \A d, e \in Call : pc'[d] \in Running /\ pc'[e] \in Running => d = e
      BY <3>1, <3>2 DEF BindingInv, Running
    <3>4. QED
      BY <2>1, <3>1, <3>3 DEF BindingInv, FitsBinding
  <2>9. CASE ManagerStep
    BY <2>2, <2>8, <2>9 DEF ManagerStep, ReceiveCancel, ReceiveShutdown, FailRead, LoseSocket,
       LeaveLoop, Terminate
  <2>10. CASE ChildStep
    BY <2>2, <2>10 DEF ChildStep, ChangeTools, ExecuteCall, TypeOK
  <2>11. CASE UNCHANGED vars
    BY <2>2, <2>11 DEF vars
  <2>12. QED
    BY <1>3, <2>4, <2>5, <2>6, <2>7, <2>9, <2>10, <2>11 DEF Next, ServiceStep
<1>4. QED
  BY <1>1, <1>2, <1>3

\* Nothing becomes unsettled while calls keep their targets and the child opens
\* nothing that is known; who gives the route up without it gives up the child.
LEMMA SettledKeeps ==
    ASSUME SettledInv, Unsettled' \subseteq Unsettled,
           provider'.connection = provider.connection,
           \/ route' = route /\ (route = None /\ dirty => dirty')
           \/ route' = None /\ dirty'
    PROVE  SettledInv'
BY DEF SettledInv

\* The steps of _dispatch_call: a connection gets into the binding when there is
\* none, and the disconnect that takes it out was sent with it.
LEMMA CallStepSettled ==
    ASSUME TypeOK, OwnerInv, BindingInv, SettledInv, NEW c \in Call, CallStep(c)
    PROVE  SettledInv'
<1> USE DEF At, serviceVars, sdkVars, relayVars, childVars
<1>1. CASE TakeResult(c)
  <2>1. /\ pc[c] = "sent" /\ target[c] = provider.connection /\ FitsBinding(c)
        /\ UNCHANGED <<route, dirty, target, conns>>
    BY <1>1 DEF TakeResult, BindingInv
  <2>2. provider.connection \in Call \cup {None} /\ None \notin Call /\ conns \subseteq Call
    BY DEF TypeOK, Provider
  <2>3. \/ known' = known /\ provider'.connection = provider.connection
        \/ c \in Connect /\ known' = known \cup {c} /\ provider'.connection = c
        \/ c \in Disconnect /\ known' = known /\ provider'.connection = None
    BY <1>1 DEF TakeResult, TypeOK, Provider
  <2>4. CASE route = None
    <3>1. dirty
      BY <2>1, <2>4 DEF OwnerInv, TypeOK, Running
    <3>2. QED
      BY <2>1, <2>4, <3>1 DEF SettledInv
  <2>5. CASE known' = known /\ provider'.connection = provider.connection
    BY <2>1, <2>5 DEF SettledInv, Unsettled
  <2>6. CASE route # None /\ c \in Connect /\ known' = known \cup {c} /\ provider'.connection = c
    <3>1. provider.connection = None
      BY <2>1, <2>6 DEF FitsBinding
    <3>2. Unsettled = {}
      BY <2>2, <2>6, <3>1 DEF SettledInv, Unsettled
    <3>3. Unsettled' \subseteq {c}
      BY <2>1, <2>6, <3>2 DEF Unsettled
    <3>4. QED
      BY <2>1, <2>6, <3>3 DEF SettledInv
  <2>7. CASE route # None /\ c \in Disconnect /\ known' = known /\ provider'.connection = None
    <3>1. Unsettled' = Unsettled
      BY <2>1, <2>7 DEF Unsettled
    <3>2. Unsettled = {}
      BY <2>1, <2>7 DEF SettledInv, Unsettled
    <3>3. QED
      BY <3>1, <3>2 DEF SettledInv
  <2>8. QED
    BY <2>3, <2>4, <2>5, <2>6, <2>7
<1>2. CASE AdmitCall(c)
  <2>1. target[c] = None /\ target' = [target EXCEPT ![c] = provider.connection]
        /\ UNCHANGED <<route, dirty, provider, conns, known>>
    BY <1>2 DEF AdmitCall, BindingInv
  <2>2. conns \subseteq Call /\ None \notin Call
    BY DEF TypeOK
  <2>3. ASSUME NEW e \in Unsettled' PROVE e \in Unsettled
    <3>1. e \in conns \cap known /\ \A d \in Disconnect : target'[d] # e
      BY <2>1 DEF Unsettled
    <3>2. ASSUME NEW d \in Disconnect PROVE target[d] # e
      BY <2>1, <2>2, <3>1 DEF TypeOK
    <3>3. QED
      BY <3>1, <3>2 DEF Unsettled
  <2>4. QED
    BY <2>1, <2>3, SettledKeeps
<1>3. CASE UNCHANGED <<route, dirty, provider, target, conns, known>>
  BY <1>3, SettledKeeps DEF Unsettled
<1>4. QED
  BY <1>1, <1>2, <1>3 DEF CallStep, StartCall, RefuseCall, InvokeSdk,
     TimeOutCall, FailTimedOut, WriteAnswer, CancelCall

\* Every step leaves an unsettled connection in the binding or gives the child
\* up.
LEMMA NextSettled ==
    ASSUME TypeOK, RelayInv, OwnerInv, BindingInv, SettledInv, [Next]_vars
    PROVE  SettledInv'
<1> USE DEF serviceVars, sdkVars, relayVars, callVars, childVars
<1>1. CASE \E c \in Call : CallStep(c)
  BY <1>1, CallStepSettled
<1>2. CASE StartRoute
  <2>1. Unsettled = {}
    BY <1>2 DEF StartRoute, RelayInv, SettledInv
  <2>2. Unsettled' = Unsettled
    BY <1>2 DEF StartRoute, Unsettled
  <2>3. QED
    BY <2>1, <2>2 DEF SettledInv
<1>3. CASE ~(\E c \in Call : CallStep(c)) /\ ~StartRoute
  <2>1. provider'.connection = provider.connection
    BY <1>3, ProviderKeeps DEF BindingInv, FailureKept
  <2>2. ASSUME conns' \subseteq conns, UNCHANGED <<target, known>> PROVE Unsettled' \subseteq Unsettled
    BY <2>2 DEF Unsettled
  <2>3. ASSUME UNCHANGED <<target, known, conns, route, dirty>> PROVE SettledInv'
    BY <2>1, <2>2, <2>3, SettledKeeps
  <2>4. ASSUME ReapSdk PROVE SettledInv'
    BY <2>4 DEF ReapSdk, SettledInv, Unsettled
  <2>5. CASE ReaderStep
    BY <2>3, <2>5 DEF ReaderStep, FinishCancel, FinishShutdown, FinishReader, TimeOutShutdown,
       TimeOutReader, LeaveLoop, Terminate
  <2>6. CASE AbandonRoute \/ FinishRegister \/ FinishEnding
    BY <2>3, <2>6 DEF AbandonRoute, FinishRegister, FinishEnding
  <2>7. CASE FailRegister \/ WakeRelay
    <3>1. UNCHANGED <<target, known, conns, route>> /\ route # None
      BY <2>7 DEF FailRegister, WakeRelay, LeaveRoute, Terminate, RelayInv
    <3>2. QED
      BY <2>1, <2>2, <3>1, SettledKeeps
  <2>8. CASE JoinReader
    <3>1. route # None /\ UNCHANGED <<target, known, conns>>
      BY <2>8 DEF JoinReader, RelayInv
    <3>2. CASE provider.reader = "done" /\ provider.connection # None
      BY <2>3, <2>8, <3>1, <3>2 DEF JoinReader
    <3>3. CASE provider.reader = "failed"
      <4>1. provider.cleanupFailed
        BY <3>3 DEF BindingInv
      <4>2. Release(dirty \/ provider.cleanupFailed \/ Tasks # {})
        BY <2>8, <3>3 DEF JoinReader
      <4>3. route' = None /\ dirty'
        BY <4>1, <4>2 DEF Release
      <4>4. QED
        BY <2>1, <2>2, <3>1, <4>3, SettledKeeps
    <3>4. CASE provider.connection = None
      <4>1. Unsettled = {}
        BY <3>1, <3>4 DEF SettledInv, Unsettled, TypeOK
      <4>2. Unsettled' = {}
        BY <2>2, <3>1, <4>1
      <4>3. QED
        BY <4>2 DEF SettledInv
    <3>5. QED
      BY <2>8, <3>2, <3>3, <3>4 DEF JoinReader
  <2>9. CASE DisconnectOwn
    <3>1. route # None /\ UNCHANGED <<target, known>> /\ route' = None
      BY <2>9 DEF DisconnectOwn, RelayInv, Release
    <3>2. CASE conns' = conns \ {provider.connection}
      <4>1. Unsettled' \subseteq Unsettled \ {provider.connection}
        BY <3>1, <3>2 DEF Unsettled
      <4>2. Unsettled' = {}
        BY <3>1, <4>1 DEF SettledInv
      <4>3. QED
        BY <4>2 DEF SettledInv
    <3>3. CASE Release(TRUE) /\ UNCHANGED conns
      <4>1. dirty'
        BY <3>3 DEF Release
      <4>2. QED
        BY <2>1, <2>2, <3>1, <3>3, <4>1, SettledKeeps
    <3>4. QED
      BY <2>9, <3>2, <3>3 DEF DisconnectOwn
  <2>10. CASE FailCleanup
    <3>1. route' = None /\ dirty' /\ UNCHANGED <<target, known, conns>>
      BY <2>10 DEF FailCleanup, Release
    <3>2. QED
      BY <2>1, <2>2, <3>1, SettledKeeps
  <2>11. CASE RevokeRelay \/ FinishRevoke \/ RequalifySdk \/ OwnerStep
    BY <2>3, <2>11 DEF RevokeRelay, FinishRevoke, RequalifySdk, OwnerStep, BeginRelay,
       InvalidateRequest
  <2>12. CASE RestartSdk \/ GiveUpRevoke
    BY <2>4, <2>12 DEF RestartSdk, GiveUpRevoke
  <2>13. CASE ManagerStep
    BY <2>3, <2>13 DEF ManagerStep, ReceiveCall, ReceiveCancel, ReceiveShutdown, FailRead,
       LoseSocket, LeaveLoop, Terminate
  <2>14. CASE ChangeTools
    BY <2>3, <2>14 DEF ChangeTools
  <2>15. ASSUME NEW c \in Call, ExecuteCall(c) PROVE SettledInv'
    <3>1. c \notin known
      BY <2>15 DEF ExecuteCall, BindingInv
    <3>2. conns' \subseteq conns \cup {c} /\ UNCHANGED <<target, known, route, dirty>>
      BY <2>15 DEF ExecuteCall
    <3>3. Unsettled' \subseteq Unsettled
      BY <3>1, <3>2 DEF Unsettled
    <3>4. QED
      BY <2>1, <3>2, <3>3, SettledKeeps
  <2>16. CASE UNCHANGED vars
    BY <2>3, <2>16 DEF vars
  <2>17. QED
    BY <1>3, <2>5, <2>6, <2>7, <2>8, <2>9, <2>10, <2>11, <2>12, <2>13, <2>14, <2>15, <2>16
    DEF Next, ServiceStep, RelayStep, ChildStep
<1>4. QED
  BY <1>1, <1>2, <1>3

-----------------------------------------------------------------------------
(* Theorems *)

\* The invariant holds when sdk_lifetime has qualified a child.
LEMMA InitInv ==
    ASSUME Init
    PROVE  AdapterInv
<1>1. TypeOK
  <2>1. /\ pc \in [Call -> Running \cup {"new", "done"}]
        /\ owner \in [Call -> (1 .. MaxRoutes) \cup {None}]
        /\ target \in [Call -> Call \cup {None}]
        /\ answers \in [Call -> Nat]
        /\ child \in [Call -> {"none", "running", "ok", "error"}]
    BY DEF Init
  <2>2. stale \in BOOLEAN /\ dirty \in BOOLEAN /\ invalid \in BOOLEAN /\ relayCancelled \in BOOLEAN
    BY Zenon DEF Init
  <2>3. routes \in 0 .. MaxRoutes
    BY DEF Init
  <2>4. QED
    BY <2>1, <2>2, <2>3, ProviderTypes DEF Init, TypeOK
<1>2. ClaimInv
  BY DEF Init, ClaimInv, AnsweredOnce, Running
<1>3. RelayInv
  BY DEF Init, RelayInv
<1>4. provider.connection = None
  BY DEF Init, NoProvider, NewProvider
<1>5. OwnerInv /\ OwnConnectionOnly
  BY <1>4 DEF Init, OwnerInv, OwnConnectionOnly, Running
<1>6. QED
  BY <1>1, <1>2, <1>3, <1>5 DEF AdapterInv

\* The inductive invariant: claims, answers, owners and the state of the relay
\* agree, for any calls and any number of activations (Provider, SharedSDK,
\* Service).
THEOREM AdapterConsistent == Spec => []AdapterInv
<1>1. Init => AdapterInv
  BY InitInv
<1>2. AdapterInv /\ [Next]_vars => AdapterInv'
  BY NextType, NextClaims, NextRelay, NextOwners DEF AdapterInv
<1>3. QED
  BY <1>1, <1>2, PTL DEF Spec

\* No call is answered twice, whoever cancels it (terminal_sent).
THEOREM AdapterAnswersOnce == Spec => []AnsweredOnce
<1>1. AdapterInv => AnsweredOnce
  BY DEF AdapterInv, ClaimInv
<1>2. QED
  BY <1>1, AdapterConsistent, PTL

\* A call that has ended on an open socket is answered, unless it was cancelled
\* while the answer it had claimed waited for the send lock (_dispatch_call, _handle_cancel, _terminal).
THEOREM AdapterAnswersFinished == Spec => []FinishedIsAnswered
<1>1. AdapterInv => FinishedIsAnswered
  BY DEF AdapterInv, ClaimInv, FinishedIsAnswered
<1>2. QED
  BY <1>1, AdapterConsistent, PTL

\* Calls reach the child with connections of their own owner only ("caller
\* cannot retarget", _dispatch_call; Service.begin).
THEOREM AdapterKeepsOwners == Spec => []OwnConnectionOnly
<1>1. AdapterInv => OwnConnectionOnly
  BY DEF AdapterInv
<1>2. QED
  BY <1>1, AdapterConsistent, PTL

\* A child that may be handed on runs no call of the adapter (qualified_relay).
THEOREM AdapterStandbyIsQuiet == Spec => []StandbyIsQuiet
<1>1. AdapterInv => StandbyIsQuiet
  <2> SUFFICES ASSUME AdapterInv, service = "standby", ~dirty, NEW c \in Call
               PROVE  pc[c] \notin Running
    BY DEF StandbyIsQuiet
  <2>1. route = None
    BY DEF AdapterInv, RelayInv
  <2>2. pc[c] # "new" => owner[c] # None
    BY DEF AdapterInv, OwnerInv, TypeOK
  <2>3. QED
    BY <2>1, <2>2 DEF AdapterInv, OwnerInv, Running
<1>2. QED
  BY <1>1, AdapterConsistent, PTL
\* However a route ends, its connection has been closed or the child is given
\* up: the binding and the open connections of the child agree (_dispatch_call,
\* qualified_relay, Service.tick).
THEOREM AdapterSettles == Spec => []KnownInv
<1>1. Init => KnownInv
  <2> SUFFICES ASSUME Init PROVE KnownInv
    OBVIOUS
  <2>1. AdapterInv
    BY InitInv
  <2>2. provider.reader = "done"
    BY DEF Init, NoProvider, NewProvider
  <2>3. BindingInv /\ SettledInv
    BY <2>2 DEF Init, BindingInv, SettledInv, Unsettled, Running
  <2>4. QED
    BY <2>1, <2>3 DEF KnownInv
<1>2. KnownInv /\ [Next]_vars => KnownInv'
  BY NextType, NextClaims, NextRelay, NextOwners, NextBinding, NextSettled
  DEF KnownInv, AdapterInv
<1>3. QED
  BY <1>1, <1>2, PTL DEF Spec

\* A connection the adapter knew of, and that no call asked to close, is closed
\* before the next owner gets the child (qualified_relay, finally).
THEOREM AdapterClosesKnown == Spec => []KnownIsClosed
<1>1. KnownInv => KnownIsClosed
  <2> SUFFICES ASSUME KnownInv, NEW c \in conns, route # None, owner[c] # route, c \in known,
                      \A d \in Disconnect : target[d] # c
               PROVE  FALSE
    BY DEF KnownIsClosed
  <2>1. provider.connection = c
    BY DEF KnownInv, SettledInv, Unsettled
  <2>2. c # None
    BY DEF KnownInv, AdapterInv, TypeOK
  <2>3. QED
    BY <2>1, <2>2 DEF KnownInv, AdapterInv, OwnerInv
<1>2. QED
  BY <1>1, AdapterSettles, PTL
=============================================================================
