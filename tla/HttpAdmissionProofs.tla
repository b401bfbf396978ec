------------------------- MODULE HttpAdmissionProofs -------------------------
(***************************************************************************)
(* Proofs about HttpAdmission: whatever mix of answers, disconnects,       *)
(* expiries and deletes, the counter of reservations is exact, no live     *)
(* session escapes the limit, and nothing unadmitted reaches rmcp.         *)
(***************************************************************************)
EXTENDS HttpAdmission, FiniteSetTheorems, TLAPS

\* What each place of handle knows of its request: an authorised POST until the
\* reservation, a stripped initialize at it; only a handler that holds a
\* reservation has created a session, and the session of a DELETE that was
\* answered is gone for good.
HandlerFacts ==
    /\ \A h \in HttpHandler :
          /\ httpPc[h] \in {"body", "reserve"} =>
                Authorized(httpRequest[h]) /\ httpRequest[h].method = "POST"
          /\ httpPc[h] = "reserve" =>
                httpRequest[h].body = "initialize" /\ ~httpRequest[h].v8
          /\ httpCreated[h] # NoSession => httpPc[h] = "initialize"
          /\ httpPc[h] = "deleted" => httpRequest[h].session \in httpIssued \ httpLive
    /\ httpLive \subseteq httpIssued

\* The inductive invariant.
HttpInv ==
    HttpTypeOK /\ HandlerFacts /\ AdmissionExact /\ LiveIsCounted /\ InnerSeesAdmitted

-----------------------------------------------------------------------------
(* Types *)

\* NoRequest and a stripped request are requests.
LEMMA RequestTypes ==
    /\ NoRequest \in HttpRequest
    /\ \A r \in HttpRequest : StripReserved(r) \in HttpRequest
  BY DEF NoRequest, HttpRequest, StripReserved

\* Stripping changes nothing of a request but its reserved keys.
LEMMA StripKeeps ==
    ASSUME NEW r \in HttpRequest
    PROVE  /\ StripReserved(r).method = r.method
           /\ StripReserved(r).session = r.session
           /\ StripReserved(r).token = r.token
           /\ StripReserved(r).headers = r.headers
           /\ StripReserved(r).body = r.body
           /\ StripReserved(r).v8 => r.body = "garbage"
  BY DEF StripReserved, HttpRequest

\* Finish and Goto keep the types of what they change.
LEMMA FinishType ==
    ASSUME NEW h \in HttpHandler, HttpTypeOK, Finish(h)
    PROVE  /\ httpPc' \in [HttpHandler ->
                 {"idle", "body", "reserve", "initialize", "inner", "deleted"}]
           /\ httpRequest' \in [HttpHandler -> HttpRequest]
           /\ httpCreated' \in [HttpHandler -> HttpSession \cup {NoSession}]
  BY RequestTypes DEF HttpTypeOK, Finish

\* Every step keeps the types: reserved stays a natural number.
LEMMA TypeStep ==
    HttpTypeOK /\ [HttpNext]_httpVars => HttpTypeOK'
<1> SUFFICES ASSUME HttpTypeOK, [HttpNext]_httpVars PROVE HttpTypeOK'
  OBVIOUS
<1> USE HttpRequestAssumption, RequestTypes
<1>1. ASSUME NEW h \in HttpHandler, NEW r \in HttpRequests, Arrive(h, r) PROVE HttpTypeOK'
  BY <1>1 DEF HttpTypeOK, Arrive, Goto, httpAdmission, httpSessions
<1>2. ASSUME NEW h \in HttpHandler, Sanitize(h) PROVE HttpTypeOK'
  <2>1. CASE Finish(h)
    BY <1>2, <2>1, FinishType DEF HttpTypeOK, Sanitize, httpAdmission, httpSessions
  <2>2. CASE /\ Goto(h, "inner") \/ Goto(h, "reserve")
             /\ httpRequest' = [httpRequest EXCEPT ![h] = StripReserved(httpRequest[h])]
    BY <1>2, <2>2 DEF HttpTypeOK, Sanitize, Goto, httpAdmission, httpSessions
  <2> QED BY <1>2, <2>1, <2>2 DEF Sanitize
<1>3. ASSUME NEW h \in HttpHandler, ReserveInitialize(h) PROVE HttpTypeOK'
  BY <1>3 DEF HttpTypeOK, ReserveInitialize, Goto, Retained, httpSessions
<1>4. ASSUME NEW h \in HttpHandler, RefuseInitialize(h) PROVE HttpTypeOK'
  BY <1>4, FinishType DEF HttpTypeOK, RefuseInitialize, Retained, httpSessions
<1>5. ASSUME NEW h \in HttpHandler, Confirm(h) PROVE HttpTypeOK'
  BY <1>5, FinishType DEF HttpTypeOK, Confirm, Unreserved, httpSessions
<1>6. ASSUME NEW h \in HttpHandler, Release(h) PROVE HttpTypeOK'
  BY <1>6, FinishType DEF HttpTypeOK, Release, Unreserved, httpSessions
<1>7. ASSUME NEW h \in HttpHandler, Answer(h) PROVE HttpTypeOK'
  BY <1>7, FinishType DEF HttpTypeOK, Answer, httpSessions
<1>8. ASSUME NEW h \in HttpHandler, DropHandler(h) PROVE HttpTypeOK'
  BY <1>8, FinishType DEF HttpTypeOK, DropHandler, Unreserved, httpSessions
<1>9. ASSUME NEW h \in HttpHandler, NEW s \in HttpSession, CreateSession(h, s) PROVE HttpTypeOK'
  BY <1>9 DEF HttpTypeOK, CreateSession, httpAdmission
<1>10. ASSUME NEW h \in HttpHandler, CloseSession(h) PROVE HttpTypeOK'
  BY <1>10 DEF HttpTypeOK, CloseSession, Goto, httpAdmission
<1>11. ASSUME NEW s \in HttpSession, Expire(s) PROVE HttpTypeOK'
  BY <1>11 DEF HttpTypeOK, Expire, httpAdmission
<1>12. CASE UNCHANGED httpVars
  BY <1>12 DEF HttpTypeOK, httpVars, httpAdmission, httpSessions
<1> QED
  BY <1>1, <1>2, <1>3, <1>4, <1>5, <1>6, <1>7, <1>8, <1>9, <1>10, <1>11, <1>12
     DEF HttpNext, HandlerStep

-----------------------------------------------------------------------------
(* The places of handle *)

\* Every step keeps the facts about the handlers.
LEMMA FactsStep ==
    HttpTypeOK /\ HandlerFacts /\ [HttpNext]_httpVars => HandlerFacts'
<1> SUFFICES ASSUME HttpTypeOK, HandlerFacts, [HttpNext]_httpVars PROVE HandlerFacts'
  OBVIOUS
<1>1. ASSUME NEW h \in HttpHandler, NEW r \in HttpRequests, Arrive(h, r) PROVE HandlerFacts'
  BY <1>1 DEF Arrive, Goto, HttpTypeOK, HandlerFacts, Authorized, httpAdmission, httpSessions
<1>2. ASSUME NEW h \in HttpHandler, Sanitize(h) PROVE HandlerFacts'
  <2> DEFINE r == httpRequest[h]
  <2>0. r \in HttpRequest
    BY DEF HttpTypeOK
  <2>1. CASE Finish(h)
    BY <1>2, <2>1 DEF Sanitize, Finish, NoRequest, HttpTypeOK, HandlerFacts, Authorized,
          IsInitializeCandidate, httpAdmission, httpSessions
  <2>2. CASE /\ Goto(h, "inner")
             /\ r.body # "huge"
             /\ IsInitializeCandidate(r) => ~r.headers
             /\ httpRequest' = [httpRequest EXCEPT ![h] = StripReserved(r)]
    <3> HIDE DEF r
    <3>1. httpRequest'[h] = StripReserved(r) /\ httpPc'[h] = "inner"
      BY <2>2 DEF Goto, HttpTypeOK
    <3>2. \A g \in HttpHandler \ {h} : httpRequest'[g] = httpRequest[g] /\ httpPc'[g] = httpPc[g]
      BY <2>2 DEF Goto, HttpTypeOK
    <3> QED BY <1>2, <2>0, <2>2, <3>1, <3>2, StripKeeps DEF r, Sanitize, Goto, HttpTypeOK, HandlerFacts, Authorized,
          IsInitializeCandidate, httpAdmission, httpSessions
  <2>3. CASE /\ Goto(h, "reserve")
             /\ r.body = "initialize"
             /\ IsInitializeCandidate(r) /\ r.headers
             /\ httpRequest' = [httpRequest EXCEPT ![h] = StripReserved(r)]
    <3> HIDE DEF r
    <3>1. httpRequest'[h] = StripReserved(r) /\ httpPc'[h] = "reserve"
      BY <2>3 DEF Goto, HttpTypeOK
    <3>2. \A g \in HttpHandler \ {h} : httpRequest'[g] = httpRequest[g] /\ httpPc'[g] = httpPc[g]
      BY <2>3 DEF Goto, HttpTypeOK
    <3> QED BY <1>2, <2>0, <2>3, <3>1, <3>2, StripKeeps DEF r, Sanitize, Goto, HttpTypeOK, HandlerFacts, Authorized,
          IsInitializeCandidate, httpAdmission, httpSessions
  <2> QED BY <1>2, <2>1, <2>2, <2>3 DEF Sanitize
<1>3. ASSUME NEW h \in HttpHandler, ReserveInitialize(h) PROVE HandlerFacts'
  BY <1>3 DEF ReserveInitialize, Goto, HttpTypeOK, HandlerFacts, Authorized, httpAdmission,
              httpSessions
<1>4. ASSUME NEW h \in HttpHandler, RefuseInitialize(h) PROVE HandlerFacts'
  BY <1>4 DEF RefuseInitialize, Finish, HttpTypeOK, HandlerFacts, Authorized, httpAdmission,
              httpSessions
<1>5. ASSUME NEW h \in HttpHandler, Confirm(h) PROVE HandlerFacts'
  BY <1>5 DEF Confirm, Finish, HttpTypeOK, HandlerFacts, Authorized, httpAdmission,
              httpSessions
<1>6. ASSUME NEW h \in HttpHandler, Release(h) PROVE HandlerFacts'
  BY <1>6 DEF Release, Finish, HttpTypeOK, HandlerFacts, Authorized, httpAdmission,
              httpSessions
<1>7. ASSUME NEW h \in HttpHandler, Answer(h) PROVE HandlerFacts'
  BY <1>7 DEF Answer, Finish, HttpTypeOK, HandlerFacts, Authorized, httpAdmission, httpSessions
<1>8. ASSUME NEW h \in HttpHandler, DropHandler(h) PROVE HandlerFacts'
  BY <1>8 DEF DropHandler, Finish, HttpTypeOK, HandlerFacts, Authorized, httpAdmission,
              httpSessions
<1>9. ASSUME NEW h \in HttpHandler, NEW s \in HttpSession, CreateSession(h, s) PROVE HandlerFacts'
  BY <1>9 DEF CreateSession, HttpTypeOK, HandlerFacts, Authorized, httpAdmission, httpSessions
<1>10. ASSUME NEW h \in HttpHandler, CloseSession(h) PROVE HandlerFacts'
  BY <1>10 DEF CloseSession, Goto, HttpTypeOK, HandlerFacts, Authorized, httpAdmission,
               httpSessions
<1>11. ASSUME NEW s \in HttpSession, Expire(s) PROVE HandlerFacts'
  BY <1>11 DEF Expire, HttpTypeOK, HandlerFacts, Authorized, httpAdmission, httpSessions
<1>12. CASE UNCHANGED httpVars
  BY <1>12 DEF httpVars, httpAdmission, httpSessions, HttpTypeOK, HandlerFacts, Authorized
<1> QED
  BY <1>1, <1>2, <1>3, <1>4, <1>5, <1>6, <1>7, <1>8, <1>9, <1>10, <1>11, <1>12
     DEF HttpNext, HandlerStep

\* Every step keeps what reaches rmcp admitted.
LEMMA InnerStep ==
    HttpTypeOK /\ HandlerFacts /\ InnerSeesAdmitted /\ [HttpNext]_httpVars => InnerSeesAdmitted'
<1> SUFFICES ASSUME HttpTypeOK, HandlerFacts, InnerSeesAdmitted, [HttpNext]_httpVars PROVE InnerSeesAdmitted'
  OBVIOUS
<1>1. ASSUME NEW h \in HttpHandler, NEW r \in HttpRequests, Arrive(h, r) PROVE InnerSeesAdmitted'
  BY <1>1 DEF Arrive, Goto, HttpTypeOK, HandlerFacts, InnerSeesAdmitted, Authorized,
              IsInitializeCandidate, httpAdmission, httpSessions
<1>2. ASSUME NEW h \in HttpHandler, Sanitize(h) PROVE InnerSeesAdmitted'
  <2> DEFINE r == httpRequest[h]
  <2>0. r \in HttpRequest
    BY DEF HttpTypeOK
  <2>1. CASE Finish(h)
    BY <1>2, <2>1 DEF Sanitize, Finish, NoRequest, HttpTypeOK, HandlerFacts, InnerSeesAdmitted,
          Authorized, IsInitializeCandidate, httpAdmission, httpSessions
  <2>2. CASE /\ Goto(h, "inner")
             /\ r.body # "huge"
             /\ IsInitializeCandidate(r) => ~r.headers
             /\ httpRequest' = [httpRequest EXCEPT ![h] = StripReserved(r)]
    <3> HIDE DEF r
    <3>1. httpRequest'[h] = StripReserved(r) /\ httpPc'[h] = "inner"
      BY <2>2 DEF Goto, HttpTypeOK
    <3>2. \A g \in HttpHandler \ {h} : httpRequest'[g] = httpRequest[g] /\ httpPc'[g] = httpPc[g]
      BY <2>2 DEF Goto, HttpTypeOK
    <3> QED BY <1>2, <2>0, <2>2, <3>1, <3>2, StripKeeps DEF r, Sanitize, Goto, HttpTypeOK, HandlerFacts, InnerSeesAdmitted,
          Authorized, IsInitializeCandidate, httpAdmission, httpSessions
  <2>3. CASE /\ Goto(h, "reserve")
             /\ r.body = "initialize"
             /\ IsInitializeCandidate(r) /\ r.headers
             /\ httpRequest' = [httpRequest EXCEPT ![h] = StripReserved(r)]
    <3> HIDE DEF r
    <3>1. httpRequest'[h] = StripReserved(r) /\ httpPc'[h] = "reserve"
      BY <2>3 DEF Goto, HttpTypeOK
    <3>2. \A g \in HttpHandler \ {h} : httpRequest'[g] = httpRequest[g] /\ httpPc'[g] = httpPc[g]
      BY <2>3 DEF Goto, HttpTypeOK
    <3> QED BY <1>2, <2>0, <2>3, <3>1, <3>2, StripKeeps DEF r, Sanitize, Goto, HttpTypeOK, HandlerFacts, InnerSeesAdmitted,
          Authorized, IsInitializeCandidate, httpAdmission, httpSessions
  <2> QED BY <1>2, <2>1, <2>2, <2>3 DEF Sanitize
<1>3. ASSUME NEW h \in HttpHandler, ReserveInitialize(h) PROVE InnerSeesAdmitted'
  BY <1>3 DEF ReserveInitialize, Goto, HttpTypeOK, HandlerFacts, InnerSeesAdmitted,
              Authorized, IsInitializeCandidate, httpAdmission, httpSessions
<1>4. ASSUME NEW h \in HttpHandler, RefuseInitialize(h) PROVE InnerSeesAdmitted'
  BY <1>4 DEF RefuseInitialize, Finish, HttpTypeOK, HandlerFacts, InnerSeesAdmitted,
              Authorized, IsInitializeCandidate, httpAdmission, httpSessions
<1>5. ASSUME NEW h \in HttpHandler, Confirm(h) PROVE InnerSeesAdmitted'
  BY <1>5 DEF Confirm, Finish, HttpTypeOK, HandlerFacts, InnerSeesAdmitted, Authorized,
              IsInitializeCandidate, httpAdmission, httpSessions
<1>6. ASSUME NEW h \in HttpHandler, Release(h) PROVE InnerSeesAdmitted'
  BY <1>6 DEF Release, Finish, HttpTypeOK, HandlerFacts, InnerSeesAdmitted, Authorized,
              IsInitializeCandidate, httpAdmission, httpSessions
<1>7. ASSUME NEW h \in HttpHandler, Answer(h) PROVE InnerSeesAdmitted'
  BY <1>7 DEF Answer, Finish, HttpTypeOK, HandlerFacts, InnerSeesAdmitted, Authorized,
              IsInitializeCandidate, httpAdmission, httpSessions
<1>8. ASSUME NEW h \in HttpHandler, DropHandler(h) PROVE InnerSeesAdmitted'
  BY <1>8 DEF DropHandler, Finish, HttpTypeOK, HandlerFacts, InnerSeesAdmitted, Authorized,
              IsInitializeCandidate, httpAdmission, httpSessions
<1>9. ASSUME NEW h \in HttpHandler, NEW s \in HttpSession, CreateSession(h, s) PROVE InnerSeesAdmitted'
  BY <1>9 DEF CreateSession, HttpTypeOK, HandlerFacts, InnerSeesAdmitted, Authorized,
              IsInitializeCandidate, httpAdmission, httpSessions
<1>10. ASSUME NEW h \in HttpHandler, CloseSession(h) PROVE InnerSeesAdmitted'
  BY <1>10 DEF CloseSession, Goto, HttpTypeOK, HandlerFacts, InnerSeesAdmitted, Authorized,
               IsInitializeCandidate, httpAdmission, httpSessions
<1>11. ASSUME NEW s \in HttpSession, Expire(s) PROVE InnerSeesAdmitted'
  BY <1>11 DEF Expire, HttpTypeOK, HandlerFacts, InnerSeesAdmitted, Authorized,
               IsInitializeCandidate, httpAdmission, httpSessions
<1>12. CASE UNCHANGED httpVars
  BY <1>12 DEF httpVars, httpAdmission, httpSessions, HttpTypeOK, HandlerFacts,
               InnerSeesAdmitted, Authorized, IsInitializeCandidate
<1> QED
  BY <1>1, <1>2, <1>3, <1>4, <1>5, <1>6, <1>7, <1>8, <1>9, <1>10, <1>11, <1>12
     DEF HttpNext, HandlerStep

\* Every step keeps the live sessions counted.
LEMMA LiveStep ==
    HttpTypeOK /\ HandlerFacts /\ LiveIsCounted /\ [HttpNext]_httpVars => LiveIsCounted'
<1> SUFFICES ASSUME HttpTypeOK, HandlerFacts, LiveIsCounted, [HttpNext]_httpVars PROVE LiveIsCounted'
  OBVIOUS
<1> USE NoSessionAssumption
<1>1. ASSUME NEW h \in HttpHandler, NEW r \in HttpRequests, Arrive(h, r) PROVE LiveIsCounted'
  BY <1>1 DEF Arrive, Goto, HttpTypeOK, HandlerFacts, LiveIsCounted, Holders, httpAdmission,
              httpSessions
<1>2. ASSUME NEW h \in HttpHandler, Sanitize(h) PROVE LiveIsCounted'
  BY <1>2 DEF Sanitize, Goto, Finish, HttpTypeOK, HandlerFacts, LiveIsCounted, Holders,
              httpAdmission, httpSessions
<1>3. ASSUME NEW h \in HttpHandler, ReserveInitialize(h) PROVE LiveIsCounted'
  BY <1>3 DEF ReserveInitialize, Goto, HttpTypeOK, HandlerFacts, LiveIsCounted, Holders,
              httpAdmission, httpSessions, Retained
<1>4. ASSUME NEW h \in HttpHandler, RefuseInitialize(h) PROVE LiveIsCounted'
  BY <1>4 DEF RefuseInitialize, Finish, HttpTypeOK, HandlerFacts, LiveIsCounted, Holders,
              httpAdmission, httpSessions, Retained
<1>5. ASSUME NEW h \in HttpHandler, Confirm(h) PROVE LiveIsCounted'
  BY <1>5 DEF Confirm, Finish, HttpTypeOK, HandlerFacts, LiveIsCounted, Holders,
              httpAdmission, httpSessions
<1>6. ASSUME NEW h \in HttpHandler, Release(h) PROVE LiveIsCounted'
  BY <1>6 DEF Release, Finish, HttpTypeOK, HandlerFacts, LiveIsCounted, Holders,
              httpAdmission, httpSessions
<1>7. ASSUME NEW h \in HttpHandler, Answer(h) PROVE LiveIsCounted'
  BY <1>7 DEF Answer, Finish, HttpTypeOK, HandlerFacts, LiveIsCounted, Holders,
              httpAdmission, httpSessions
<1>8. ASSUME NEW h \in HttpHandler, DropHandler(h) PROVE LiveIsCounted'
  BY <1>8 DEF DropHandler, Finish, HttpTypeOK, HandlerFacts, LiveIsCounted, Holders,
              httpAdmission, httpSessions
<1>9. ASSUME NEW h \in HttpHandler, NEW s \in HttpSession, CreateSession(h, s) PROVE LiveIsCounted'
  BY <1>9 DEF CreateSession, HttpTypeOK, HandlerFacts, LiveIsCounted, Holders,
              httpAdmission, httpSessions
<1>10. ASSUME NEW h \in HttpHandler, CloseSession(h) PROVE LiveIsCounted'
  BY <1>10 DEF CloseSession, Goto, HttpTypeOK, HandlerFacts, LiveIsCounted, Holders,
               httpAdmission, httpSessions
<1>11. ASSUME NEW s \in HttpSession, Expire(s) PROVE LiveIsCounted'
  BY <1>11 DEF Expire, HttpTypeOK, HandlerFacts, LiveIsCounted, Holders, httpAdmission,
               httpSessions
<1>12. CASE UNCHANGED httpVars
  BY <1>12 DEF httpVars, httpAdmission, httpSessions, HttpTypeOK, HandlerFacts,
               LiveIsCounted, Holders
<1> QED
  BY <1>1, <1>2, <1>3, <1>4, <1>5, <1>6, <1>7, <1>8, <1>9, <1>10, <1>11, <1>12
     DEF HttpNext, HandlerStep

-----------------------------------------------------------------------------
(* The counter of reservations *)

\* The sets that are counted are finite, and their sizes natural numbers.
LEMMA CountsFinite ==
    ASSUME HttpTypeOK
    PROVE  /\ IsFiniteSet(Holders) /\ Cardinality(Holders) \in Nat
           /\ \A S \in SUBSET HttpSession : IsFiniteSet(S) /\ Cardinality(S) \in Nat
           /\ MaxSessions \in Nat /\ MaxSessions >= 1
<1>1. \A S \in SUBSET HttpSession : IsFiniteSet(S) /\ Cardinality(S) \in Nat
  BY HttpFiniteAssumption, FS_Subset, FS_CardinalityType
<1>2. Holders \subseteq HttpHandler
  BY DEF Holders
<1>3. IsFiniteSet(Holders) /\ Cardinality(Holders) \in Nat
  BY <1>2, HttpFiniteAssumption, FS_Subset, FS_CardinalityType
<1>4. MaxSessions \in Nat /\ MaxSessions >= 1
  BY HttpConfigAssumption DEF HttpTypeOK, MaxSessions
<1> QED BY <1>1, <1>3, <1>4

\* Adding one session to the active ones adds at most one to their number;
\* keeping or removing some adds nothing.
LEMMA ActiveCounts ==
    ASSUME HttpTypeOK
    PROVE  /\ \A S \in SUBSET httpActive : Cardinality(S) <= Cardinality(httpActive)
           /\ \A s \in HttpSession :
                 Cardinality(httpActive \cup {s}) <= Cardinality(httpActive) + 1
<1>1. IsFiniteSet(httpActive) /\ Cardinality(httpActive) \in Nat
  BY CountsFinite DEF HttpTypeOK
<1>2. \A S \in SUBSET httpActive : Cardinality(S) <= Cardinality(httpActive)
  BY <1>1, FS_Subset
<1>3. ASSUME NEW s \in HttpSession
      PROVE  Cardinality(httpActive \cup {s}) <= Cardinality(httpActive) + 1
  BY <1>1, FS_AddElement
<1> QED BY <1>2, <1>3

\* A handler outside the reservation leaves the holders as they are.
LEMMA HoldersSame ==
    ASSUME HttpTypeOK, NEW h \in HttpHandler, httpPc[h] # "initialize",
           NEW pc, pc # "initialize", httpPc' = [httpPc EXCEPT ![h] = pc]
    PROVE  Holders' = Holders
  BY DEF HttpTypeOK, Holders

\* A reservation adds its handler to the holders.
LEMMA HoldersAdded ==
    ASSUME HttpTypeOK, NEW h \in HttpHandler, httpPc[h] # "initialize",
           httpPc' = [httpPc EXCEPT ![h] = "initialize"]
    PROVE  Cardinality(Holders') = Cardinality(Holders) + 1
<1>1. Holders' = Holders \cup {h} /\ h \notin Holders
  BY DEF HttpTypeOK, Holders
<1> QED BY <1>1, CountsFinite, FS_AddElement

\* The end of a reservation takes its handler out of the holders, and finds
\* the counter positive when it was exact.
LEMMA HoldersRemoved ==
    ASSUME HttpTypeOK, NEW h \in HttpHandler, httpPc[h] = "initialize",
           httpPc' = [httpPc EXCEPT ![h] = "idle"]
    PROVE  /\ Cardinality(Holders') = Cardinality(Holders) - 1
           /\ Cardinality(Holders) >= 1
<1>1. Holders' = Holders \ {h} /\ h \in Holders
  BY DEF HttpTypeOK, Holders
<1>2. Cardinality(Holders') = Cardinality(Holders) - 1
  BY <1>1, CountsFinite, FS_RemoveElement
<1>3. Cardinality(Holders) # 0
  BY <1>1, CountsFinite, FS_EmptySet
<1> QED BY <1>2, <1>3, CountsFinite

\* Every step keeps the counter exact and the limit respected.
LEMMA AdmissionStep ==
    HttpTypeOK /\ HandlerFacts /\ AdmissionExact /\ [HttpNext]_httpVars => AdmissionExact'
<1> SUFFICES ASSUME HttpTypeOK, HandlerFacts, AdmissionExact, [HttpNext]_httpVars
             PROVE  AdmissionExact'
  OBVIOUS
<1> DEFINE held == Cardinality(Holders)
           active == Cardinality(httpActive)
<1>0. /\ held \in Nat /\ active \in Nat /\ MaxSessions \in Nat
      /\ httpReserved = held /\ active + held <= MaxSessions
  BY CountsFinite DEF AdmissionExact, HttpTypeOK
<1>a. ASSUME httpConfig' = httpConfig PROVE MaxSessions' = MaxSessions
  BY <1>a DEF MaxSessions
<1>same. ASSUME Holders' = Holders, httpConfig' = httpConfig, httpReserved' = httpReserved,
                httpActive' \in SUBSET httpActive
         PROVE  AdmissionExact'
  <2>1. Cardinality(httpActive') <= active /\ Cardinality(httpActive') \in Nat
    BY <1>same, ActiveCounts, CountsFinite DEF HttpTypeOK
  <2> QED BY <1>same, <1>0, <1>a, <2>1 DEF AdmissionExact
<1>ended. ASSUME NEW h \in HttpHandler, httpPc[h] = "initialize", Finish(h),
                 httpConfig' = httpConfig, httpReserved' = Unreserved,
                 Cardinality(httpActive') \in Nat, Cardinality(httpActive') <= active + 1
          PROVE  AdmissionExact'
  <2>1. Cardinality(Holders') = held - 1 /\ held >= 1
    BY <1>ended, HoldersRemoved DEF Finish
  <2>2. httpReserved' = held - 1
    BY <1>ended, <1>0, <2>1 DEF Unreserved
  <2> QED BY <1>ended, <1>0, <1>a, <2>1, <2>2 DEF AdmissionExact
<1>1. ASSUME NEW h \in HttpHandler, NEW r \in HttpRequests, Arrive(h, r)
      PROVE  AdmissionExact'
  <2>1. Holders' = Holders
    BY <1>1, HoldersSame DEF Arrive, Goto
  <2> QED BY <1>1, <2>1, <1>same DEF Arrive, httpAdmission
<1>2. ASSUME NEW h \in HttpHandler, Sanitize(h) PROVE AdmissionExact'
  <2>1. Holders' = Holders
    BY <1>2, HoldersSame DEF Sanitize, Goto, Finish
  <2> QED BY <1>2, <2>1, <1>same DEF Sanitize, httpAdmission
<1>3. ASSUME NEW h \in HttpHandler, ReserveInitialize(h) PROVE AdmissionExact'
  <2>1. Cardinality(Holders') = held + 1
    BY <1>3, HoldersAdded DEF ReserveInitialize, Goto
  <2>2. Retained \in SUBSET HttpSession
    BY DEF Retained, HttpTypeOK
  <2>3. Cardinality(Retained) \in Nat
    BY <2>2, CountsFinite
  <2>4. /\ Cardinality(Retained) + httpReserved < MaxSessions
        /\ httpActive' = Retained /\ httpReserved' = httpReserved + 1
        /\ httpConfig' = httpConfig
    BY <1>3 DEF ReserveInitialize, HasCapacity
  <2> QED BY <1>0, <1>a, <2>1, <2>3, <2>4 DEF AdmissionExact
<1>4. ASSUME NEW h \in HttpHandler, RefuseInitialize(h) PROVE AdmissionExact'
  <2>1. Holders' = Holders
    BY <1>4, HoldersSame DEF RefuseInitialize, Finish
  <2> QED BY <1>4, <2>1, <1>same DEF RefuseInitialize, Retained
<1>5. ASSUME NEW h \in HttpHandler, Confirm(h) PROVE AdmissionExact'
  <2>1. httpCreated[h] \in HttpSession
    BY <1>5 DEF Confirm, HttpTypeOK
  <2>2. httpActive' = httpActive \cup {httpCreated[h]}
    BY <1>5 DEF Confirm
  <2>3. Cardinality(httpActive') <= active + 1 /\ Cardinality(httpActive') \in Nat
    BY <2>1, <2>2, ActiveCounts, CountsFinite DEF HttpTypeOK
  <2> QED BY <1>5, <2>3, <1>ended DEF Confirm
<1>6. ASSUME NEW h \in HttpHandler, Release(h) PROVE AdmissionExact'
  BY <1>0, <1>6, <1>ended DEF Release
<1>7. ASSUME NEW h \in HttpHandler, Answer(h) PROVE AdmissionExact'
  <2>1. Holders' = Holders
    BY <1>7, HoldersSame DEF Answer, Finish
  <2> QED BY <1>7, <2>1, <1>same DEF Answer
<1>8. ASSUME NEW h \in HttpHandler, DropHandler(h) PROVE AdmissionExact'
  <2>1. CASE httpPc[h] = "initialize"
    BY <1>0, <1>8, <2>1, <1>ended DEF DropHandler
  <2>2. CASE httpPc[h] # "initialize"
    <3>1. Holders' = Holders
      BY <1>8, <2>2, HoldersSame DEF DropHandler, Finish
    <3> QED BY <1>8, <2>2, <3>1, <1>same DEF DropHandler
  <2> QED BY <2>1, <2>2
<1>9. ASSUME NEW h \in HttpHandler, NEW s \in HttpSession, CreateSession(h, s)
      PROVE  AdmissionExact'
  BY <1>9, <1>same DEF CreateSession, Holders, httpAdmission
<1>10. ASSUME NEW h \in HttpHandler, CloseSession(h) PROVE AdmissionExact'
  <2>1. Holders' = Holders
    BY <1>10, HoldersSame DEF CloseSession, Goto
  <2> QED BY <1>10, <2>1, <1>same DEF CloseSession, httpAdmission
<1>11. ASSUME NEW s \in HttpSession, Expire(s) PROVE AdmissionExact'
  BY <1>11, <1>same DEF Expire, Holders, httpAdmission
<1>12. CASE UNCHANGED httpVars
  BY <1>12, <1>same DEF httpVars, httpAdmission, Holders
<1> QED
  BY <1>1, <1>2, <1>3, <1>4, <1>5, <1>6, <1>7, <1>8, <1>9, <1>10, <1>11, <1>12
     DEF HttpNext, HandlerStep

-----------------------------------------------------------------------------
(* The theorems *)

\* A server that has just started satisfies the invariant.
LEMMA HttpInitInv ==
    HttpInit => HttpInv
<1> SUFFICES ASSUME HttpInit PROVE HttpInv
  OBVIOUS
<1>1. HttpTypeOK
  BY RequestTypes DEF HttpInit, HttpTypeOK
<1>2. HandlerFacts /\ LiveIsCounted /\ InnerSeesAdmitted
  BY NoSessionAssumption DEF HttpInit, HandlerFacts, LiveIsCounted, InnerSeesAdmitted,
                             NoRequest
<1>3. Holders = {} /\ httpActive = {} /\ httpReserved = 0
  BY DEF HttpInit, Holders
<1>4. AdmissionExact
  BY <1>1, <1>3, CountsFinite, FS_EmptySet DEF AdmissionExact
<1> QED BY <1>1, <1>2, <1>4 DEF HttpInv

\* The inductive invariant holds for every number of handlers, sessions and
\* settings.
THEOREM HttpConsistent == HttpSpec => []HttpInv
<1>1. HttpInv /\ [HttpNext]_httpVars => HttpInv'
  BY TypeStep, FactsStep, AdmissionStep, LiveStep, InnerStep DEF HttpInv
<1> QED BY <1>1, HttpInitInv, PTL DEF HttpSpec

\* The state of the HTTP front keeps its types; reserved is never negative.
THEOREM HttpTypeCorrect == HttpSpec => []HttpTypeOK
<1>1. HttpInv => HttpTypeOK
  BY DEF HttpInv
<1> QED BY <1>1, HttpConsistent, PTL

\* The counter of reservations equals the initialize requests in flight, and
\* max_sessions is never exceeded.
THEOREM HttpAdmissionExact == HttpSpec => []AdmissionExact
<1>1. HttpInv => AdmissionExact
  BY DEF HttpInv
<1> QED BY <1>1, HttpConsistent, PTL

\* Each live session is confirmed, being confirmed, or an orphan of an
\* abandoned initialize.
THEOREM HttpLiveIsCounted == HttpSpec => []LiveIsCounted
<1>1. HttpInv => LiveIsCounted
  BY DEF HttpInv
<1> QED BY <1>1, HttpConsistent, PTL

\* What reaches rmcp is authorised, small enough, without reserved metadata,
\* and never an unreserved initialize.
THEOREM HttpInnerSeesAdmitted == HttpSpec => []InnerSeesAdmitted
<1>1. HttpInv => InnerSeesAdmitted
  BY DEF HttpInv
<1> QED BY <1>1, HttpConsistent, PTL

\* An initialize is refused only when live sessions and reservations fill
\* max_sessions.
THEOREM HttpRefusedOnlyWhenFull == HttpSpec => RefusedOnlyWhenFull
<1> DEFINE Full == \A h \in HttpHandler :
                     RefuseInitialize(h) =>
                         Cardinality(httpActive \cap httpLive) + Cardinality(Holders)
                             >= MaxSessions
<1>1. HttpInv => Full
  <2> SUFFICES ASSUME HttpInv, NEW h \in HttpHandler, RefuseInitialize(h)
               PROVE  Cardinality(httpActive \cap httpLive) + Cardinality(Holders)
                          >= MaxSessions
    OBVIOUS
  <2>1. httpActive \cap httpLive \in SUBSET HttpSession
    BY DEF HttpInv, HttpTypeOK
  <2>2. Cardinality(httpActive \cap httpLive) \in Nat
    BY <2>1, CountsFinite DEF HttpInv
  <2>3. Cardinality(Holders) \in Nat /\ MaxSessions \in Nat
    BY CountsFinite DEF HttpInv
  <2>4. httpReserved = Cardinality(Holders)
    BY DEF HttpInv, AdmissionExact
  <2> QED BY <2>2, <2>3, <2>4 DEF RefuseInitialize, HasCapacity, Retained
<1>2. HttpInv /\ [HttpNext]_httpVars => [Full]_httpVars
  BY <1>1
<1> QED BY <1>2, HttpConsistent, PTL DEF HttpSpec, RefusedOnlyWhenFull
=============================================================================
