---------------------------- MODULE HttpAdmission ----------------------------
(***************************************************************************)
(* The HTTP front of the MCP server (HttpMcpService, HttpSessionAdmission  *)
(* and HttpSessionReservation in mcp/server.rs): one handler per HTTP      *)
(* request, all sharing the admission state that limits the number of MCP  *)
(* sessions.  The sessions themselves belong to rmcp's                     *)
(* LocalSessionManager, which is external: it creates a session for an     *)
(* initialize, closes it for a DELETE and lets it expire after idle_ttl.   *)
(*                                                                         *)
(* A handler can be dropped at every await, when its client disconnects.   *)
(***************************************************************************)
EXTENDS Integers, FiniteSets

CONSTANTS
    HttpHandler,    \* requests served at the same time
    HttpSession,    \* session ids rmcp can issue
    NoSession,      \* no mcp-session-id header
    HttpConfigs,    \* settings of [mcp.http]: the max, stateful and auth of each
    HttpRequests    \* requests the clients send

ASSUME NoSessionAssumption == NoSession \notin HttpSession
ASSUME HttpConfigAssumption ==
    HttpConfigs \subseteq [max : Nat, stateful : BOOLEAN, auth : BOOLEAN]
ASSUME HttpFiniteAssumption == IsFiniteSet(HttpHandler) /\ IsFiniteSet(HttpSession)

\* What handle looks at in a request.  headers says that Accept and
\* Content-Type are the ones of the streamable transport; body stands for the JSON-RPC method of
\* the body, "batch" for an array and "garbage" for what is no JSON; v8 says
\* that params._meta holds keys of the reserved prefix "v8.".
HttpRequest ==
    [ method  : {"POST", "GET", "DELETE"},
      session : HttpSession \cup {NoSession},
      token   : BOOLEAN,
      headers : BOOLEAN,
      body    : {"initialize", "call", "batch", "garbage", "huge"},
      v8      : BOOLEAN ]

ASSUME HttpRequestAssumption == HttpRequests \subseteq HttpRequest

NoRequest == [method |-> "GET", session |-> NoSession, token |-> FALSE,
              headers |-> FALSE, body |-> "garbage", v8 |-> FALSE]

VARIABLES
    httpConfig,     \* the setting in use
    httpPc,         \* where each handler is
    httpRequest,    \* its request, as rewritten so far
    httpCreated,    \* the session rmcp created for it
    httpReserved,   \* HttpSessionAdmissionState.reserved
    httpActive,     \* HttpSessionAdmissionState.active_sessions
    httpLive,       \* LocalSessionManager.sessions
    httpIssued,     \* ids rmcp has used
    httpOrphans     \* sessions whose initialize was never confirmed

httpAdmission == <<httpReserved, httpActive>>
httpSessions == <<httpLive, httpIssued>>
httpVars == <<httpConfig, httpPc, httpRequest, httpCreated, httpAdmission,
              httpSessions, httpOrphans>>

HttpTypeOK ==
    /\ httpConfig \in HttpConfigs
    /\ httpPc \in [HttpHandler ->
                     {"idle", "body", "reserve", "initialize", "inner", "deleted"}]
    /\ httpRequest \in [HttpHandler -> HttpRequest]
    /\ httpCreated \in [HttpHandler -> HttpSession \cup {NoSession}]
    /\ httpReserved \in Nat
    /\ httpActive \in SUBSET HttpSession
    /\ httpLive \in SUBSET HttpSession
    /\ httpIssued \in SUBSET HttpSession
    /\ httpOrphans \in SUBSET HttpSession

HttpInit ==
    /\ httpConfig \in HttpConfigs
    /\ httpPc = [h \in HttpHandler |-> "idle"]
    /\ httpRequest = [h \in HttpHandler |-> NoRequest]
    /\ httpCreated = [h \in HttpHandler |-> NoSession]
    /\ httpReserved = 0
    /\ httpActive = {}
    /\ httpLive = {}
    /\ httpIssued = {}
    /\ httpOrphans = {}

-----------------------------------------------------------------------------
(* The pieces of handle *)

\* HttpSessionAdmission::new
MaxSessions == IF httpConfig.max < 1 THEN 1 ELSE httpConfig.max

Authorized(r) == httpConfig.auth => r.token

IsInitializeCandidate(r) ==
    httpConfig.stateful /\ r.method = "POST" /\ r.session = NoSession

\* Variant: a handler whose body is a batch skips the rewriting.
StripObjectsOnly(r) == [r EXCEPT !.v8 = @ /\ r.body \in {"garbage", "batch"}]

\* strip_reserved_v8_meta reaches the objects of an array, too; a body that
\* is no JSON is passed on as it is.
StripReserved(r) == [r EXCEPT !.v8 = @ /\ r.body = "garbage"]

Finish(h) ==
    /\ httpPc' = [httpPc EXCEPT ![h] = "idle"]
    /\ httpRequest' = [httpRequest EXCEPT ![h] = NoRequest]
    /\ httpCreated' = [httpCreated EXCEPT ![h] = NoSession]

Goto(h, pc) ==
    /\ httpPc' = [httpPc EXCEPT ![h] = pc]
    /\ UNCHANGED httpCreated

-----------------------------------------------------------------------------
(* handle *)

\* A request that fails check_bearer_auth is answered at once and leaves no
\* trace.
Arrive(h, r) ==
    /\ httpPc[h] = "idle"
    /\ Authorized(r)
    /\ Goto(h, IF r.method = "POST" THEN "body" ELSE "inner")
    /\ httpRequest' = [httpRequest EXCEPT ![h] = r]
    /\ UNCHANGED <<httpConfig, httpAdmission, httpSessions, httpOrphans>>

\* sanitize_http_rpc_request and the decisions up to reserve_initialize.  An
\* initialize with headers rmcp refuses goes to rmcp for its error.
Sanitize(h) ==
    LET r == httpRequest[h] IN
    /\ httpPc[h] = "body"
    /\ \/ /\ r.body = "huge"
          /\ Finish(h)
       \/ /\ r.body # "huge"
          /\ IsInitializeCandidate(r) => ~r.headers
          /\ Goto(h, "inner")
          /\ httpRequest' = [httpRequest EXCEPT ![h] = StripReserved(r)]
       \/ /\ r.body \notin {"huge", "initialize"}
          /\ IsInitializeCandidate(r) /\ r.headers
          /\ Finish(h)
       \/ /\ r.body = "initialize"
          /\ IsInitializeCandidate(r) /\ r.headers
          /\ Goto(h, "reserve")
          /\ httpRequest' = [httpRequest EXCEPT ![h] = StripReserved(r)]
    /\ UNCHANGED <<httpConfig, httpAdmission, httpSessions, httpOrphans>>

\* Variant: sessions are forgotten only by DELETE.
RetainAll == httpActive

\* The sessions that still count: retain drops the ones rmcp has forgotten.
Retained == httpActive \cap httpLive

HasCapacity == Cardinality(Retained) + httpReserved < MaxSessions

\* reserve_initialize with the two locks held.
ReserveInitialize(h) ==
    /\ httpPc[h] = "reserve"
    /\ HasCapacity
    /\ Goto(h, "initialize")
    /\ httpActive' = Retained
    /\ httpReserved' = httpReserved + 1
    /\ UNCHANGED <<httpConfig, httpRequest, httpSessions, httpOrphans>>

\* HttpOverloadError: answered with 503.
RefuseInitialize(h) ==
    /\ httpPc[h] = "reserve"
    /\ ~HasCapacity
    /\ Finish(h)
    /\ httpActive' = Retained
    /\ UNCHANGED <<httpConfig, httpReserved, httpSessions, httpOrphans>>

\* reserved.saturating_sub(1)
Unreserved == IF httpReserved = 0 THEN 0 ELSE httpReserved - 1

\* rmcp answered 200 with a session id.
Confirm(h) ==
    /\ httpPc[h] = "initialize"
    /\ httpCreated[h] # NoSession
    /\ Finish(h)
    /\ httpReserved' = Unreserved
    /\ httpActive' = httpActive \cup {httpCreated[h]}
    /\ UNCHANGED <<httpConfig, httpSessions, httpOrphans>>

\* rmcp answered something else; a session it created meanwhile stays until
\* it expires.
Release(h) ==
    /\ httpPc[h] = "initialize"
    /\ Finish(h)
    /\ httpReserved' = Unreserved
    /\ httpOrphans' = httpOrphans \cup ({httpCreated[h]} \cap HttpSession)
    /\ UNCHANGED <<httpConfig, httpActive, httpSessions>>

\* Variant: a reservation without Drop.
DropForgets(h) ==
    /\ httpPc[h] # "idle"
    /\ Finish(h)
    /\ httpOrphans' = httpOrphans \cup ({httpCreated[h]} \cap HttpSession)
    /\ UNCHANGED <<httpConfig, httpAdmission, httpSessions>>

\* The client disconnects and the handler's future is dropped;
\* HttpSessionReservation::drop gives the reservation back.
DropHandler(h) ==
    /\ httpPc[h] # "idle"
    /\ Finish(h)
    /\ httpReserved' = IF httpPc[h] = "initialize" THEN Unreserved ELSE httpReserved
    /\ httpOrphans' = httpOrphans \cup ({httpCreated[h]} \cap HttpSession)
    /\ UNCHANGED <<httpConfig, httpActive, httpSessions>>

\* Variant: the session of every request is removed, whatever its method.
AnswerRemoves(h) ==
    /\ httpPc[h] \in {"inner", "deleted"}
    /\ Finish(h)
    /\ httpActive' = httpActive \ {httpRequest[h].session}
    /\ UNCHANGED <<httpConfig, httpReserved, httpSessions, httpOrphans>>

\* Whatever rmcp answers on the paths without a reservation ends the handler;
\* after the 202 to a DELETE the session is removed from the admission, too.
Answer(h) ==
    /\ httpPc[h] \in {"inner", "deleted"}
    /\ Finish(h)
    /\ httpActive' = IF httpPc[h] = "deleted"
                     THEN httpActive \ {httpRequest[h].session} ELSE httpActive
    /\ UNCHANGED <<httpConfig, httpReserved, httpSessions, httpOrphans>>

-----------------------------------------------------------------------------
(* rmcp's LocalSessionManager *)

CreateSession(h, s) ==
    /\ httpPc[h] = "initialize"
    /\ httpCreated[h] = NoSession
    /\ s \in HttpSession \ httpIssued
    /\ httpCreated' = [httpCreated EXCEPT ![h] = s]
    /\ httpLive' = httpLive \cup {s}
    /\ httpIssued' = httpIssued \cup {s}
    /\ UNCHANGED <<httpConfig, httpPc, httpRequest, httpAdmission, httpOrphans>>

CloseSession(h) ==
    /\ httpPc[h] = "inner"
    /\ httpRequest[h].method = "DELETE"
    /\ httpRequest[h].session \in httpIssued
    /\ Goto(h, "deleted")
    /\ httpLive' = httpLive \ {httpRequest[h].session}
    /\ UNCHANGED <<httpConfig, httpRequest, httpAdmission, httpIssued, httpOrphans>>

Expire(s) ==
    /\ s \in httpLive
    /\ httpLive' = httpLive \ {s}
    /\ UNCHANGED <<httpConfig, httpPc, httpRequest, httpCreated, httpAdmission,
                   httpIssued, httpOrphans>>

-----------------------------------------------------------------------------
HandlerStep(h) ==
    \/ \E r \in HttpRequests : Arrive(h, r)
    \/ Sanitize(h)
    \/ ReserveInitialize(h)
    \/ RefuseInitialize(h)
    \/ Confirm(h)
    \/ Release(h)
    \/ Answer(h)
    \/ DropHandler(h)
    \/ \E s \in HttpSession : CreateSession(h, s)
    \/ CloseSession(h)

HttpNext ==
    \/ \E h \in HttpHandler : HandlerStep(h)
    \/ \E s \in HttpSession : Expire(s)

HttpSpec == HttpInit /\ [][HttpNext]_httpVars

-----------------------------------------------------------------------------
(* Properties *)

Holders == {h \in HttpHandler : httpPc[h] = "initialize"}

\* The counter `reserved` is exactly the number of initialize requests in
\* flight, whatever mix of answers, failures and disconnects ended the others,
\* and together with the confirmed sessions it never exceeds max_sessions.
AdmissionExact ==
    /\ httpReserved = Cardinality(Holders)
    /\ Cardinality(httpActive) + httpReserved <= MaxSessions

\* No MCP session escapes the limit: each one rmcp keeps alive is confirmed,
\* or its initialize still holds a reservation, or that initialize failed or
\* was abandoned after rmcp had created the session.
LiveIsCounted ==
    \A s \in httpLive :
        \/ s \in httpActive
        \/ \E h \in Holders : httpCreated[h] = s
        \/ s \in httpOrphans

\* An initialize is refused only when the sessions that are still alive and
\* the ones being opened fill max_sessions: neither a session that expired nor
\* a handler that was dropped keeps a place.
RefusedOnlyWhenFull ==
    [][\A h \in HttpHandler :
          RefuseInitialize(h) =>
              Cardinality(httpActive \cap httpLive) + Cardinality(Holders)
                  >= MaxSessions]_httpVars

\* What reaches rmcp carries no metadata of the reserved prefix, unless it is
\* no JSON at all, and reaches it authorised and below the size limit; an
\* initialize rmcp would open a session for reaches it only with a reservation.
InnerSeesAdmitted ==
    \A h \in HttpHandler :
        LET r == httpRequest[h] IN
        /\ httpPc[h] \in {"initialize", "inner"} /\ r.method = "POST" =>
              r.body # "huge" /\ Authorized(r) /\ (r.v8 => r.body = "garbage")
        /\ httpPc[h] = "inner" => ~(IsInitializeCandidate(r) /\ r.headers)
=============================================================================
