-------------------------- MODULE MCManagerSurfaces --------------------------
(***************************************************************************)
(* One model-checking instance for the surfaces of the manager that share  *)
(* no state with each other: the notifier of the agents, the HTTP front,   *)
(* the routing of tools, the identity resolver, the frames of a client's   *)
(* connection, the loading of the terminal outbox and the process itself.  *)
(* The first state chooses one of them; the others never take a step, so   *)
(* the states of the run are the sum, not the product, of those of the     *)
(* modules.                                                                *)
(***************************************************************************)
EXTENDS ToolsNotifier, HttpAdmission, ProxyRouting, RasResolver, WireExchange,
        TerminalOutboxLoad, ManagerProcess

VARIABLE surface    \* the module that runs

\* A surface that does not run stays in one of its initial states.
SurfaceInit ==
    /\ surface \in {"notifier", "http", "routing", "ras", "wire", "outbox", "process"}
    /\ surface # "http" => httpConfig = CHOOSE c \in HttpConfigs : TRUE
    /\ surface # "routing" => rtMasking = FALSE /\ rtCached = [u \in RtUid |-> {}]
    /\ surface # "ras" => rasContent = CHOOSE w \in RasContents : TRUE
    /\ surface # "outbox" => obOriginal = CHOOSE f \in OutboxFiles : TRUE
    /\ surface # "process" =>
          procFile = (CHOOSE f \in ProcFiles : TRUE) /\ procCli = CHOOSE c \in ProcClis : TRUE
    /\ Init /\ HttpInit /\ RtInit /\ RasInit /\ WireInit /\ ObInit /\ ProcInit

NotifierRuns ==
    /\ surface = "notifier"
    /\ Next
    /\ UNCHANGED <<surface, httpVars, rtVars, rasVars, wireVars, obVars, procVars>>

HttpRuns ==
    /\ surface = "http"
    /\ HttpNext
    /\ UNCHANGED <<surface, vars, rtVars, rasVars, wireVars, obVars, procVars>>

RoutingRuns ==
    /\ surface = "routing"
    /\ RtNext
    /\ UNCHANGED <<surface, vars, httpVars, rasVars, wireVars, obVars, procVars>>

RasRuns ==
    /\ surface = "ras"
    /\ RasNext
    /\ UNCHANGED <<surface, vars, httpVars, rtVars, wireVars, obVars, procVars>>

WireRuns ==
    /\ surface = "wire"
    /\ WireNext
    /\ UNCHANGED <<surface, vars, httpVars, rtVars, rasVars, obVars, procVars>>

OutboxRuns ==
    /\ surface = "outbox"
    /\ ObNext
    /\ UNCHANGED <<surface, vars, httpVars, rtVars, rasVars, wireVars, procVars>>

ProcessRuns ==
    /\ surface = "process"
    /\ ProcNext
    /\ UNCHANGED <<surface, vars, httpVars, rtVars, rasVars, wireVars, obVars>>

SurfaceNext ==
    \/ NotifierRuns
    \/ HttpRuns
    \/ RoutingRuns
    \/ RasRuns
    \/ WireRuns
    \/ OutboxRuns
    \/ ProcessRuns

surfaceVars == <<surface, vars, httpVars, rtVars, rasVars, wireVars, obVars, procVars>>

\* The fairness is the one of the notifier and of the process; the other
\* surfaces have safety properties.
SurfaceSpec ==
    SurfaceInit /\ [][SurfaceNext]_surfaceVars /\ Fairness /\ ProcFairness

\* Picked, which the proofs can reason about, is SelectSeq.
ASSUME PickedIsSelectSeq ==
    \A s \in UNION {[1..n -> 1..3] : n \in 0..5} :
        Picked(s, {i \in DOMAIN s : s[i] # 1}) = SelectSeq(s, LAMBDA e : e # 1)

-----------------------------------------------------------------------------
(* Values of the constants *)

\* max_sessions = 0 counts as 1; a bearer token; sessions switched off.
MCHttpConfigs ==
    { [max |-> 0, stateful |-> TRUE, auth |-> TRUE],
      [max |-> 2, stateful |-> TRUE, auth |-> FALSE],
      [max |-> 1, stateful |-> FALSE, auth |-> FALSE] }

Post(session, ok, body) ==
    [method |-> "POST", session |-> session, token |-> ok, headers |-> ok,
     body |-> body, v8 |-> body = "batch" \/ ~ok]

Delete(session) ==
    [method |-> "DELETE", session |-> session, token |-> TRUE, headers |-> FALSE,
     body |-> "garbage", v8 |-> FALSE]

\* Opening a session well and badly, a batch with reserved metadata outside and
\* inside a session, and closing one.
MCHttpRequests ==
    {Post(NoSession, TRUE, b) : b \in {"initialize", "batch", "huge"}}
    \cup {Post(NoSession, FALSE, "initialize")}
    \cup {Post(s, TRUE, "batch") : s \in HttpSession}
    \cup {Delete(s) : s \in HttpSession}

Declared(name, schema, public) == [name |-> name, schema |-> schema, public |-> public]

\* One name with two schemas, declared public by some, internal by others and
\* twice by one, and a configured internal name that an adapter declares public.
MCToolLists ==
    { << Declared("query", "x", TRUE) >>,
      << Declared("query", "y", TRUE), Declared("query", "y", TRUE),
         Declared("secret", "x", TRUE) >>,
      << Declared("query", "x", FALSE), Declared("secret", "x", FALSE) >> }

\* No file, or one written when "secret" was not an internal tool yet.
MCRtFiles ==
    { [u \in RtUid |-> {}],
      [u \in RtUid |-> IF u = "u1" THEN {"secret"} ELSE {}] }

\* The base is in one cluster or in the other, or its name is in both.
MCRasContents ==
    {{<<"c1", "i1">>}, {<<"c2", "i1">>}, {<<"c1", "i1">>, <<"c2", "i1">>}}

Frame(version, id, method, result, error) ==
    [version |-> version, id |-> id, method |-> method, result |-> result, error |-> error]

\* Every kind of message, two requests nobody can read and one without support.
MCWireFrames ==
    { Frame(TRUE, "number", "session.register", FALSE, "absent"),
      Frame(TRUE, "text", "session.bye", FALSE, "absent"),
      Frame(TRUE, "absent", "session.tools_changed", FALSE, "absent"),
      Frame(TRUE, "null", "session.tools_changed", FALSE, "absent"),
      Frame(TRUE, "number", "absent", TRUE, "absent"),
      Frame(TRUE, "number", "absent", TRUE, "valid"),
      Frame(TRUE, "other", "session.bye", FALSE, "absent"),
      Frame(FALSE, "text", "session.bye", FALSE, "absent") }

\* An event with another unknown field is refused whatever else is in it; three
\* events are one too many.
MCOutboxEvents ==
    {e \in [call : 1..3, chat : BOOLEAN, extra : BOOLEAN,
            code : {"allowed", "chat", "wrong"}] :
        e.extra => ~e.chat /\ e.code = "allowed"}

MCOutboxFiles ==
    {[top |-> FALSE, events |-> <<>>]}
    \cup [top : {TRUE}, events : UNION {[1..n -> MCOutboxEvents] : n \in 0..3}]

Given(ok) == [from |-> "file", ok |-> ok]

\* A file with everything right, and one with each of its settings wrong; each
\* with and without the section of the session manager.
MCGoodConfig ==
    [ work |-> "relative", http |-> [address |-> Given(TRUE), path |-> Given(TRUE)],
      ws |-> [given |-> TRUE, address |-> Given(TRUE), path |-> Given(TRUE), idle |-> TRUE],
      metrics |-> TRUE, cache |-> [enabled |-> TRUE, ok |-> TRUE],
      masking |-> [enabled |-> TRUE, ok |-> TRUE] ]

MCConfigs ==
    { MCGoodConfig,
      [MCGoodConfig EXCEPT !.work = "empty"],
      [MCGoodConfig EXCEPT !.http.address.ok = FALSE],
      [MCGoodConfig EXCEPT !.ws.path.ok = FALSE],
      [MCGoodConfig EXCEPT !.ws.given = FALSE, !.work = "absolute"],
      [MCGoodConfig EXCEPT !.cache.ok = FALSE],
      [MCGoodConfig EXCEPT !.masking.ok = FALSE],
      [MCGoodConfig EXCEPT !.masking = [enabled |-> FALSE, ok |-> FALSE],
                           !.ws.idle = FALSE] }

MCProcFiles == {[readable |-> TRUE, config |-> c] : c \in MCConfigs}
               \cup {[readable |-> FALSE, config |-> MCGoodConfig]}
=============================================================================
