---------------------------- MODULE ProxyRouting -----------------------------
(***************************************************************************)
(* What the agents see of the sessions and where their calls go:           *)
(* tools/list and tools/call of mcp/server.rs, the ClientProxy router      *)
(* (session_manager/router.rs), the session_list view                      *)
(* (session_manager/management.rs) and the internal endpoint the masking   *)
(* service calls (session_manager/masking/internal.rs).                    *)
(*                                                                         *)
(* tools/call reads the registry three times, each time under a lock of    *)
(* its own, and then awaits the masking service before it uses the record  *)
(* it has cloned; sessions register, leave, come back on another           *)
(* connection and change their tools in between.  The registry itself is   *)
(* the subject of SessionRegistry; here it is what the router reads of it. *)
(* A connection carries one registration, so its base is given by the key  *)
(* the manager computed for that registration.  A session has an entry of  *)
(* its own in the tools cache, and the process may start with the entries  *)
(* an earlier one has left in the file, of whatever configuration.         *)
(***************************************************************************)
EXTENDS Naturals, Sequences

CONSTANTS
    RtUid,          \* client uids: the session ids
    RtConn,         \* connections, used once each
    RtBuiltin,      \* tools of the manager itself (tool_router)
    RtInternal,     \* masking.internal_tools
    RtToolLists,    \* lists of descriptors adapters declare
    RtFiles,        \* what the cache file may hold at the start: uid -> public names
    RtBases,        \* database keys: ras:... or gen:...
    RtNone          \* no selector, no record, no key, no connection

RtDeclared == UNION {{ts[i] : i \in DOMAIN ts} : ts \in RtToolLists}
RtName == {d.name : d \in RtDeclared} \cup RtBuiltin \cup RtInternal
RtSchema == {d.schema : d \in RtDeclared}
RtDescriptor == [name : RtName, schema : RtSchema, public : BOOLEAN]

\* Nothing keeps an adapter from declaring a name twice, with one schema or two.
ASSUME RtToolListsAssumption == \A ts \in RtToolLists : ts \in Seq(RtDescriptor)
ASSUME RtFilesAssumption == RtFiles \subseteq [RtUid -> SUBSET RtName]
ASSUME RtNoneAssumption == RtNone \notin RtUid \cup RtConn \cup RtBases
ASSUME RtUidAssumption ==
    RtUid \cap {"not_proxy_tool", "session_tool_mismatch", "session_required"} = {}
ASSUME RtUnusedAssumption == "unused" \notin RtBases \cup {RtNone}

VARIABLES
    rtMasking,      \* masking.enabled
    rtRecord,       \* the registry: uid -> record or RtNone
    rtBase,         \* the base behind each connection that has registered
    rtCached,       \* public names in the tools cache entry of each session
    rtLoaded,       \* history: those of an entry that is still the one of the file
    rtCall,         \* a tools/call in progress
    rtSent,         \* the tool.call this step handed to a dispatcher
    rtAnswer        \* what this step answered a tools/call with

rtRegistry == <<rtRecord, rtBase, rtCached, rtLoaded>>
rtVars == <<rtMasking, rtRegistry, rtCall, rtSent, rtAnswer>>

RtRecord == [active : BOOLEAN, conn : RtConn \cup {RtNone},
             key : RtBases \cup {RtNone}, tools : Seq(RtDescriptor)]

\* rec is the clone that `get` returned, identity the one preflight was sent.
RtCallState == [pc : {"idle", "validated", "resolved", "preflight", "dispatched"},
                name : RtName \cup {RtNone}, session : RtUid \cup {RtNone},
                rec : RtRecord \cup {RtNone}, identity : RtBases \cup {RtNone}]

RtIdle == [pc |-> "idle", name |-> RtNone, session |-> RtNone, rec |-> RtNone,
           identity |-> RtNone]

RtTypeOK ==
    /\ rtMasking \in BOOLEAN
    /\ rtRecord \in [RtUid -> RtRecord \cup {RtNone}]
    /\ rtBase \in [RtConn -> RtBases \cup {RtNone, "unused"}]
    /\ rtCached \in [RtUid -> SUBSET RtName]
    /\ rtLoaded \in [RtUid -> SUBSET RtName]
    /\ rtCall \in RtCallState
    /\ rtSent \subseteq [agent : BOOLEAN, name : RtName, conn : RtConn,
                         identity : RtBases \cup {RtNone}]
    /\ rtAnswer \in {"none", "failure", "raw", "public"}

\* The cache is what load_or_empty found: descriptors with the visibility an
\* earlier process gave them.
RtInit ==
    /\ rtMasking \in BOOLEAN
    /\ rtRecord = [u \in RtUid |-> RtNone]
    /\ rtBase = [c \in RtConn |-> "unused"]
    /\ rtCached \in RtFiles
    /\ rtLoaded = rtCached
    /\ rtCall = RtIdle
    /\ rtSent = {}
    /\ rtAnswer = "none"

\* A step that sends no call and answers none.
Silent == rtSent' = {} /\ rtAnswer' = "none"

-----------------------------------------------------------------------------
(* The registry, as far as the router reads it *)

\* MaskingGate::normalize_tools: a restriction is never widened.  Without a gate
\* the visibility stays the declared one.
NormalizeTools(ts) ==
    [i \in DOMAIN ts |->
        [ts[i] EXCEPT !.public = @ /\ (rtMasking => ts[i].name \notin RtInternal)]]

\* Positions of a list with a public tool of that name, and the names
Publishing(ts, name) == {i \in DOMAIN ts : ts[i].public /\ ts[i].name = name}
PublicNames(ts) == {ts[i].name : i \in {j \in DOMAIN ts : ts[j].public}}

Active(u) == rtRecord[u] # RtNone /\ rtRecord[u].active

\* upsert: the session's entry is written, and is no longer the one of the file.
WriteCached(u, ts) ==
    /\ rtCached' = [rtCached EXCEPT ![u] = PublicNames(ts)]
    /\ rtLoaded' = [rtLoaded EXCEPT ![u] = {}]

\* session.register; base is RtNone for a file base (no cluster_server) and
\* without a gate.
RegisterBase(u, c, base, declared) ==
    LET ts == NormalizeTools(declared) IN
    /\ rtBase[c] = "unused"
    /\ ~Active(u)
    /\ base # RtNone => rtMasking
    /\ rtRecord' = [rtRecord EXCEPT ![u] =
                     [active |-> TRUE, conn |-> c, key |-> base, tools |-> ts]]
    /\ rtBase' = [rtBase EXCEPT ![c] = base]
    /\ WriteCached(u, ts)
    /\ Silent
    /\ UNCHANGED <<rtMasking, rtCall>>

\* Variant: tools_changed without the normalisation of register.
ChangeToolsDeclared(u, declared) ==
    /\ Active(u)
    /\ declared # rtRecord[u].tools
    /\ rtRecord' = [rtRecord EXCEPT ![u].tools = declared]
    /\ WriteCached(u, declared)
    /\ Silent
    /\ UNCHANGED <<rtMasking, rtBase, rtCall>>

\* session.tools_changed; an equal list changes nothing.
ChangeTools(u, declared) ==
    LET ts == NormalizeTools(declared) IN
    /\ Active(u)
    /\ ts # rtRecord[u].tools
    /\ rtRecord' = [rtRecord EXCEPT ![u].tools = ts]
    /\ WriteCached(u, ts)
    /\ Silent
    /\ UNCHANGED <<rtMasking, rtBase, rtCall>>

\* mark_disconnected
SuspendSession(u) ==
    /\ Active(u)
    /\ rtRecord' = [rtRecord EXCEPT ![u].active = FALSE, ![u].conn = RtNone]
    /\ Silent
    /\ UNCHANGED <<rtMasking, rtBase, rtCached, rtLoaded, rtCall>>

\* remove, after a bye, a shutdown or the grace period
RemoveSession(u) ==
    /\ rtRecord[u] # RtNone
    /\ rtRecord' = [rtRecord EXCEPT ![u] = RtNone]
    /\ Silent
    /\ UNCHANGED <<rtMasking, rtBase, rtCached, rtLoaded, rtCall>>

\* The entry expires or is reset.
ForgetCached(u) ==
    /\ rtCached[u] # {}
    /\ rtCached' = [rtCached EXCEPT ![u] = {}]
    /\ rtLoaded' = [rtLoaded EXCEPT ![u] = {}]
    /\ Silent
    /\ UNCHANGED <<rtMasking, rtRecord, rtBase, rtCall>>

-----------------------------------------------------------------------------
(* build_proxy_view, proxy_tools and list_all_tools_inner *)

\* session_ids of a bucket of build_proxy_view: an entry for every time an active
\* session publishes name with this schema.
Entries(name, schema) ==
    UNION {{u} \X {i \in Publishing(rtRecord[u].tools, name) :
                      rtRecord[u].tools[i].schema = schema} : u \in {v \in RtUid : Active(v)}}

Bucket(name, schema) == {e[1] : e \in Entries(name, schema)}

\* The slot: its schemas, session_ids and sessions
SlotVariants(name) == {s \in RtSchema : Entries(name, s) # {}}
SlotEntries(name) == UNION {Entries(name, s) : s \in RtSchema}
SlotSessions(name) == {e[1] : e \in SlotEntries(name)}

\* len() = 1 of a slot's session_ids, or of its variants.
One(S) == \E e \in S : S = {e}

\* Variant: each bucket of a oneOf decides for itself.
SelectorValuesPerBucket(name, schema) ==
    Bucket(name, schema) \cup (IF One(Entries(name, schema)) THEN {RtNone} ELSE {})

\* input_schema_with_session_selector: the values the selector of a variant may
\* take (RtNone: it may be left out).  Several variants make a oneOf, in which
\* the selector is always required.
SelectorValues(name, schema) ==
    Bucket(name, schema) \cup
        (IF One(SlotVariants(name)) /\ One(SlotEntries(name)) THEN {RtNone} ELSE {})

\* The schemas of tools/list that admit a call with this selector.
AdmittingSchemas(name, session) ==
    {s \in SlotVariants(name) : session \in SelectorValues(name, s)}

\* The names lookup_cache_entry finds.
CachedNames == UNION {rtCached[u] : u \in RtUid}

\* Names of list_all_tools_inner: the manager's own, the live and the cached.
ListedNames == RtBuiltin \cup {n \in RtName : SlotSessions(n) # {}} \cup CachedNames

\* The public tools that session_list shows of a session.
SessionListTools(u) ==
    IF rtRecord[u] = RtNone THEN {} ELSE PublicNames(rtRecord[u].tools)

-----------------------------------------------------------------------------
(* tools/call *)

\* resolve_published on the view of this moment: a uid, or why there is none.
ResolvePublished(name, session) ==
    LET candidates == SlotSessions(name) IN
    CASE candidates = {}               -> "not_proxy_tool"
      [] candidates # {} /\ session # RtNone ->
            IF session \in candidates THEN session ELSE "session_tool_mismatch"
      [] candidates # {} /\ session = RtNone ->
            IF One(SlotEntries(name))
            THEN CHOOSE u \in candidates : TRUE ELSE "session_required"

\* validate_explicit_target: the session is there, active, and publishes name.
ValidTarget(name, session) ==
    Active(session) /\ name \in PublicNames(rtRecord[session].tools)

Reply(answer) ==
    /\ rtCall' = RtIdle
    /\ rtSent' = {}
    /\ rtAnswer' = answer

\* call_tool: a built-in name never reaches the proxy.  Arguments the manager
\* cannot read (extract_manager_arguments) and a session that is not valid are
\* refused.
StartCall(name, session, readable) ==
    /\ rtCall.pc = "idle"
    /\ name \notin RtBuiltin
    /\ IF readable /\ (session # RtNone => ValidTarget(name, session))
       THEN /\ rtCall' = [RtIdle EXCEPT !.pc = "validated", !.name = name,
                                        !.session = session]
            /\ Silent
       ELSE Reply("failure")
    /\ UNCHANGED <<rtMasking, rtRegistry>>

\* A name without live session is answered from the cache (no_live_session) or
\* as unknown_tool.
ResolveCall ==
    LET target == ResolvePublished(rtCall.name, rtCall.session) IN
    /\ rtCall.pc = "validated"
    /\ \/ /\ target \in RtUid
          /\ rtCall' = [rtCall EXCEPT !.pc = "resolved", !.session = target]
          /\ Silent
       \/ /\ target \notin RtUid
          /\ Reply("failure")
    /\ UNCHANGED <<rtMasking, rtRegistry>>

\* SessionDatabaseIdentity::from_record: there is none for a file base.
VerifyDatabase(rec) == rec.key

\* The clone is taken; with masking on, a session without verified identity is
\* refused and any other is put to the service.
GetRecord ==
    LET rec == rtRecord[rtCall.session] IN
    /\ rtCall.pc = "resolved"
    /\ IF Active(rtCall.session) /\ (rtMasking => VerifyDatabase(rec) # RtNone)
       THEN /\ rtCall' = [rtCall EXCEPT !.pc = "preflight", !.rec = rec,
                                        !.identity = VerifyDatabase(rec)]
            /\ Silent
       ELSE Reply("failure")
    /\ UNCHANGED <<rtMasking, rtRegistry>>

\* Variant: after preflight the connection is looked up again.
DispatchLookingUp ==
    /\ rtCall.pc = "preflight"
    /\ Active(rtCall.session)
    /\ rtSent' = {[agent |-> TRUE, name |-> rtCall.name,
                 conn |-> rtRecord[rtCall.session].conn,
                 identity |-> rtCall.identity]}
    /\ rtCall' = [rtCall EXCEPT !.pc = "dispatched"]
    /\ rtAnswer' = "none"
    /\ UNCHANGED <<rtMasking, rtRegistry>>

\* The service allows the call (without masking nobody is asked) and it goes
\* to the connection of the clone.
DispatchCall ==
    /\ rtCall.pc = "preflight"
    /\ rtSent' = {[agent |-> TRUE, name |-> rtCall.name,
                 conn |-> rtCall.rec.conn, identity |-> rtCall.identity]}
    /\ rtCall' = [rtCall EXCEPT !.pc = "dispatched"]
    /\ rtAnswer' = "none"
    /\ UNCHANGED <<rtMasking, rtRegistry>>

PreflightFails ==
    /\ rtCall.pc = "preflight"
    /\ rtMasking
    /\ Reply("failure")
    /\ UNCHANGED <<rtMasking, rtRegistry>>

\* extract_tool_payload and dispatcher_error_code: what finalize is sent for an
\* outcome of the dispatcher.  A broken envelope is not passed on as opaque.
FinalizeOutcome(outcome) ==
    IF outcome \in {"envelope", "opaque"} THEN "tool_result" ELSE "transport_error"

\* What the agent gets of an outcome without masking.
PlainAnswer(outcome) == IF outcome = "gone" THEN "failure" ELSE "raw"

\* And what of one that the service has finalised: it turns a transport error
\* into the failure the agent sees.
FinalizedAnswer(outcome) ==
    IF FinalizeOutcome(outcome) = "tool_result" THEN "public" ELSE "failure"

AnswerCall(outcome, serviceAnswers) ==
    /\ rtCall.pc = "dispatched"
    /\ Reply(IF ~rtMasking THEN PlainAnswer(outcome)
             ELSE IF serviceAnswers THEN FinalizedAnswer(outcome) ELSE "failure")
    /\ UNCHANGED <<rtMasking, rtRegistry>>

-----------------------------------------------------------------------------
(* The internal endpoint *)

\* resolve_internal_target: the only active session with that key and with name
\* as an internal tool.
InternalTargets(key, name) ==
    {u \in RtUid : /\ Active(u)
                   /\ rtRecord[u].key = key
                   /\ \E i \in DOMAIN rtRecord[u].tools :
                         rtRecord[u].tools[i].name = name /\ ~rtRecord[u].tools[i].public}

\* handle_request: the process of the service (authorized) asks for an internal
\* tool of a base; resolution and dispatch use one snapshot.
CallInternal(key, name, authorized) ==
    /\ rtMasking
    /\ authorized
    /\ name \in RtInternal
    /\ \E u \in InternalTargets(key, name) :
          /\ InternalTargets(key, name) = {u}
          /\ rtSent' = {[agent |-> FALSE, name |-> name,
                       conn |-> rtRecord[u].conn, identity |-> key]}
    /\ rtAnswer' = "none"
    /\ UNCHANGED <<rtMasking, rtRegistry, rtCall>>

-----------------------------------------------------------------------------
RtNext ==
    \/ \E u \in RtUid, c \in RtConn, base \in RtBases \cup {RtNone}, ts \in RtToolLists :
          RegisterBase(u, c, base, ts)
    \/ \E u \in RtUid, ts \in RtToolLists : ChangeTools(u, ts)
    \/ \E u \in RtUid : SuspendSession(u)
    \/ \E u \in RtUid : RemoveSession(u)
    \/ \E u \in RtUid : ForgetCached(u)
    \/ \E name \in RtName, session \in RtUid \cup {RtNone}, readable \in BOOLEAN :
          StartCall(name, session, readable)
    \/ ResolveCall
    \/ GetRecord
    \/ DispatchCall
    \/ PreflightFails
    \/ \E outcome \in {"envelope", "opaque", "malformed", "gone"}, ok \in BOOLEAN :
          AnswerCall(outcome, ok)
    \/ \E key \in RtBases, name \in RtName, authorized \in BOOLEAN :
          CallInternal(key, name, authorized)

RtSpec == RtInit /\ [][RtNext]_rtVars

-----------------------------------------------------------------------------
(* Properties *)

\* What tools/list says and what tools/call does agree, in every state of the
\* registry and for every selector an agent may give: a selector that one
\* schema of the slot admits is routed to a session that declared that very
\* schema, any other is refused; and a name is listed exactly if calling it is
\* not answered with unknown_tool.
ListAgreesWithCall ==
    \A name \in RtName \ RtBuiltin :
        /\ \A session \in RtUid \cup {RtNone} :
              LET target == ResolvePublished(name, session)
                  schemas == AdmittingSchemas(name, session)
              IN  IF target \in RtUid
                  THEN schemas = {s \in RtSchema : target \in Bucket(name, s)}
                  ELSE schemas = {}
        /\ name \in ListedNames <=>
              ResolvePublished(name, RtNone) # "not_proxy_tool" \/ name \in CachedNames

\* The base whose identity the masking service was given, and the base the
\* internal endpoint was asked for, is the base behind the connection the call
\* is sent to, however often the session has been lost and taken up again; and
\* with masking on the agent gets no result the service has not finalised.
MaskedBaseIsCalled ==
    /\ \A m \in rtSent : (m.agent => rtMasking) => m.identity = rtBase[m.conn]
    /\ rtMasking => rtAnswer # "raw"

\* With masking on, a name of masking.internal_tools is in no session_list and no
\* call of an agent carries it, whatever the adapters declare and whenever they
\* change it; and it is in no list, except from an entry of the cache file that
\* an earlier process wrote with the name public and that nobody has replaced.
InternalStaysInternal ==
    rtMasking =>
        /\ \A name \in (RtInternal \ RtBuiltin) \cap ListedNames :
              \E u \in RtUid : name \in rtLoaded[u]
        /\ \A u \in RtUid : SessionListTools(u) \cap RtInternal = {}
        /\ \A m \in rtSent : m.agent => m.name \notin RtInternal
=============================================================================
