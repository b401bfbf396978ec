----------------------------- MODULE RasResolver -----------------------------
(***************************************************************************)
(* The identity of a base (session_manager/masking/ras.rs and identity.rs, *)
(* called from session.register in transport.rs): registrations that name  *)
(* the same infobase of the same cluster server ask a resolver that runs   *)
(* rac against RAS under a deadline and caches what it found out.          *)
(*                                                                         *)
(* The module follows one key (cluster_server, lower-cased name) of the    *)
(* cache: entries of different keys do not touch each other.  Time counts  *)
(* in units the three durations are multiples of.  rac and RAS are         *)
(* external: a call may fail, or hang until the deadline, and the          *)
(* administrators may add, move or remove the infobase at any moment.      *)
(***************************************************************************)
EXTENDS Integers, FiniteSets

CONSTANTS
    RasCluster,     \* clusters of the server
    RasInfobase,    \* infobases that have or will have the name
    RasTask,        \* registrations in progress
    RasTtl,         \* RESOLVE_CACHE_TTL
    RasMissTtl,     \* RESOLVE_MISS_TTL
    RasTimeout,     \* RESOLVE_TIMEOUT
    RasMaxTime,     \* bound on the clock
    RasContents,    \* what RAS may know under the name
    Unresolved      \* None: no identity

RasIdentity == RasCluster \X RasInfobase

ASSUME RasDurations ==
    /\ RasTtl \in Nat \ {0} /\ RasMissTtl \in Nat \ {0} /\ RasTimeout \in Nat
    /\ RasMaxTime \in Nat
ASSUME RasClusterAssumption == RasCluster # {}
ASSUME RasContentsAssumption == RasContents \subseteq SUBSET RasIdentity
ASSUME UnresolvedAssumption == Unresolved \notin RasIdentity

VARIABLES
    rasNow,         \* the clock
    rasContent,     \* identities RAS has under the name
    rasCache,       \* the entries of the key: at most one
    rasPc,          \* where each resolve is
    rasStart,       \* when its deadline began to run
    rasLeft,        \* clusters it has yet to ask
    rasMatches,     \* what it has found
    rasAnswer,      \* the last answer of resolve, and when it was given
    rasLastSeen,    \* when RAS last had each identity it has no more
    rasTrouble      \* when rac last failed or hung or RAS was changed

rasTask == <<rasPc, rasStart, rasLeft, rasMatches>>
rasWorld == <<rasContent, rasLastSeen>>
rasVars == <<rasNow, rasWorld, rasCache, rasTask, rasAnswer, rasTrouble>>

RasEntry == [at : Nat, id : RasIdentity \cup {Unresolved}]

RasTypeOK ==
    /\ rasNow \in Nat
    /\ rasContent \in SUBSET RasIdentity
    /\ rasCache \in SUBSET RasEntry
    /\ rasPc \in [RasTask -> {"idle", "clusters", "infobases"}]
    /\ rasStart \in [RasTask -> Nat]
    /\ rasLeft \in [RasTask -> SUBSET RasCluster]
    /\ rasMatches \in [RasTask -> SUBSET RasIdentity]
    /\ rasAnswer \in RasEntry
    /\ rasLastSeen \in [RasIdentity -> Nat \cup {-1}]
    /\ rasTrouble \in Nat

\* rasAnswer begins as if a registration before time 0 had found no RAS.
RasInit ==
    /\ rasNow = 0
    /\ rasContent \in RasContents
    /\ rasCache = {}
    /\ rasPc = [p \in RasTask |-> "idle"]
    /\ rasStart = [p \in RasTask |-> 0]
    /\ rasLeft = [p \in RasTask |-> {}]
    /\ rasMatches = [p \in RasTask |-> {}]
    /\ rasAnswer = [at |-> 0, id |-> Unresolved]
    /\ rasLastSeen = [i \in RasIdentity |-> -1]
    /\ rasTrouble = 0

-----------------------------------------------------------------------------
(* resolve *)

RasLife(e) == IF e.id = Unresolved THEN RasMissTtl ELSE RasTtl

\* Variant: elapsed() <= ttl.
RasFreshAtEnd(e) == rasNow - e.at <= RasLife(e)

RasFresh(e) == rasNow - e.at < RasLife(e)

ResolveHit(p) ==
    /\ rasPc[p] = "idle"
    /\ \E e \in rasCache :
          /\ RasFresh(e)
          /\ rasAnswer' = [at |-> rasNow, id |-> e.id]
    /\ UNCHANGED <<rasNow, rasWorld, rasCache, rasTask, rasTrouble>>

\* The cache is unlocked before rac runs: several tasks may miss at once.
ResolveMiss(p) ==
    /\ rasPc[p] = "idle"
    /\ \A e \in rasCache : ~RasFresh(e)
    /\ rasPc' = [rasPc EXCEPT ![p] = "clusters"]
    /\ rasStart' = [rasStart EXCEPT ![p] = rasNow]
    /\ UNCHANGED <<rasNow, rasWorld, rasCache, rasLeft, rasMatches, rasAnswer,
                   rasTrouble>>

\* The end of resolve: the entry is dated with the moment it is inserted.
Conclude(p, id) ==
    /\ rasPc' = [rasPc EXCEPT ![p] = "idle"]
    /\ rasLeft' = [rasLeft EXCEPT ![p] = {}]
    /\ rasMatches' = [rasMatches EXCEPT ![p] = {}]
    /\ rasAnswer' = [at |-> rasNow, id |-> id]
    /\ rasCache' = {rasAnswer'}
    /\ rasStart' = [rasStart EXCEPT ![p] = 0]

\* match matches.len()
TheOnly(matches) ==
    IF \E i \in matches : matches = {i} THEN CHOOSE i \in matches : TRUE ELSE Unresolved

\* The answer about a cluster, found, has arrived.
NextCluster(p, c, found) ==
    IF rasLeft[p] = {c}
    THEN Conclude(p, TheOnly(rasMatches[p] \cup found))
    ELSE /\ rasLeft' = [rasLeft EXCEPT ![p] = @ \ {c}]
         /\ rasMatches' = [rasMatches EXCEPT ![p] = @ \cup found]
         /\ UNCHANGED <<rasPc, rasStart, rasCache, rasAnswer>>

\* rac cluster list
ListClusters(p) ==
    /\ rasPc[p] = "clusters"
    /\ rasPc' = [rasPc EXCEPT ![p] = "infobases"]
    /\ rasLeft' = [rasLeft EXCEPT ![p] = RasCluster]
    /\ UNCHANGED <<rasNow, rasWorld, rasCache, rasStart, rasMatches, rasAnswer,
                   rasTrouble>>

\* rac fails, or knows no cluster.
ListClustersFails(p) ==
    /\ rasPc[p] = "clusters"
    /\ Conclude(p, Unresolved)
    /\ rasTrouble' = rasNow
    /\ UNCHANGED <<rasNow, rasWorld>>

\* rac infobase summary list
ListInfobases(p, c) ==
    /\ rasPc[p] = "infobases"
    /\ c \in rasLeft[p]
    /\ NextCluster(p, c, {i \in rasContent : i[1] = c})
    /\ UNCHANGED <<rasNow, rasWorld, rasTrouble>>

\* A cluster that cannot be listed is skipped.
ListInfobasesFails(p, c) ==
    /\ rasPc[p] = "infobases"
    /\ c \in rasLeft[p]
    /\ NextCluster(p, c, {})
    /\ rasTrouble' = rasNow
    /\ UNCHANGED <<rasNow, rasWorld>>

\* tokio::time::timeout: rac hangs.
ResolveTimesOut(p) ==
    /\ rasPc[p] # "idle"
    /\ rasNow - rasStart[p] >= RasTimeout
    /\ Conclude(p, Unresolved)
    /\ rasTrouble' = rasNow
    /\ UNCHANGED <<rasNow, rasWorld>>

-----------------------------------------------------------------------------
(* The surroundings *)

\* RAS is edited.
ChangeContent(w) ==
    /\ w # rasContent
    /\ rasContent' = w
    /\ rasLastSeen' = [i \in RasIdentity |->
                         IF i \in rasContent THEN rasNow ELSE rasLastSeen[i]]
    /\ rasTrouble' = rasNow
    /\ UNCHANGED <<rasNow, rasCache, rasTask, rasAnswer>>

\* A timer fires when it is due: time does not pass a deadline.
RasTick ==
    /\ rasNow < RasMaxTime
    /\ \A p \in RasTask : rasPc[p] # "idle" => rasNow - rasStart[p] < RasTimeout
    /\ rasNow' = rasNow + 1
    /\ UNCHANGED <<rasWorld, rasCache, rasTask, rasAnswer, rasTrouble>>

ResolveStep(p) ==
    \/ ResolveHit(p)
    \/ ResolveMiss(p)
    \/ ListClusters(p)
    \/ ListClustersFails(p)
    \/ \E c \in RasCluster : ListInfobases(p, c)
    \/ \E c \in RasCluster : ListInfobasesFails(p, c)
    \/ ResolveTimesOut(p)

RasNext ==
    \/ \E p \in RasTask : ResolveStep(p)
    \/ \E w \in RasContents : ChangeContent(w)
    \/ RasTick

RasSpec == RasInit /\ [][RasNext]_rasVars

-----------------------------------------------------------------------------
(* Properties *)

\* i was in RAS after time t.
SeenAfter(i, t) == i \in rasContent \/ rasLastSeen[i] > t

\* RAS did not answer exactly one infobase at some time after t: rac failed
\* or hung, RAS was edited, or the name is missing or ambiguous.
TroubleAfter(t) == rasTrouble > t \/ ~\E i \in rasContent : rasContent = {i}

\* An identity that resolve answers, and with it the ras: key of the session,
\* was the truth less than the entry's life and one deadline ago, even when
\* slow resolutions overtake each other; and a base gets a generated key only
\* if RAS was in trouble within RESOLVE_MISS_TTL and one deadline: after a
\* repair it gets its ras: key soon.
AnswerIsRecent ==
    /\ rasAnswer.id # Unresolved =>
          SeenAfter(rasAnswer.id, rasAnswer.at - RasTtl - RasTimeout)
    /\ rasAnswer.id = Unresolved =>
          TroubleAfter(rasAnswer.at - RasMissTtl - RasTimeout)
=============================================================================
