---------------------------- MODULE SurfaceProofs ----------------------------
(***************************************************************************)
(* Proofs about five surfaces of the manager: what resolve answers is      *)
(* recent (RasResolver), the base the masking service was asked about is   *)
(* the base that is called, lists and calls agree and internal tools stay  *)
(* internal (ProxyRouting), the manager serves with what it validated      *)
(* (ManagerProcess), the answers to a client's frames reach it in order    *)
(* (WireExchange), and an old outbox is loaded faithfully                  *)
(* (TerminalOutboxLoad).                                                   *)
(***************************************************************************)
EXTENDS RasResolver, ProxyRouting, ManagerProcess, WireExchange, TerminalOutboxLoad,
        FiniteSetTheorems, SequenceTheorems, TLAPS

-----------------------------------------------------------------------------
(* The identity resolver *)

\* The same as SeenAfter and TroubleAfter, with the time t itself included.
SeenSince(i, t) == i \in rasContent \/ rasLastSeen[i] >= t
TroubleSince(t) == rasTrouble >= t \/ ~\E i \in rasContent : rasContent = {i}

\* No resolution outlives its deadline, and nothing is dated in the future.
RasClock ==
    /\ \A p \in RasTask :
          /\ rasPc[p] # "idle" =>
                rasStart[p] <= rasNow /\ rasNow <= rasStart[p] + RasTimeout
          /\ rasPc[p] # "infobases" => rasMatches[p] = {}
    /\ \A e \in rasCache : e.at <= rasNow
    /\ rasAnswer.at <= rasNow

\* What a resolution has found was there since it began, and if there was no
\* trouble since then it has found all there is on the clusters it has asked.
RasFound ==
    \A p \in RasTask :
        /\ \A i \in rasMatches[p] : SeenSince(i, rasStart[p])
        /\ rasPc[p] = "infobases" =>
              \/ rasTrouble >= rasStart[p]
              \/ rasMatches[p] = {i \in rasContent : i[1] \notin rasLeft[p]}

\* An entry was true at most one deadline before it was dated.
EntryTrue(e) ==
    /\ e.id # Unresolved => SeenSince(e.id, e.at - RasTimeout)
    /\ e.id = Unresolved => TroubleSince(e.at - RasTimeout)

\* The inductive invariant.
RasInv ==
    /\ RasTypeOK /\ RasClock /\ RasFound
    /\ \A e \in rasCache : EntryTrue(e)
    /\ AnswerIsRecent

\* TheOnly is a member of the set, or the set is not a singleton.
LEMMA TheOnlyIs ==
    ASSUME NEW m \in SUBSET RasIdentity
    PROVE  /\ TheOnly(m) \in RasIdentity \cup {Unresolved}
           /\ TheOnly(m) # Unresolved => TheOnly(m) \in m
           /\ TheOnly(m) = Unresolved => ~\E i \in m : m = {i}
<1>1. CASE \E i \in m : m = {i}
  <2>1. TheOnly(m) \in m
    BY <1>1 DEF TheOnly
  <2> QED BY <2>1, UnresolvedAssumption
<1>2. CASE ~\E i \in m : m = {i}
  <2>1. TheOnly(m) = Unresolved
    BY <1>2 DEF TheOnly
  <2> QED BY <1>2, <2>1
<1> QED BY <1>1, <1>2

\* The end of a resolution keeps the invariant when its outcome was true at
\* some time since it began.
LEMMA ConcludeInv ==
    ASSUME RasInv, NEW p \in RasTask, rasPc[p] # "idle",
           NEW id \in RasIdentity \cup {Unresolved}, Conclude(p, id),
           UNCHANGED <<rasNow, rasWorld>>,
           rasTrouble' \in {rasTrouble, rasNow},
           id # Unresolved => SeenSince(id, rasStart[p]),
           id = Unresolved =>
               rasTrouble' >= rasStart[p] \/ ~\E i \in rasContent : rasContent = {i}
    PROVE  RasInv'
<1> USE RasDurations
<1> DEFINE e == [at |-> rasNow, id |-> id]
<1>1. /\ rasNow \in Nat /\ rasStart[p] \in Nat /\ rasTrouble \in Nat /\ rasTrouble' \in Nat
      /\ rasStart[p] >= rasNow - RasTimeout
      /\ e.at = rasNow /\ e.id = id
  BY DEF RasInv, RasTypeOK, RasClock
<1>2. rasAnswer' = e /\ rasCache' = {e} /\ e \in RasEntry
  BY <1>1 DEF Conclude, RasEntry
<1>3. RasTypeOK'
  <2>1. /\ rasPc' \in [RasTask -> {"idle", "clusters", "infobases"}]
        /\ rasStart' \in [RasTask -> Nat]
        /\ rasLeft' \in [RasTask -> SUBSET RasCluster]
        /\ rasMatches' \in [RasTask -> SUBSET RasIdentity]
    BY DEF Conclude, RasInv, RasTypeOK
  <2> QED BY <1>1, <1>2, <2>1 DEF RasInv, RasTypeOK, rasWorld
<1>4. /\ rasPc'[p] = "idle" /\ rasMatches'[p] = {}
      /\ \A q \in RasTask \ {p} : /\ rasPc'[q] = rasPc[q] /\ rasStart'[q] = rasStart[q]
                                  /\ rasMatches'[q] = rasMatches[q] /\ rasLeft'[q] = rasLeft[q]
  BY DEF Conclude, RasInv, RasTypeOK
<1>5. RasClock'
  BY <1>1, <1>2, <1>4 DEF RasInv, RasClock
<1>6. RasFound'
  <2>1. \A q \in RasTask : rasPc[q] # "idle" => rasStart[q] \in Nat /\ rasStart[q] <= rasNow
    BY DEF RasInv, RasClock, RasTypeOK
  <2> QED BY <1>1, <1>4, <2>1 DEF RasInv, RasFound, RasClock, SeenSince, rasWorld
<1>7. id # Unresolved => rasLastSeen[id] \in Int
  BY DEF RasInv, RasTypeOK
<1>8. EntryTrue(e)'
  BY <1>1, <1>7 DEF EntryTrue, SeenSince, TroubleSince, rasWorld
<1>9. AnswerIsRecent'
  BY <1>1, <1>2, <1>7 DEF AnswerIsRecent, SeenAfter, TroubleAfter, SeenSince, rasWorld
<1> QED BY <1>2, <1>3, <1>5, <1>6, <1>8, <1>9 DEF RasInv
\* Time, a resolution's progress and an edit of RAS keep the invariant.
LEMMA RasStep ==
    RasInv /\ [RasNext]_rasVars => RasInv'
<1> SUFFICES ASSUME RasInv, [RasNext]_rasVars PROVE RasInv'
  OBVIOUS
<1> USE RasDurations
<1>t. /\ rasNow \in Nat /\ rasTrouble \in Nat
      /\ rasStart \in [RasTask -> Nat] /\ rasMatches \in [RasTask -> SUBSET RasIdentity]
      /\ rasLeft \in [RasTask -> SUBSET RasCluster]
      /\ rasContent \in SUBSET RasIdentity
      /\ \A i \in RasIdentity : rasLastSeen[i] \in Int
      /\ rasCache \subseteq RasEntry /\ rasAnswer \in RasEntry
      /\ \A x \in RasEntry : x.at \in Nat /\ x.id \in RasIdentity \cup {Unresolved}
  BY DEF RasInv, RasTypeOK, RasEntry
<1>1. ASSUME NEW p \in RasTask, ResolveHit(p) PROVE RasInv'
  <2>1. PICK e \in rasCache : RasFresh(e) /\ rasAnswer' = [at |-> rasNow, id |-> e.id]
    BY <1>1 DEF ResolveHit
  <2>2. /\ e \in RasEntry /\ EntryTrue(e) /\ e.at <= rasNow
        /\ e.at \in Nat /\ e.id \in RasIdentity \cup {Unresolved}
    BY <1>t DEF RasInv, RasClock
  <2>3. rasAnswer'.at = rasNow /\ rasAnswer'.id = e.id /\ rasAnswer' \in RasEntry
    BY <2>1, <2>2, <1>t DEF RasEntry
  <2>4. rasNow - e.at < RasLife(e)
    BY <2>1 DEF RasFresh
  <2>5. AnswerIsRecent'
    <3>1. CASE e.id # Unresolved
      BY <1>1, <1>t, <2>2, <2>3, <2>4, <3>1
         DEF ResolveHit, rasWorld, AnswerIsRecent, EntryTrue, SeenSince, SeenAfter, RasLife
    <3>2. CASE e.id = Unresolved
      BY <1>1, <1>t, <2>2, <2>3, <2>4, <3>2
         DEF ResolveHit, rasWorld, AnswerIsRecent, EntryTrue, TroubleSince, TroubleAfter, RasLife
    <3> QED BY <3>1, <3>2
  <2>6. RasTypeOK' /\ RasClock' /\ RasFound' /\ (\A x \in rasCache : EntryTrue(x))'
    BY <1>1, <1>t, <2>3 DEF ResolveHit, rasWorld, rasTask, RasInv, RasTypeOK, RasClock,
                            RasFound, EntryTrue, SeenSince, TroubleSince
  <2> QED BY <2>5, <2>6 DEF RasInv
<1>2. ASSUME NEW p \in RasTask, ResolveMiss(p) PROVE RasInv'
  <2>1. RasTypeOK'
    BY <1>2, <1>t DEF ResolveMiss, rasWorld, RasInv, RasTypeOK
  <2>2. RasClock' /\ RasFound'
    BY <1>2, <1>t DEF ResolveMiss, rasWorld, RasInv, RasTypeOK, RasClock, RasFound, SeenSince
  <2>3. (\A x \in rasCache : EntryTrue(x))' /\ AnswerIsRecent'
    BY <1>2 DEF ResolveMiss, rasWorld, RasInv, EntryTrue, SeenSince, TroubleSince,
                AnswerIsRecent, SeenAfter, TroubleAfter
  <2> QED BY <2>1, <2>2, <2>3 DEF RasInv
<1>3. ASSUME NEW p \in RasTask, ListClusters(p) PROVE RasInv'
  <2>1. RasTypeOK'
    BY <1>3, <1>t DEF ListClusters, rasWorld, RasInv, RasTypeOK
  <2>2. /\ rasPc' = [rasPc EXCEPT ![p] = "infobases"] /\ rasPc[p] = "clusters"
        /\ rasLeft' = [rasLeft EXCEPT ![p] = RasCluster] /\ rasMatches' = rasMatches
        /\ rasContent' = rasContent /\ rasLastSeen' = rasLastSeen
        /\ rasNow' = rasNow /\ rasStart' = rasStart /\ rasTrouble' = rasTrouble
        /\ rasCache' = rasCache /\ rasAnswer' = rasAnswer
    BY <1>3 DEF ListClusters, rasWorld
  <2>3. RasClock'
    BY <2>2 DEF RasInv, RasTypeOK, RasClock
  <2>4. \A i \in rasContent : i[1] \in RasCluster
    BY <1>t DEF RasIdentity
  <2>5. rasMatches[p] = {i \in rasContent : i[1] \notin RasCluster}
    BY <2>2, <2>4 DEF RasInv, RasClock
  <2>6. RasFound'
    BY <1>t, <2>2, <2>5 DEF RasInv, RasTypeOK, RasFound, SeenSince
  <2>7. (\A x \in rasCache : EntryTrue(x))' /\ AnswerIsRecent'
    BY <2>2 DEF RasInv, EntryTrue, SeenSince, TroubleSince, AnswerIsRecent, SeenAfter,
                TroubleAfter
  <2> QED BY <2>1, <2>3, <2>6, <2>7 DEF RasInv
<1>4. ASSUME NEW p \in RasTask, ListClustersFails(p) PROVE RasInv'
  <2>1. rasStart[p] <= rasNow
    BY <1>4 DEF ListClustersFails, RasInv, RasClock
  <2> QED BY <1>4, <2>1, ConcludeInv DEF ListClustersFails
<1>5. ASSUME NEW p \in RasTask, NEW c \in RasCluster, ListInfobases(p, c) PROVE RasInv'
  <2> DEFINE found == {i \in rasContent : i[1] = c}
             m == rasMatches[p] \cup found
  <2>1. /\ rasPc[p] = "infobases" /\ c \in rasLeft[p] /\ NextCluster(p, c, found)
        /\ rasNow' = rasNow /\ rasContent' = rasContent /\ rasLastSeen' = rasLastSeen
        /\ rasTrouble' = rasTrouble
    BY <1>5 DEF ListInfobases, rasWorld
  <2>2. m \in SUBSET RasIdentity
    BY <1>t
  <2>3. \A i \in m : SeenSince(i, rasStart[p])
    BY DEF RasInv, RasFound, SeenSince
  <2>4. \/ rasTrouble >= rasStart[p]
        \/ m = {i \in rasContent : i[1] \notin rasLeft[p] \ {c}}
    BY <2>1 DEF RasInv, RasFound
  <2> HIDE DEF m
  <2>5. CASE rasLeft[p] = {c}
    <3>1. Conclude(p, TheOnly(m))
      BY <2>1, <2>5 DEF NextCluster, m
    <3>2. rasTrouble >= rasStart[p] \/ m = rasContent
      BY <2>4, <2>5
    <3>3. TheOnly(m) # Unresolved => SeenSince(TheOnly(m), rasStart[p])
      BY <2>2, <2>3, TheOnlyIs
    <3>4. TheOnly(m) = Unresolved =>
             rasTrouble >= rasStart[p] \/ ~\E i \in rasContent : rasContent = {i}
      BY <2>2, <3>2, TheOnlyIs
    <3>5. TheOnly(m) \in RasIdentity \cup {Unresolved}
      BY <2>2, TheOnlyIs
    <3> QED BY <2>1, <3>1, <3>3, <3>4, <3>5, ConcludeInv DEF rasWorld
  <2>6. CASE rasLeft[p] # {c}
    <3>1. /\ rasLeft' = [rasLeft EXCEPT ![p] = @ \ {c}]
          /\ rasMatches' = [rasMatches EXCEPT ![p] = m]
          /\ rasPc' = rasPc /\ rasStart' = rasStart /\ rasCache' = rasCache
          /\ rasAnswer' = rasAnswer
      BY <2>1, <2>6 DEF NextCluster, m
    <3>2. RasTypeOK'
      BY <1>t, <2>1, <2>2, <3>1 DEF RasInv, RasTypeOK
    <3>3. RasClock'
      BY <1>t, <2>1, <3>1 DEF RasInv, RasTypeOK, RasClock
    <3>4. /\ rasMatches'[p] = m /\ rasLeft'[p] = rasLeft[p] \ {c}
          /\ \A q \in RasTask \ {p} : rasMatches'[q] = rasMatches[q] /\ rasLeft'[q] = rasLeft[q]
      BY <1>t, <3>1
    <3>5. RasFound'
      BY <2>1, <2>3, <2>4, <3>1, <3>4 DEF RasInv, RasFound, SeenSince
    <3>6. (\A x \in rasCache : EntryTrue(x))' /\ AnswerIsRecent'
      BY <2>1, <3>1 DEF RasInv, EntryTrue, SeenSince, TroubleSince, AnswerIsRecent,
                        SeenAfter, TroubleAfter
    <3> QED BY <3>2, <3>3, <3>5, <3>6 DEF RasInv
  <2> QED BY <2>5, <2>6
<1>6. ASSUME NEW p \in RasTask, NEW c \in RasCluster, ListInfobasesFails(p, c) PROVE RasInv'
  <2>1. /\ rasPc[p] = "infobases" /\ NextCluster(p, c, {})
        /\ rasNow' = rasNow /\ rasContent' = rasContent /\ rasLastSeen' = rasLastSeen
        /\ rasTrouble' = rasNow
    BY <1>6 DEF ListInfobasesFails, rasWorld
  <2>2. \A q \in RasTask : rasPc[q] # "idle" => rasStart[q] <= rasNow
    BY DEF RasInv, RasClock
  <2>3. /\ rasMatches[p] \in SUBSET RasIdentity
        /\ \A i \in rasMatches[p] : SeenSince(i, rasStart[p])
    BY <1>t DEF RasInv, RasFound
  <2>4. CASE rasLeft[p] = {c}
    <3>1. Conclude(p, TheOnly(rasMatches[p]))
      BY <2>1, <2>4 DEF NextCluster
    <3>2. /\ TheOnly(rasMatches[p]) \in RasIdentity \cup {Unresolved}
          /\ TheOnly(rasMatches[p]) # Unresolved =>
                SeenSince(TheOnly(rasMatches[p]), rasStart[p])
      BY <2>3, TheOnlyIs
    <3> QED BY <2>1, <2>2, <3>1, <3>2, ConcludeInv DEF rasWorld
  <2>5. CASE rasLeft[p] # {c}
    <3>1. /\ rasLeft' = [rasLeft EXCEPT ![p] = @ \ {c}] /\ rasMatches' = rasMatches
          /\ rasPc' = rasPc /\ rasStart' = rasStart /\ rasCache' = rasCache
          /\ rasAnswer' = rasAnswer
      BY <1>t, <2>1, <2>5 DEF NextCluster
    <3>2. RasTypeOK' /\ RasClock'
      BY <1>t, <2>1, <3>1 DEF RasInv, RasTypeOK, RasClock
    <3>3. RasFound'
      BY <1>t, <2>1, <2>2, <3>1 DEF RasInv, RasFound, SeenSince
    <3>4. (\A x \in rasCache : EntryTrue(x))'
      BY <1>t, <2>1, <3>1 DEF RasInv, RasClock, EntryTrue, SeenSince, TroubleSince
    <3>5. AnswerIsRecent'
      BY <1>t, <2>1, <3>1 DEF RasInv, RasClock, AnswerIsRecent, SeenAfter, TroubleAfter
    <3> QED BY <3>2, <3>3, <3>4, <3>5 DEF RasInv
  <2> QED BY <2>4, <2>5
<1>7. ASSUME NEW p \in RasTask, ResolveTimesOut(p) PROVE RasInv'
  <2>1. rasStart[p] <= rasNow
    BY <1>7 DEF ResolveTimesOut, RasInv, RasClock
  <2> QED BY <1>7, <2>1, ConcludeInv DEF ResolveTimesOut
<1>8. ASSUME NEW w \in RasContents, ChangeContent(w) PROVE RasInv'
  <2>1. /\ rasContent' = w /\ w \in SUBSET RasIdentity
        /\ rasLastSeen' = [i \in RasIdentity |->
                             IF i \in rasContent THEN rasNow ELSE rasLastSeen[i]]
        /\ rasTrouble' = rasNow /\ rasNow' = rasNow /\ rasCache' = rasCache
        /\ rasPc' = rasPc /\ rasStart' = rasStart /\ rasLeft' = rasLeft
        /\ rasMatches' = rasMatches /\ rasAnswer' = rasAnswer
    BY <1>8, RasContentsAssumption DEF ChangeContent, rasTask
  <2>2. RasTypeOK' /\ RasClock'
    BY <1>t, <2>1 DEF RasInv, RasTypeOK, RasClock
  <2>3. ASSUME NEW i \in RasIdentity, NEW t \in Int, t <= rasNow, SeenSince(i, t)
        PROVE  SeenSince(i, t)'
    BY <1>t, <2>1, <2>3 DEF SeenSince
  <2>4. RasFound'
    <3> SUFFICES ASSUME NEW p \in RasTask
                 PROVE  /\ \A i \in rasMatches[p] : SeenSince(i, rasStart[p])'
                        /\ rasPc[p] = "infobases" => rasTrouble' >= rasStart[p]
      BY <2>1 DEF RasFound, SeenSince
    <3>1. rasMatches[p] # {} => rasPc[p] = "infobases"
      BY DEF RasInv, RasClock
    <3>2. rasPc[p] = "infobases" => rasStart[p] <= rasNow
      BY DEF RasInv, RasClock
    <3>3. \A i \in rasMatches[p] : i \in RasIdentity /\ SeenSince(i, rasStart[p])
      BY <1>t DEF RasInv, RasFound
    <3> QED BY <1>t, <2>1, <2>3, <3>1, <3>2, <3>3
  <2>5. (\A x \in rasCache : EntryTrue(x))'
    <3> SUFFICES ASSUME NEW x \in rasCache PROVE EntryTrue(x)'
      BY <2>1
    <3>1. x.at \in Nat /\ x.at <= rasNow /\ x.id \in RasIdentity \cup {Unresolved}
      BY <1>t DEF RasInv, RasClock
    <3>2. EntryTrue(x)
      BY DEF RasInv
    <3>3. x.id # Unresolved => SeenSince(x.id, x.at - RasTimeout)'
      BY <1>t, <2>3, <3>1, <3>2 DEF EntryTrue
    <3>4. TroubleSince(x.at - RasTimeout)'
      BY <1>t, <2>1, <3>1 DEF TroubleSince
    <3> QED BY <3>3, <3>4 DEF EntryTrue
  <2>6. AnswerIsRecent'
    BY <1>t, <2>1 DEF RasInv, RasClock, AnswerIsRecent, SeenAfter, TroubleAfter
  <2> QED BY <2>2, <2>4, <2>5, <2>6 DEF RasInv
<1>9. CASE RasTick
  <2>1. RasTypeOK' /\ RasClock'
    BY <1>9, <1>t DEF RasTick, rasWorld, rasTask, RasInv, RasTypeOK, RasClock
  <2>2. RasFound' /\ (\A x \in rasCache : EntryTrue(x))' /\ AnswerIsRecent'
    BY <1>9 DEF RasTick, rasWorld, rasTask, RasInv, RasFound, EntryTrue, SeenSince,
                TroubleSince, AnswerIsRecent, SeenAfter, TroubleAfter
  <2> QED BY <2>1, <2>2 DEF RasInv
<1>10. CASE UNCHANGED rasVars
  BY <1>10 DEF rasVars, rasWorld, rasTask, RasInv, RasTypeOK, RasClock, RasFound, EntryTrue,
               SeenSince, TroubleSince, AnswerIsRecent, SeenAfter, TroubleAfter
<1> QED
  BY <1>1, <1>2, <1>3, <1>4, <1>5, <1>6, <1>7, <1>8, <1>9, <1>10 DEF RasNext, ResolveStep

\* The resolver's invariant holds for every number of tasks and clusters and
\* all durations.
THEOREM RasConsistent == RasSpec => []RasInv
<1>1. RasInit => RasInv
  <2> SUFFICES ASSUME RasInit PROVE RasInv
    OBVIOUS
  <2>1. RasTypeOK
    BY RasContentsAssumption, RasDurations DEF RasInit, RasTypeOK, RasEntry
  <2>2. AnswerIsRecent
    BY RasDurations DEF RasInit, AnswerIsRecent, TroubleAfter
  <2>3. RasClock /\ RasFound /\ \A e \in rasCache : EntryTrue(e)
    BY RasDurations DEF RasInit, RasClock, RasFound
  <2> QED BY <2>1, <2>2, <2>3 DEF RasInv
<1> QED BY <1>1, RasStep, PTL DEF RasSpec

\* The resolver's state keeps its types.
THEOREM RasTypeCorrect == RasSpec => []RasTypeOK
<1>1. RasInv => RasTypeOK
  BY DEF RasInv
<1> QED BY <1>1, RasConsistent, PTL

\* An identity was true, or RAS in trouble, within the entry's life and one
\* deadline, however the resolutions overtake each other.
THEOREM RasAnswerIsRecent == RasSpec => []AnswerIsRecent
<1>1. RasInv => AnswerIsRecent
  BY DEF RasInv
<1> QED BY <1>1, RasConsistent, PTL
-----------------------------------------------------------------------------
(* The routing of tools *)

\* With masking on, no descriptor of a session shows an internal name.
Hidden(masking, ts) ==
    masking => \A i \in DOMAIN ts : ts[i].public => ts[i].name \notin RtInternal

\* What the registry knows of a session is true of its connection, and no
\* record shows an internal name, nor a cached entry that has been written.
RegistryFacts ==
    /\ \A u \in RtUid : rtRecord[u] # RtNone =>
          /\ Hidden(rtMasking, rtRecord[u].tools)
          /\ rtRecord[u].active =>
                rtRecord[u].conn \in RtConn /\ rtBase[rtRecord[u].conn] = rtRecord[u].key
    /\ rtMasking => \A u \in RtUid : rtCached[u] \cap RtInternal \subseteq rtLoaded[u]

\* A connection that has registered, or that a call holds, is in use for good.
CallFacts ==
    /\ rtCall.pc # "idle" => rtCall.name \in RtName
    /\ rtCall.pc \in {"resolved", "preflight"} /\ rtMasking => rtCall.name \notin RtInternal
    /\ rtCall.pc = "resolved" => rtCall.session \in RtUid
    /\ rtCall.pc = "preflight" =>
          /\ rtCall.rec # RtNone /\ rtCall.rec.conn \in RtConn
          /\ rtBase[rtCall.rec.conn] = rtCall.identity

\* What a step sends and answers.
OutputFacts ==
    /\ \A m \in rtSent : m.identity = rtBase[m.conn]
    /\ \A m \in rtSent : m.agent /\ rtMasking => m.name \notin RtInternal
    /\ rtMasking => rtAnswer # "raw"

\* The inductive invariant.
RtInv == RtTypeOK /\ RegistryFacts /\ CallFacts /\ OutputFacts


\* A declared list becomes a list of descriptors that hides what it must.
LEMMA NormalizeHides ==
    ASSUME rtMasking \in BOOLEAN, NEW ts \in RtToolLists
    PROVE  /\ NormalizeTools(ts) \in Seq(RtDescriptor)
           /\ Hidden(rtMasking, NormalizeTools(ts))
<1> DEFINE b(i) == ts[i].public /\ (rtMasking => ts[i].name \notin RtInternal)
           N(i) == [ts[i] EXCEPT !.public = b(i)]
<1>0. ts \in Seq(RtDescriptor)
  BY RtToolListsAssumption
<1>1. ASSUME NEW i \in DOMAIN ts
      PROVE  /\ N(i) \in RtDescriptor
             /\ N(i).public /\ rtMasking => N(i).name \notin RtInternal
  <2>1. ts[i] \in RtDescriptor
    BY <1>0
  <2>2. b(i) \in BOOLEAN /\ (b(i) /\ rtMasking => ts[i].name \notin RtInternal)
    OBVIOUS
  <2> HIDE DEF b
  <2>3. N(i) \in RtDescriptor /\ N(i).name = ts[i].name /\ N(i).public = b(i)
    BY <2>1, <2>2 DEF RtDescriptor
  <2> QED BY <2>2, <2>3
<1>2. NormalizeTools(ts) = [i \in DOMAIN ts |-> N(i)]
  BY DEF NormalizeTools
<1> HIDE DEF N
<1>3. DOMAIN ts = 1 .. Len(ts) /\ Len(ts) \in Nat
  BY <1>0
<1>4. NormalizeTools(ts) \in [1 .. Len(ts) -> RtDescriptor]
  BY <1>1, <1>2, <1>3
<1>5. NormalizeTools(ts) \in Seq(RtDescriptor)
  BY <1>3, <1>4
<1> QED BY <1>1, <1>2, <1>5 DEF Hidden

\* The public names of a normalised list are names, and with masking on none is
\* internal.
LEMMA PublicNamesHide ==
    ASSUME NEW ts \in Seq(RtDescriptor), Hidden(rtMasking, ts)
    PROVE  /\ PublicNames(ts) \in SUBSET RtName
           /\ rtMasking => PublicNames(ts) \cap RtInternal = {}
<1>1. \A i \in DOMAIN ts : ts[i] \in RtDescriptor
  OBVIOUS
<1> QED BY <1>1 DEF PublicNames, Hidden, RtDescriptor

\* An entry of a bucket is an active session that publishes the name.
LEMMA EntryIsPublished ==
    ASSUME NEW name, NEW s, NEW e \in Entries(name, s)
    PROVE  /\ e[1] \in RtUid /\ Active(e[1]) /\ rtRecord[e[1]] # RtNone
           /\ e = <<e[1], e[2]>>
           /\ e[2] \in DOMAIN rtRecord[e[1]].tools
           /\ rtRecord[e[1]].tools[e[2]].public
           /\ rtRecord[e[1]].tools[e[2]].name = name
           /\ rtRecord[e[1]].tools[e[2]].schema = s
  BY DEF Entries, Publishing, Active

\* A session of the slot is the session of an entry, and the other way round.
LEMMA SlotMembers ==
    ASSUME NEW name
    PROVE  /\ \A u \in SlotSessions(name) : u \in RtUid
           /\ \A u : u \in SlotSessions(name) <=> \E s \in RtSchema : u \in Bucket(name, s)
           /\ SlotSessions(name) = {} <=> SlotEntries(name) = {}
<1>1. \A u : u \in SlotSessions(name) <=> \E s \in RtSchema : u \in Bucket(name, s)
  BY DEF SlotSessions, SlotEntries, Bucket
<1>2. \A u \in SlotSessions(name) : u \in RtUid
  BY <1>1, EntryIsPublished DEF Bucket
<1>3. SlotSessions(name) = {} <=> SlotEntries(name) = {}
  BY DEF SlotSessions
<1> QED BY <1>1, <1>2, <1>3

\* A name with a live session in its slot is not internal when masking is on.
LEMMA SlotIsPublic ==
    ASSUME RtInv, rtMasking, NEW name, SlotSessions(name) # {}
    PROVE  name \notin RtInternal
<1>1. PICK s \in RtSchema : \E u : u \in Bucket(name, s)
  BY SlotMembers
<1>2. PICK e \in Entries(name, s) : TRUE
  BY <1>1 DEF Bucket
<1>3. e[1] \in RtUid /\ rtRecord[e[1]] # RtNone
  BY <1>2, EntryIsPublished
<1>4. Hidden(rtMasking, rtRecord[e[1]].tools)
  BY <1>3 DEF RtInv, RegistryFacts
<1> QED BY <1>2, <1>4, EntryIsPublished DEF Hidden

\* resolve_published answers a session only from the slot.
LEMMA ResolvedIsCandidate ==
    ASSUME RtTypeOK, NEW name, NEW session, ResolvePublished(name, session) \in RtUid
    PROVE  ResolvePublished(name, session) \in SlotSessions(name)
<1>2. CASE SlotSessions(name) = {}
  BY <1>2, RtUidAssumption DEF ResolvePublished
<1>3. CASE SlotSessions(name) # {} /\ session # RtNone
  BY <1>3, RtUidAssumption DEF ResolvePublished
<1>4. CASE SlotSessions(name) # {} /\ session = RtNone
  BY <1>4, RtUidAssumption DEF ResolvePublished
<1> QED BY <1>2, <1>3, <1>4

\* A silent step satisfies what the outputs must.
LEMMA SilentOutput ==
    ASSUME Silent
    PROVE  OutputFacts' /\ rtSent' = {} /\ rtAnswer' = "none"
  BY DEF Silent, OutputFacts

\* A call that is answered is idle, and its answer is not raw with masking on.
LEMMA ReplyOutput ==
    ASSUME NEW answer \in {"failure", "raw", "public"}, Reply(answer), UNCHANGED rtMasking,
           rtMasking => answer # "raw"
    PROVE  /\ OutputFacts' /\ rtSent' = {} /\ rtAnswer' = answer
           /\ rtCall' = RtIdle /\ CallFacts' /\ rtCall' \in RtCallState
  BY DEF Reply, OutputFacts, RtIdle, CallFacts, RtCallState

\* Register and tools_changed keep the registry's facts.
LEMMA RegistryStep ==
    ASSUME RtInv, NEW u \in RtUid, Silent, UNCHANGED <<rtMasking, rtCall>>,
           \/ \E c \in RtConn, base \in RtBases \cup {RtNone}, ts \in RtToolLists :
                 RegisterBase(u, c, base, ts)
           \/ \E ts \in RtToolLists : ChangeTools(u, ts)
           \/ SuspendSession(u)
           \/ RemoveSession(u)
           \/ ForgetCached(u)
    PROVE  RtInv'
<1>t. /\ rtRecord \in [RtUid -> RtRecord \cup {RtNone}]
      /\ rtBase \in [RtConn -> RtBases \cup {RtNone, "unused"}]
      /\ rtCached \in [RtUid -> SUBSET RtName] /\ rtLoaded \in [RtUid -> SUBSET RtName]
      /\ rtCall \in RtCallState /\ rtMasking \in BOOLEAN
  BY DEF RtInv, RtTypeOK
<1>o. OutputFacts' /\ rtSent' = {} /\ rtAnswer' = "none"
  BY SilentOutput
<1>r. \A v \in RtUid : Active(v) =>
         /\ rtRecord[v] \in RtRecord
         /\ rtRecord[v].conn \in RtConn /\ rtRecord[v].key \in RtBases \cup {RtNone}
         /\ rtBase[rtRecord[v].conn] = rtRecord[v].key
         /\ rtRecord[v].tools \in Seq(RtDescriptor)
  BY <1>t DEF RtInv, RegistryFacts, Active, RtRecord
<1>1. ASSUME NEW c \in RtConn, NEW base \in RtBases \cup {RtNone}, NEW ts \in RtToolLists,
             RegisterBase(u, c, base, ts)
      PROVE  RtInv'
  <2> DEFINE n == NormalizeTools(ts)
             rec == [active |-> TRUE, conn |-> c, key |-> base, tools |-> n]
  <2>1. n \in Seq(RtDescriptor) /\ Hidden(rtMasking, n)
    BY <1>t, NormalizeHides
  <2>2. PublicNames(n) \in SUBSET RtName /\ (rtMasking => PublicNames(n) \cap RtInternal = {})
    BY <2>1, PublicNamesHide
  <2>3. /\ rtRecord' = [rtRecord EXCEPT ![u] = rec]
        /\ rtBase' = [rtBase EXCEPT ![c] = base]
        /\ rtCached' = [rtCached EXCEPT ![u] = PublicNames(n)]
        /\ rtLoaded' = [rtLoaded EXCEPT ![u] = {}]
        /\ rtBase[c] = "unused"
    BY <1>1 DEF RegisterBase, WriteCached
  <2> HIDE DEF n
  <2>4. rec \in RtRecord
    BY <2>1 DEF RtRecord
  <2>5. RtTypeOK'
    BY <1>t, <1>o, <2>2, <2>3, <2>4 DEF RtTypeOK
  <2>6. \A d \in RtConn : rtBase[d] \in RtBases \cup {RtNone} => rtBase'[d] = rtBase[d]
    BY <1>t, <2>3, RtUnusedAssumption
  <2>7. RegistryFacts'
    <3>1. ASSUME NEW v \in RtUid, v # u, rtRecord'[v] # RtNone
          PROVE  /\ Hidden(rtMasking', rtRecord'[v].tools)
                 /\ rtRecord'[v].active =>
                      /\ rtRecord'[v].conn \in RtConn
                      /\ rtBase'[rtRecord'[v].conn] = rtRecord'[v].key
      BY <1>t, <1>r, <2>3, <2>6, <3>1 DEF RtInv, RegistryFacts, Active
    <3>2. rtRecord'[u] = rec /\ rtBase'[c] = base
      BY <1>t, <2>3
    <3>3. rtMasking => \A v \in RtUid : rtCached'[v] \cap RtInternal \subseteq rtLoaded'[v]
      BY <1>t, <2>2, <2>3 DEF RtInv, RegistryFacts
    <3> QED BY <2>1, <3>1, <3>2, <3>3 DEF RegistryFacts
  <2>8. CallFacts'
    <3>1. rtCall.pc = "preflight" => rtCall.identity \in RtBases \cup {RtNone}
      BY <1>t DEF RtCallState
    <3> QED BY <2>6, <3>1 DEF RtInv, CallFacts
  <2> QED BY <1>o, <2>5, <2>7, <2>8 DEF RtInv
<1>2. ASSUME NEW ts \in RtToolLists, ChangeTools(u, ts) PROVE RtInv'
  <2> DEFINE n == NormalizeTools(ts)
  <2>1. n \in Seq(RtDescriptor) /\ Hidden(rtMasking, n)
    BY <1>t, NormalizeHides
  <2>2. PublicNames(n) \in SUBSET RtName /\ (rtMasking => PublicNames(n) \cap RtInternal = {})
    BY <2>1, PublicNamesHide
  <2>3. /\ rtRecord' = [rtRecord EXCEPT ![u].tools = n] /\ Active(u)
        /\ rtBase' = rtBase
        /\ rtCached' = [rtCached EXCEPT ![u] = PublicNames(n)]
        /\ rtLoaded' = [rtLoaded EXCEPT ![u] = {}]
    BY <1>2 DEF ChangeTools, WriteCached
  <2> HIDE DEF n
  <2>4. /\ rtRecord[u] \in RtRecord /\ rtRecord'[u] = [rtRecord[u] EXCEPT !.tools = n]
        /\ \A v \in RtUid \ {u} : rtRecord'[v] = rtRecord[v]
        /\ rtRecord' = [rtRecord EXCEPT ![u] = [rtRecord[u] EXCEPT !.tools = n]]
    BY <1>t, <1>r, <2>3
  <2>5. /\ rtRecord'[u] \in RtRecord /\ rtRecord'[u].tools = n
        /\ rtRecord'[u].conn = rtRecord[u].conn /\ rtRecord'[u].key = rtRecord[u].key
    BY <2>1, <2>4 DEF RtRecord
  <2>6. RtTypeOK'
    BY <1>t, <1>o, <2>2, <2>3, <2>4, <2>5 DEF RtTypeOK
  <2>7. RegistryFacts'
    BY <1>t, <1>r, <2>1, <2>2, <2>3, <2>4, <2>5 DEF RtInv, RegistryFacts
  <2> QED BY <1>o, <2>3, <2>6, <2>7 DEF RtInv, CallFacts
<1>3. CASE SuspendSession(u)
  <2> DEFINE rec == [rtRecord[u] EXCEPT !.active = FALSE, !.conn = RtNone]
  <2>1. /\ rtRecord' = [rtRecord EXCEPT ![u] = rec] /\ Active(u)
        /\ rtBase' = rtBase /\ rtCached' = rtCached /\ rtLoaded' = rtLoaded
    BY <1>3 DEF SuspendSession
  <2>2. rec \in RtRecord /\ rec.active = FALSE /\ rec.tools = rtRecord[u].tools
    BY <1>r, <2>1 DEF RtRecord
  <2> HIDE DEF rec
  <2>3. RtTypeOK'
    BY <1>t, <1>o, <2>1, <2>2 DEF RtTypeOK
  <2>4. RegistryFacts'
    BY <1>t, <2>1, <2>2 DEF RtInv, RegistryFacts, Active
  <2> QED BY <1>o, <2>1, <2>3, <2>4 DEF RtInv, CallFacts
<1>4. CASE RemoveSession(u)
  <2>1. /\ rtRecord' = [rtRecord EXCEPT ![u] = RtNone]
        /\ rtBase' = rtBase /\ rtCached' = rtCached /\ rtLoaded' = rtLoaded
    BY <1>4 DEF RemoveSession
  <2> QED BY <1>t, <1>o, <2>1 DEF RtInv, RtTypeOK, RegistryFacts, CallFacts
<1>5. CASE ForgetCached(u)
  <2>1. /\ rtCached' = [rtCached EXCEPT ![u] = {}]
        /\ rtLoaded' = [rtLoaded EXCEPT ![u] = {}]
        /\ rtBase' = rtBase /\ rtRecord' = rtRecord
    BY <1>5 DEF ForgetCached
  <2> QED BY <1>t, <1>o, <2>1 DEF RtInv, RtTypeOK, RegistryFacts, CallFacts
<1> QED BY <1>1, <1>2, <1>3, <1>4, <1>5

\* The registry's part of the invariant when only a call moves.
LEMMA CallOnly ==
    ASSUME RtInv, UNCHANGED <<rtMasking, rtRegistry>>
    PROVE  /\ RegistryFacts'
           /\ rtMasking' = rtMasking /\ rtRecord' = rtRecord /\ rtBase' = rtBase
           /\ rtCached' = rtCached /\ rtLoaded' = rtLoaded /\ rtMasking' \in BOOLEAN
           /\ rtRecord' \in [RtUid -> RtRecord \cup {RtNone}]
           /\ rtBase' \in [RtConn -> RtBases \cup {RtNone, "unused"}]
           /\ rtCached' \in [RtUid -> SUBSET RtName] /\ rtLoaded' \in [RtUid -> SUBSET RtName]
  BY DEF RtInv, RtTypeOK, RegistryFacts, Hidden, rtRegistry

\* Every step keeps the invariant.
LEMMA RtStep ==
    RtInv /\ [RtNext]_rtVars => RtInv'
<1> SUFFICES ASSUME RtInv, [RtNext]_rtVars PROVE RtInv'
  OBVIOUS
<1>t. /\ rtCall \in RtCallState
      /\ rtRecord \in [RtUid -> RtRecord \cup {RtNone}]
      /\ rtBase \in [RtConn -> RtBases \cup {RtNone, "unused"}]
  BY DEF RtInv, RtTypeOK
<1>reply. ASSUME NEW answer \in {"failure", "raw", "public"}, Reply(answer),
                 UNCHANGED <<rtMasking, rtRegistry>>, rtMasking => answer # "raw"
          PROVE  RtInv'
  BY <1>reply, ReplyOutput, CallOnly DEF RtInv, RtTypeOK
<1>1. ASSUME NEW u \in RtUid, NEW c \in RtConn, NEW base \in RtBases \cup {RtNone},
             NEW ts \in RtToolLists, RegisterBase(u, c, base, ts)
      PROVE  RtInv'
  <2>1. Silent /\ UNCHANGED <<rtMasking, rtCall>>
    BY <1>1 DEF RegisterBase
  <2> QED BY <1>1, <2>1, RegistryStep
<1>2. ASSUME NEW u \in RtUid, NEW ts \in RtToolLists, ChangeTools(u, ts) PROVE RtInv'
  <2>1. Silent /\ UNCHANGED <<rtMasking, rtCall>>
    BY <1>2 DEF ChangeTools
  <2> QED BY <1>2, <2>1, RegistryStep
<1>3. ASSUME NEW u \in RtUid, SuspendSession(u) PROVE RtInv'
  <2>1. Silent /\ UNCHANGED <<rtMasking, rtCall>>
    BY <1>3 DEF SuspendSession
  <2> QED BY <1>3, <2>1, RegistryStep
<1>4. ASSUME NEW u \in RtUid, RemoveSession(u) PROVE RtInv'
  <2>1. Silent /\ UNCHANGED <<rtMasking, rtCall>>
    BY <1>4 DEF RemoveSession
  <2> QED BY <1>4, <2>1, RegistryStep
<1>5. ASSUME NEW u \in RtUid, ForgetCached(u) PROVE RtInv'
  <2>1. Silent /\ UNCHANGED <<rtMasking, rtCall>>
    BY <1>5 DEF ForgetCached
  <2> QED BY <1>5, <2>1, RegistryStep
<1>6. ASSUME NEW name \in RtName, NEW session \in RtUid \cup {RtNone},
             NEW readable \in BOOLEAN, StartCall(name, session, readable)
      PROVE  RtInv'
  <2>1. CASE Reply("failure")
    BY <1>6, <2>1, <1>reply DEF StartCall
  <2>2. CASE /\ rtCall' = [RtIdle EXCEPT !.pc = "validated", !.name = name,
                                         !.session = session]
             /\ Silent
    <3>1. rtCall' \in RtCallState /\ CallFacts'
      BY <2>2 DEF RtIdle, RtCallState, CallFacts
    <3> QED BY <1>6, <2>2, <3>1, SilentOutput, CallOnly DEF StartCall, RtInv, RtTypeOK
  <2> QED BY <1>6, <2>1, <2>2 DEF StartCall
<1>7. CASE ResolveCall
  <2> DEFINE target == ResolvePublished(rtCall.name, rtCall.session)
  <2>1. CASE Reply("failure")
    BY <1>7, <2>1, <1>reply DEF ResolveCall
  <2>2. CASE /\ target \in RtUid
             /\ rtCall' = [rtCall EXCEPT !.pc = "resolved", !.session = target]
             /\ Silent
    <3>1. target \in SlotSessions(rtCall.name)
      BY <2>2, ResolvedIsCandidate DEF RtInv
    <3>2. rtMasking => rtCall.name \notin RtInternal
      BY <3>1, SlotIsPublic
    <3>3. rtCall.name \in RtName
      BY <1>7 DEF ResolveCall, RtInv, CallFacts
    <3> HIDE DEF target
    <3>4. rtCall' \in RtCallState /\ CallFacts'
      <4>1. rtMasking' = rtMasking
        BY <1>7, CallOnly DEF ResolveCall
      <4> QED BY <1>t, <2>2, <3>2, <3>3, <4>1 DEF RtCallState, CallFacts
    <3> QED BY <1>7, <2>2, <3>4, SilentOutput, CallOnly DEF ResolveCall, RtInv, RtTypeOK
  <2> QED BY <1>7, <2>1, <2>2 DEF ResolveCall
<1>8. CASE GetRecord
  <2> DEFINE rec == rtRecord[rtCall.session]
  <2>1. CASE Reply("failure")
    BY <1>8, <2>1, <1>reply DEF GetRecord
  <2>2. CASE /\ Active(rtCall.session)
             /\ rtCall' = [rtCall EXCEPT !.pc = "preflight", !.rec = rec,
                                         !.identity = VerifyDatabase(rec)]
             /\ Silent
    <3>1. /\ rtCall.session \in RtUid /\ rtCall.name \in RtName
          /\ rtMasking => rtCall.name \notin RtInternal
      BY <1>8 DEF GetRecord, RtInv, CallFacts
    <3>2. /\ rec \in RtRecord /\ rec # RtNone /\ rec.conn \in RtConn
          /\ rtBase[rec.conn] = rec.key /\ rec.key \in RtBases \cup {RtNone}
      BY <1>t, <2>2, <3>1 DEF RtInv, RegistryFacts, Active, RtRecord
    <3> HIDE DEF rec
    <3>3. rtCall' \in RtCallState
      BY <1>t, <2>2, <3>1, <3>2 DEF RtCallState, VerifyDatabase
    <3>4. rtCall'.rec = rec /\ rtCall'.identity = rec.key /\ rtCall'.name = rtCall.name
      BY <1>t, <2>2 DEF RtCallState, VerifyDatabase
    <3>5. CallFacts'
      <4>1. rtBase' = rtBase
        BY <1>8, CallOnly DEF GetRecord
      <4>2. rtCall'.pc = "preflight"
        BY <1>t, <2>2 DEF RtCallState
      <4>3. rtMasking' = rtMasking
        BY <1>8, CallOnly DEF GetRecord
      <4> QED BY <3>1, <3>2, <3>4, <4>1, <4>2, <4>3 DEF CallFacts
    <3> QED BY <1>8, <2>2, <3>3, <3>5, SilentOutput, CallOnly DEF GetRecord, RtInv, RtTypeOK
  <2> QED BY <1>8, <2>1, <2>2 DEF GetRecord
<1>9. CASE DispatchCall
  <2> DEFINE m == [agent |-> TRUE, name |-> rtCall.name, conn |-> rtCall.rec.conn,
                   identity |-> rtCall.identity]
  <2>1. /\ rtCall.pc = "preflight" /\ rtSent' = {m} /\ rtAnswer' = "none"
        /\ rtCall' = [rtCall EXCEPT !.pc = "dispatched"]
        /\ UNCHANGED <<rtMasking, rtRegistry>>
    BY <1>9 DEF DispatchCall
  <2>2. /\ rtCall.name \in RtName /\ (rtMasking => rtCall.name \notin RtInternal)
        /\ rtCall.rec.conn \in RtConn
        /\ rtBase[rtCall.rec.conn] = rtCall.identity
        /\ rtCall.identity \in RtBases \cup {RtNone}
    BY <1>t, <2>1 DEF RtInv, CallFacts, RtCallState
  <2>3. rtCall' \in RtCallState /\ CallFacts'
    BY <1>t, <2>1, <2>2 DEF RtCallState, CallFacts
  <2>4. OutputFacts'
    BY <2>1, <2>2, CallOnly DEF OutputFacts
  <2> QED BY <2>1, <2>2, <2>3, <2>4, CallOnly DEF RtInv, RtTypeOK
<1>10. CASE PreflightFails
  BY <1>10, <1>reply DEF PreflightFails
<1>11. ASSUME NEW outcome \in {"envelope", "opaque", "malformed", "gone"}, NEW ok \in BOOLEAN,
              AnswerCall(outcome, ok)
       PROVE  RtInv'
  <2> DEFINE a == IF ~rtMasking THEN PlainAnswer(outcome)
                  ELSE IF ok THEN FinalizedAnswer(outcome) ELSE "failure"
  <2>1. Reply(a) /\ UNCHANGED <<rtMasking, rtRegistry>>
    BY <1>11 DEF AnswerCall
  <2>2. a \in {"failure", "raw", "public"} /\ (rtMasking => a # "raw")
    BY DEF PlainAnswer, FinalizedAnswer
  <2> QED BY <2>1, <2>2, <1>reply
<1>12. ASSUME NEW key \in RtBases, NEW name \in RtName, NEW authorized \in BOOLEAN,
              CallInternal(key, name, authorized)
       PROVE  RtInv'
  <2>1. PICK u \in InternalTargets(key, name) :
           rtSent' = {[agent |-> FALSE, name |-> name, conn |-> rtRecord[u].conn,
                       identity |-> key]}
    BY <1>12 DEF CallInternal
  <2>2. /\ rtRecord[u].conn \in RtConn /\ rtBase[rtRecord[u].conn] = key
    BY DEF InternalTargets, Active, RtInv, RegistryFacts
  <2>3. rtAnswer' = "none" /\ rtCall' = rtCall /\ UNCHANGED <<rtMasking, rtRegistry>>
    BY <1>12 DEF CallInternal
  <2>4. OutputFacts'
    BY <2>1, <2>2, <2>3, CallOnly DEF OutputFacts
  <2>5. CallFacts'
    BY <2>3, CallOnly DEF RtInv, CallFacts
  <2> QED BY <1>t, <2>1, <2>2, <2>3, <2>4, <2>5, CallOnly DEF RtInv, RtTypeOK
<1>13. CASE UNCHANGED rtVars
  BY <1>13 DEF rtVars, rtRegistry, RtInv, RtTypeOK, RegistryFacts, Hidden, CallFacts, OutputFacts
<1> QED
  BY <1>1, <1>2, <1>3, <1>4, <1>5, <1>6, <1>7, <1>8, <1>9, <1>10, <1>11, <1>12, <1>13
     DEF RtNext

\* The router's invariant holds for every registry, every tool set and every
\* number of sessions.
THEOREM RtConsistent == RtSpec => []RtInv
<1>1. RtInit => RtInv
  BY RtFilesAssumption DEF RtInit, RtInv, RtTypeOK, RegistryFacts, CallFacts, OutputFacts, RtIdle, RtCallState
<1> QED BY <1>1, RtStep, PTL DEF RtSpec

\* What the router reads and sends keeps its types.
THEOREM RtTypeCorrect == RtSpec => []RtTypeOK
<1>1. RtInv => RtTypeOK
  BY DEF RtInv
<1> QED BY <1>1, RtConsistent, PTL

\* The base the service was told of is the base that is called, and with
\* masking on nothing raw is answered.
THEOREM RtMaskedBaseIsCalled == RtSpec => []MaskedBaseIsCalled
<1>1. RtInv => MaskedBaseIsCalled
  BY DEF RtInv, OutputFacts, MaskedBaseIsCalled
<1> QED BY <1>1, RtConsistent, PTL

\* With masking on, no session_list and no call of an agent carries an internal
\* name, and no list but for an entry of the cache file that nobody has replaced,
\* whatever the file holds.
THEOREM RtInternalStaysInternal == RtSpec => []InternalStaysInternal
<1>1. RtInv => InternalStaysInternal
  <2> SUFFICES ASSUME RtInv, rtMasking
               PROVE  /\ \A name \in (RtInternal \ RtBuiltin) \cap ListedNames :
                            \E u \in RtUid : name \in rtLoaded[u]
                      /\ \A u \in RtUid : SessionListTools(u) \cap RtInternal = {}
                      /\ \A m \in rtSent : m.agent => m.name \notin RtInternal
    BY DEF InternalStaysInternal
  <2>1. ASSUME NEW name \in (RtInternal \ RtBuiltin) \cap ListedNames
        PROVE  \E u \in RtUid : name \in rtLoaded[u]
    <3>1. SlotSessions(name) = {}
      BY SlotIsPublic
    <3>2. PICK u \in RtUid : name \in rtCached[u]
      BY <3>1 DEF ListedNames, CachedNames
    <3> QED BY <3>2 DEF RtInv, RegistryFacts
  <2>2. ASSUME NEW u \in RtUid PROVE SessionListTools(u) \cap RtInternal = {}
    <3>1. CASE rtRecord[u] = RtNone
      BY <3>1 DEF SessionListTools
    <3>2. CASE rtRecord[u] # RtNone
      <4>1. rtRecord[u].tools \in Seq(RtDescriptor) /\ Hidden(rtMasking, rtRecord[u].tools)
        BY <3>2 DEF RtInv, RtTypeOK, RtRecord, RegistryFacts
      <4> QED BY <3>2, <4>1, PublicNamesHide DEF SessionListTools
    <3> QED BY <3>1, <3>2
  <2> QED BY <2>1, <2>2 DEF RtInv, OutputFacts
<1> QED BY <1>1, RtConsistent, PTL

\* What tools/list shows of a slot is what tools/call resolves, for every
\* selector and every registry, names declared twice included, and every listed
\* name is known to tools/call.
THEOREM RtListAgreesWithCall == RtSpec => []ListAgreesWithCall
<1>1. RtInv => ListAgreesWithCall
  <2> SUFFICES ASSUME RtInv, NEW name \in RtName \ RtBuiltin
               PROVE  /\ \A session \in RtUid \cup {RtNone} :
                            LET target == ResolvePublished(name, session)
                                schemas == AdmittingSchemas(name, session)
                            IN  IF target \in RtUid
                                THEN schemas = {s \in RtSchema : target \in Bucket(name, s)}
                                ELSE schemas = {}
                      /\ name \in ListedNames <=>
                            \/ ResolvePublished(name, RtNone) # "not_proxy_tool"
                            \/ name \in CachedNames
    BY DEF ListAgreesWithCall
  <2> DEFINE candidates == SlotSessions(name)
  <2>1. /\ \A u \in candidates : u \in RtUid /\ u # RtNone
        /\ \A s \in RtSchema : Bucket(name, s) \subseteq candidates
    BY SlotMembers, RtNoneAssumption
  <2>2. \A s \in RtSchema : s \in SlotVariants(name) <=> Bucket(name, s) # {}
    BY DEF SlotVariants, Bucket
  <2>3. ASSUME NEW session \in RtUid
        PROVE  AdmittingSchemas(name, session) = {s \in RtSchema : session \in Bucket(name, s)}
    <3>1. session # RtNone
      BY RtNoneAssumption
    <3>2. \A s \in RtSchema : session \in SelectorValues(name, s) <=> session \in Bucket(name, s)
      BY <3>1 DEF SelectorValues
    <3>3. AdmittingSchemas(name, session) =
             {s \in SlotVariants(name) : session \in SelectorValues(name, s)}
      BY DEF AdmittingSchemas
    <3>4. SlotVariants(name) \subseteq RtSchema
      BY DEF SlotVariants
    <3> HIDE DEF candidates
    <3> QED BY ONLY <2>2, <3>2, <3>3, <3>4
  <2>4. ASSUME One(SlotEntries(name))
        PROVE  \E u \in RtUid :
                  /\ candidates = {u}
                  /\ AdmittingSchemas(name, RtNone) = {s \in RtSchema : u \in Bucket(name, s)}
    <3>1. PICK e \in SlotEntries(name) : SlotEntries(name) = {e}
      BY <2>4 DEF One
    <3>2. PICK t \in RtSchema : e \in Entries(name, t)
      BY <3>1 DEF SlotEntries
    <3>3. candidates = {e[1]}
      BY <3>1 DEF SlotSessions
    <3>4. \A s \in RtSchema : Entries(name, s) \subseteq {e}
      BY <3>1 DEF SlotEntries
    <3>5. \A s \in RtSchema : Entries(name, s) # {} => s = t
      BY <3>2, <3>4, EntryIsPublished
    <3>6. SlotVariants(name) = {t}
      BY <3>2, <3>5 DEF SlotVariants
    <3>7. One(SlotVariants(name))
      BY <3>6 DEF One
    <3>8. AdmittingSchemas(name, RtNone) = {t}
      BY <2>4, <3>6, <3>7 DEF AdmittingSchemas, SelectorValues
    <3>9. {s \in RtSchema : e[1] \in Bucket(name, s)} = {t}
      BY <3>2, <3>5 DEF Bucket
    <3>10. e[1] \in RtUid
      BY <2>1, <3>3
    <3> QED BY <3>3, <3>8, <3>9, <3>10
  <2>5. ASSUME ~One(SlotEntries(name))
        PROVE  AdmittingSchemas(name, RtNone) = {}
    <3>1. \A s \in RtSchema : RtNone \notin Bucket(name, s)
      BY <2>1
    <3> HIDE DEF candidates
    <3> QED BY <2>5, <3>1 DEF AdmittingSchemas, SelectorValues, SlotVariants
  <2>6. ASSUME NEW session \in RtUid
        PROVE  IF ResolvePublished(name, session) \in RtUid
               THEN AdmittingSchemas(name, session) =
                      {s \in RtSchema : ResolvePublished(name, session) \in Bucket(name, s)}
               ELSE AdmittingSchemas(name, session) = {}
    <3>1. session # RtNone
      BY RtNoneAssumption
    <3>2. CASE session \in candidates
      <4>1. ResolvePublished(name, session) = session
        BY <3>1, <3>2 DEF ResolvePublished
      <4> QED BY <2>3, <4>1
    <3>3. CASE session \notin candidates
      <4>1. ResolvePublished(name, session) \notin RtUid
        BY <3>1, <3>3, RtUidAssumption DEF ResolvePublished
      <4>2. \A s \in RtSchema : session \notin Bucket(name, s)
        BY <2>1, <3>3
      <4> QED BY <2>3, <4>1, <4>2
    <3> QED BY <3>2, <3>3
  <2>7. CASE One(SlotEntries(name))
    <3>1. PICK u \in RtUid :
             /\ candidates = {u}
             /\ AdmittingSchemas(name, RtNone) = {s \in RtSchema : u \in Bucket(name, s)}
      BY <2>4, <2>7
    <3>2. ResolvePublished(name, RtNone) = CHOOSE v \in SlotSessions(name) : TRUE
      BY <2>7, <3>1 DEF ResolvePublished
    <3>3. ResolvePublished(name, RtNone) = u
      BY <3>1, <3>2
    <3>4. ResolvePublished(name, RtNone) # "not_proxy_tool" /\ name \in ListedNames
      BY <3>1, <3>3, RtUidAssumption DEF ListedNames
    <3> HIDE DEF candidates
    <3> QED BY <2>6, <3>1, <3>3, <3>4
  <2>8. CASE ~One(SlotEntries(name))
    <3>1. ResolvePublished(name, RtNone) =
             IF candidates = {} THEN "not_proxy_tool" ELSE "session_required"
      BY <2>8 DEF ResolvePublished
    <3>2. ResolvePublished(name, RtNone) \notin RtUid
      BY <3>1, RtUidAssumption
    <3>3. name \in ListedNames <=>
             ResolvePublished(name, RtNone) # "not_proxy_tool" \/ name \in CachedNames
      BY <3>1 DEF ListedNames
    <3> HIDE DEF candidates
    <3> QED BY <2>5, <2>6, <2>8, <3>2, <3>3
  <2> QED BY <2>7, <2>8
<1> QED BY <1>1, RtConsistent, PTL

-----------------------------------------------------------------------------
(* Start and stop of the process *)

\* The configuration at each place of run and serve_session_manager.
FileResolved(config) == [config EXCEPT !.work = ResolvedWork(@)]

\* What the command line makes of it.
Overridden(config, cli) ==
    [config EXCEPT
       !.work = IF cli.workdir = "absent" THEN @ ELSE CliWork(cli.workdir),
       !.http.address = OrFromCli(cli.http, @),
       !.ws = IF cli.bind = "absent" /\ cli.path = "absent" THEN @
              ELSE [WsOf(config) EXCEPT !.address = OrFromCli(cli.bind, @),
                                        !.path = OrFromCli(cli.path, @)]]

\* The inductive invariant: until the start the file, then the file with the
\* overrides, and from finalize_config on what was validated.
ProcInv ==
    /\ procFile \in ProcFiles /\ procCli \in ProcClis
    /\ procPc = "start" => procConfig = procFile.config
    /\ procPc = "read" => procConfig = FileResolved(procFile.config)
    /\ procPc \notin {"start", "read", "exited"} =>
          procConfig = Overridden(FileResolved(procFile.config), procCli)
    /\ procPc \notin {"start", "read", "overridden", "exited"} => Validate(procConfig)

\* Every step of the process keeps the invariant.
LEMMA ProcStep ==
    ProcInv /\ [ProcNext]_procVars => ProcInv'
<1> SUFFICES ASSUME ProcInv, [ProcNext]_procVars PROVE ProcInv'
  OBVIOUS
<1>1. CASE ReadConfig
  BY <1>1 DEF ReadConfig, Proceed, procInput, ProcInv, FileResolved
<1>2. CASE ApplyCliOverrides
  BY <1>2 DEF ApplyCliOverrides, Proceed, procInput, ProcInv, Overridden
<1>3. CASE FinalizeConfig
  BY <1>3 DEF FinalizeConfig, Proceed, procInput, ProcInv
<1>4. ASSUME NEW code, ExitWith(code) PROVE ProcInv'
  BY <1>4 DEF ExitWith, procInput, ProcInv
<1>5. ASSUME procConfig' = procConfig, procFile' = procFile, procCli' = procCli,
             procPc' = procPc \/ (/\ procPc \notin {"start", "read", "overridden", "exited"}
                                  /\ procPc' \notin {"start", "read", "overridden", "exited"})
      PROVE  ProcInv'
  BY <1>5 DEF ProcInv
<1>6. CASE InitLogging \/ SpawnTasks \/ BindHttp \/ BindWs \/ ShutdownSignal \/ StopTasks
  BY <1>5, <1>6 DEF InitLogging, SpawnTasks, BindHttp, BindWs, ShutdownSignal, StopTasks,
                    Proceed, procInput
<1>7. CASE HttpServeFails
  BY <1>5, <1>7 DEF HttpServeFails, procInput
<1>8. ASSUME NEW task \in procTasks, TaskFails(task) PROVE ProcInv'
  BY <1>5, <1>8 DEF TaskFails, procInput
<1>9. CASE SweeperStep
  BY <1>5, <1>9 DEF SweeperStep, BeginSweep, ShutDownNext, EndSweep, SeeCancelled, idleOnly,
                    procInput
<1>10. CASE ReadConfigFails \/ FinalizeConfigFails \/ StartFails \/ AwaitSweeper
  BY <1>4, <1>10 DEF ReadConfigFails, FinalizeConfigFails, StartFails, AwaitSweeper
<1>11. CASE UNCHANGED procVars
  BY <1>5, <1>11 DEF procVars
<1> QED
  BY <1>1, <1>2, <1>3, <1>6, <1>7, <1>8, <1>9, <1>10, <1>11 DEF ProcNext, StartStep

\* The process's invariant holds for all files and command lines.
THEOREM ProcConsistent == ProcSpec => []ProcInv
<1>1. ProcInit => ProcInv
  BY DEF ProcInit, ProcInv
<1> QED BY <1>1, ProcStep, PTL DEF ProcSpec

\* The manager serves with a configuration that passed validate with the
\* overrides of the command line in it.
THEOREM ProcServesValidated == ProcSpec => []ServesValidated
<1>1. ProcInv => ServesValidated
  <2> SUFFICES ASSUME ProcInv, procPc \in {"serving", "stopping", "awaiting"}
               PROVE  /\ Validate(procConfig)
                      /\ procCli.http # "absent" => procConfig.http.address.from = "cli"
                      /\ procCli.bind # "absent" => WsOf(procConfig).address.from = "cli"
                      /\ procCli.path # "absent" => WsOf(procConfig).path.from = "cli"
                      /\ procCli.path = "absent" =>
                            WsOf(procConfig).path = WsOf(procFile.config).path
                      /\ procConfig.work \in {"absolute", "at_config", "at_cwd"}
                      /\ procConfig.work = "at_cwd" <=> procCli.workdir = "relative"
    BY DEF ServesValidated
  <2> DEFINE file == procFile.config
             read == FileResolved(file)
             ws == WsOf(file)
  <2>1. /\ Validate(procConfig) /\ procConfig = Overridden(read, procCli)
        /\ file \in ProcConfig /\ file.work \in {"empty", "relative", "absolute"}
        /\ procCli \in ProcCli
    BY ProcFilesAssumption, ProcClisAssumption DEF ProcInv, ProcFile
  <2>2. /\ read \in ProcConfig /\ read.http = file.http /\ read.ws = file.ws
        /\ read.work \in {"empty", "at_config", "absolute"}
    BY <2>1 DEF FileResolved, ResolvedWork, ProcConfig
  <2> HIDE DEF read
  <2>3. /\ procConfig.work = IF procCli.workdir = "absent" THEN read.work
                             ELSE CliWork(procCli.workdir)
        /\ procConfig.http.address = OrFromCli(procCli.http, read.http.address)
        /\ procConfig.ws = IF procCli.bind = "absent" /\ procCli.path = "absent" THEN read.ws
                           ELSE [WsOf(read) EXCEPT !.address = OrFromCli(procCli.bind, @),
                                                   !.path = OrFromCli(procCli.path, @)]
    BY <2>1, <2>2 DEF Overridden, ProcConfig, ProcHttp
  <2>4. WsOf(read) = ws /\ ws \in ProcWs /\ ws.given = TRUE
    BY <2>1, <2>2 DEF WsOf, DefaultWs, ProcWs, ProcSetting, ProcConfig
  <2> HIDE DEF ws
  <2>5. CASE procCli.bind = "absent" /\ procCli.path = "absent"
    <3>1. WsOf(procConfig) = ws
      BY <2>2, <2>3, <2>4, <2>5 DEF WsOf, ws
    <3>2. procConfig.work \in {"absolute", "at_config", "at_cwd"}
          /\ (procConfig.work = "at_cwd" <=> procCli.workdir = "relative")
      BY <2>1, <2>2, <2>3 DEF Validate, CliWork, ProcCli
    <3>3. procCli.http # "absent" => procConfig.http.address.from = "cli"
      BY <2>3 DEF OrFromCli, FromCli
    <3> QED BY <2>1, <2>5, <3>1, <3>2, <3>3 DEF ws
  <2>6. CASE ~(procCli.bind = "absent" /\ procCli.path = "absent")
    <3>1. /\ procConfig.ws.given = TRUE
          /\ procConfig.ws.address = OrFromCli(procCli.bind, ws.address)
          /\ procConfig.ws.path = OrFromCli(procCli.path, ws.path)
      BY <2>3, <2>4, <2>6 DEF ProcWs
    <3>2. WsOf(procConfig) = procConfig.ws
      BY <3>1 DEF WsOf
    <3>3. procConfig.work \in {"absolute", "at_config", "at_cwd"}
          /\ (procConfig.work = "at_cwd" <=> procCli.workdir = "relative")
      BY <2>1, <2>2, <2>3 DEF Validate, CliWork, ProcCli
    <3>4. procCli.http # "absent" => procConfig.http.address.from = "cli"
      BY <2>3 DEF OrFromCli, FromCli
    <3>5. /\ procCli.bind # "absent" => procConfig.ws.address.from = "cli"
          /\ procCli.path # "absent" => procConfig.ws.path.from = "cli"
          /\ procCli.path = "absent" => procConfig.ws.path = ws.path
      BY <3>1 DEF OrFromCli, FromCli
    <3> QED BY <2>1, <3>2, <3>3, <3>4, <3>5 DEF ws
  <2> QED BY <2>5, <2>6
<1> QED BY <1>1, ProcConsistent, PTL
-----------------------------------------------------------------------------
(* Sequences, and picking elements of them by their positions *)

\* A function on an initial segment is a sequence.
LEMMA SegmentIsSeq ==
    ASSUME NEW E, NEW n \in Nat, NEW f \in [1 .. n -> E]
    PROVE  f \in Seq(E) /\ Len(f) = n
OBVIOUS

\* A sequence with one more element.
LEMMA AppendIsSegment ==
    ASSUME NEW E, NEW s \in Seq(E), NEW e \in E
    PROVE  /\ Append(s, e) \in [1 .. Len(s) + 1 -> E]
           /\ Append(s, e)[Len(s) + 1] = e
           /\ \A k \in 1 .. Len(s) : Append(s, e)[k] = s[k]
<1>1. /\ Append(s, e) \in Seq(E) /\ Len(Append(s, e)) = Len(s) + 1
      /\ Append(s, e)[Len(s) + 1] = e
      /\ \A k \in 1 .. Len(s) : Append(s, e)[k] = s[k]
  BY AppendProperties
<1>2. Append(s, e) \in [1 .. Len(Append(s, e)) -> E]
  BY <1>1, LenProperties
<1>3. QED
  BY <1>1, <1>2, Zenon

\* Moving the head of the second part to the end of the first leaves the whole.
LEMMA ShiftConcat ==
    ASSUME NEW E, NEW A \in Seq(E), NEW B \in Seq(E), NEW C \in Seq(E), NEW D \in Seq(E),
           Len(C) = Len(A) + 1, Len(B) = Len(D) + 1,
           \A i \in 1 .. Len(A) : C[i] = A[i],
           C[Len(A) + 1] = B[1],
           \A i \in 1 .. Len(D) : D[i] = B[i + 1]
    PROVE  C \o D = A \o B
<1>1. /\ C \o D \in Seq(E) /\ Len(C \o D) = Len(C) + Len(D)
      /\ \A i \in 1 .. Len(C) + Len(D) :
            (C \o D)[i] = IF i <= Len(C) THEN C[i] ELSE D[i - Len(C)]
  BY ConcatProperties
<1>2. /\ A \o B \in Seq(E) /\ Len(A \o B) = Len(A) + Len(B)
      /\ \A i \in 1 .. Len(A) + Len(B) :
            (A \o B)[i] = IF i <= Len(A) THEN A[i] ELSE B[i - Len(A)]
  BY ConcatProperties
<1>3. Len(A) \in Nat /\ Len(D) \in Nat
  OBVIOUS
<1>4. ASSUME NEW i \in 1 .. Len(A) + Len(B) PROVE (C \o D)[i] = (A \o B)[i]
  <2>1. CASE i <= Len(A)
    BY <1>1, <1>2, <1>3, <2>1
  <2>2. CASE i = Len(A) + 1
    BY <1>1, <1>2, <1>3, <2>2
  <2>3. CASE i > Len(A) + 1
    <3>1. i - Len(C) \in 1 .. Len(D) /\ i - Len(C) + 1 = i - Len(A)
      BY <1>3, <2>3
    <3>2. D[i - Len(C)] = B[i - Len(A)]
      BY <3>1
    <3>3. QED
      BY <1>1, <1>2, <1>3, <2>3, <3>2
  <2>4. QED
    BY <1>3, <2>1, <2>2, <2>3
<1>5. Len(C \o D) = Len(A \o B) /\ \A i \in 1 .. Len(C \o D) : (C \o D)[i] = (A \o B)[i]
  BY <1>1, <1>2, <1>3, <1>4
<1>6. QED
  BY ONLY <1>1, <1>2, <1>5, SeqEqual

\* A set of positions of a sequence is finite, and so is any part of it.
LEMMA PositionsFinite ==
    ASSUME NEW n \in Nat, NEW S \in SUBSET (1 .. n)
    PROVE  /\ IsFiniteSet(S) /\ Cardinality(S) \in Nat
           /\ \A k : IsFiniteSet({j \in S : j <= k}) /\ Place(S, k) \in Nat
           /\ \A k : Place(S, k) <= Cardinality(S)
<1>1. IsFiniteSet(1 .. n)
  BY FS_Interval
<1>2. IsFiniteSet(S)
  BY <1>1, FS_Subset
<1>3. Cardinality(S) \in Nat
  BY <1>2, FS_CardinalityType
<1>4. ASSUME NEW k
      PROVE  /\ IsFiniteSet({j \in S : j <= k}) /\ Place(S, k) \in Nat
             /\ Place(S, k) <= Cardinality(S)
  <2>1. {j \in S : j <= k} \in SUBSET S
    OBVIOUS
  <2>2. IsFiniteSet({j \in S : j <= k}) /\ Cardinality({j \in S : j <= k}) <= Cardinality(S)
    BY <1>2, <2>1, FS_Subset
  <2>3. QED
    BY <2>2, FS_CardinalityType DEF Place
<1>5. QED
  BY <1>2, <1>3, <1>4

\* Later positions have later places, counted from 1.
LEMMA PlacesGrow ==
    ASSUME NEW n \in Nat, NEW S \in SUBSET (1 .. n)
    PROVE  /\ \A k \in S : Place(S, k) \in 1 .. Cardinality(S)
           /\ \A k, l \in S : Place(S, k) = Place(S, l) => k = l
<1> DEFINE Upto(k) == {j \in S : j <= k}
<1>1. \A k : IsFiniteSet(Upto(k)) /\ Place(S, k) = Cardinality(Upto(k))
  BY PositionsFinite DEF Place
<1>2. \A k \in S : k \in Upto(k)
  OBVIOUS
<1>3. ASSUME NEW k \in S PROVE Place(S, k) \in 1 .. Cardinality(S)
  <2>1. Upto(k) # {}
    BY <1>2
  <2>2. Cardinality(Upto(k)) # 0
    BY <1>1, <2>1, FS_EmptySet
  <2>3. Place(S, k) \in Nat /\ Cardinality(S) \in Nat /\ Place(S, k) <= Cardinality(S)
    BY PositionsFinite
  <2>4. Place(S, k) # 0
    BY <1>1, <2>2
  <2>5. QED
    BY <2>3, <2>4
<1>4. ASSUME NEW k \in S, NEW l \in S, k < l PROVE Place(S, k) # Place(S, l)
  <2>0. k \in Nat /\ l \in Nat /\ \A j \in S : j \in Nat
    OBVIOUS
  <2>1. Upto(k) \in SUBSET Upto(l) /\ l \in Upto(l) /\ l \notin Upto(k)
    <3>1. \A j \in S : j <= k => j <= l
      BY ONLY <1>4, <2>0
    <3>2. l <= l /\ ~(l <= k)
      BY ONLY <1>4, <2>0
    <3>3. QED
      BY <3>1, <3>2, Zenon
  <2>2. Cardinality(Upto(l)) = Cardinality(Upto(k)) => Upto(l) = Upto(k)
    BY <1>1, <2>1, FS_Subset
  <2>3. QED
    BY <1>1, <2>1, <2>2
<1>5. QED
  BY <1>3, <1>4

\* So that every place is taken by one position.
LEMMA NthPlace ==
    ASSUME NEW n \in Nat, NEW S \in SUBSET (1 .. n)
    PROVE  /\ \A m \in 1 .. Cardinality(S) : Nth(S, m) \in S /\ Place(S, Nth(S, m)) = m
           /\ \A k \in S : Nth(S, Place(S, k)) = k
<1> DEFINE f == [k \in S |-> Place(S, k)]
           T == 1 .. Cardinality(S)
<1>1. IsFiniteSet(S) /\ Cardinality(S) \in Nat
  BY PositionsFinite
<1>2. f \in Injection(S, T)
  BY PlacesGrow DEF Injection, IsInjective
<1>3. IsFiniteSet(T) /\ Cardinality(T) = Cardinality(S)
  BY <1>1, FS_Interval
<1>4. f \in Surjection(S, T)
  BY <1>2, <1>3, FS_Injection
<1>5. \A m \in T : \E k \in S : Place(S, k) = m
  BY <1>4 DEF Surjection
<1>6. \A m \in T : Nth(S, m) \in S /\ Place(S, Nth(S, m)) = m
  BY <1>5 DEF Nth
<1>7. ASSUME NEW k \in S PROVE Nth(S, Place(S, k)) = k
  BY <1>6, PlacesGrow
<1>8. QED
  BY <1>6, <1>7

\* What is picked out of a sequence is in it.
LEMMA PickedType ==
    ASSUME NEW E, NEW s \in Seq(E), NEW S \in SUBSET DOMAIN s
    PROVE  /\ Picked(s, S) \in Seq(E)
           /\ Len(Picked(s, S)) = Cardinality(S)
           /\ \A m \in 1 .. Cardinality(S) : Picked(s, S)[m] = s[Nth(S, m)]
           /\ \A k \in S : Picked(s, S)[Place(S, k)] = s[k]
<1>1. S \in SUBSET (1 .. Len(s)) /\ Len(s) \in Nat
  OBVIOUS
<1>2. Cardinality(S) \in Nat
  BY <1>1, PositionsFinite
<1>3. \A m \in 1 .. Cardinality(S) : Nth(S, m) \in S
  BY <1>1, NthPlace
<1>4. Picked(s, S) \in [1 .. Cardinality(S) -> E]
  BY <1>3 DEF Picked
<1>5. \A k \in S : Place(S, k) \in 1 .. Cardinality(S) /\ Nth(S, Place(S, k)) = k
  BY <1>1, PlacesGrow, NthPlace
<1>6. Picked(s, S) \in Seq(E) /\ Len(Picked(s, S)) = Cardinality(S)
  BY <1>2, <1>4
<1>7. \A m \in 1 .. Cardinality(S) : Picked(s, S)[m] = s[Nth(S, m)]
  BY DEF Picked
<1>8. QED
  BY <1>5, <1>6, <1>7

\* Picking every element gives the sequence.
LEMMA PickedAll ==
    ASSUME NEW E, NEW s \in Seq(E)
    PROVE  Picked(s, DOMAIN s) = s
<1> DEFINE S == 1 .. Len(s)
<1>1. Len(s) \in Nat /\ DOMAIN s = S
  OBVIOUS
<1>2. Cardinality(S) = Len(s)
  <2>1. Cardinality(S) = IF 1 > Len(s) THEN 0 ELSE Len(s) - 1 + 1
    BY <1>1, FS_Interval
  <2>2. QED
    BY ONLY <1>1, <2>1
<1>3. ASSUME NEW k \in S PROVE Place(S, k) = k
  <2>1. {j \in S : j <= k} = 1 .. k
    BY <1>1
  <2>2. Cardinality(1 .. k) = k
    BY <1>1, FS_Interval
  <2>3. QED
    BY <2>1, <2>2 DEF Place
<1>4. \A k \in S : Picked(s, S)[k] = s[k]
  BY <1>1, <1>3, PickedType
<1>5. Picked(s, S) \in Seq(E) /\ Len(Picked(s, S)) = Len(s)
  BY <1>1, <1>2, PickedType
<1>6. QED
  BY <1>1, <1>4, <1>5

\* A position that is picked at the end adds its element at the end; one that is
\* not picked adds nothing.
LEMMA PickedAppend ==
    ASSUME NEW E, NEW s \in Seq(E), NEW e \in E, NEW S \in SUBSET DOMAIN s
    PROVE  /\ Picked(Append(s, e), S) = Picked(s, S)
           /\ Picked(Append(s, e), S \cup {Len(s) + 1}) = Append(Picked(s, S), e)
<1> DEFINE t == Append(s, e)
           z == Len(s) + 1
           U == S \cup {z}
           c == Cardinality(S)
<1>1. /\ S \in SUBSET (1 .. Len(s)) /\ Len(s) \in Nat
      /\ t \in Seq(E) /\ Len(t) = z /\ t[z] = e
      /\ \A k \in 1 .. Len(s) : t[k] = s[k]
  OBVIOUS
<1>2. c \in Nat /\ IsFiniteSet(S)
  BY <1>1, PositionsFinite
<1>3. \A m \in 1 .. c : Nth(S, m) \in S
  BY <1>1, NthPlace
<1>4. Picked(t, S) = Picked(s, S)
  BY <1>1, <1>3 DEF Picked
<1>5. Cardinality(U) = c + 1
  <2>1. z \notin S
    BY <1>1
  <2>2. QED
    BY <1>2, <2>1, FS_AddElement
<1>6. U \in SUBSET DOMAIN t /\ U \in SUBSET (1 .. z) /\ z \in Nat
  BY <1>1
<1>7. /\ \A k \in S : Place(U, k) = Place(S, k)
      /\ Place(U, z) = c + 1
  <2>1. ASSUME NEW k \in S PROVE {j \in U : j <= k} = {j \in S : j <= k}
    BY <1>1
  <2>2. {j \in U : j <= z} = U
    BY <1>1
  <2>3. QED
    BY <1>5, <2>1, <2>2 DEF Place
<1>8. /\ Picked(t, U) \in Seq(E) /\ Len(Picked(t, U)) = c + 1
      /\ \A k \in U : Picked(t, U)[Place(U, k)] = t[k]
  BY <1>1, <1>5, <1>6, PickedType
<1>9. /\ Picked(s, S) \in Seq(E) /\ Len(Picked(s, S)) = c
      /\ \A k \in S : Picked(s, S)[Place(S, k)] = s[k]
  BY PickedType
<1>10. ASSUME NEW m \in 1 .. c PROVE Picked(t, U)[m] = Picked(s, S)[m]
  <2>1. Nth(S, m) \in S /\ Place(S, Nth(S, m)) = m
    BY <1>1, NthPlace
  <2>2. Picked(t, U)[Place(U, Nth(S, m))] = t[Nth(S, m)]
    BY <1>8, <2>1
  <2>3. QED
    BY <1>1, <1>7, <1>9, <2>1, <2>2
<1>11. Picked(t, U)[c + 1] = e
  BY <1>1, <1>7, <1>8
<1> HIDE DEF t, z, U, c
<1>12. Picked(t, U) = Append(Picked(s, S), e)
  <2>1. Append(Picked(s, S), e) \in Seq(E) /\ Len(Append(Picked(s, S), e)) = c + 1
    BY <1>9
  <2>2. ASSUME NEW m \in 1 .. c + 1 PROVE Picked(t, U)[m] = Append(Picked(s, S), e)[m]
    BY <1>2, <1>9, <1>10, <1>11
  <2>3. QED
    BY <1>2, <1>8, <2>1, <2>2
<1>13. QED
  BY <1>4, <1>12 DEF t, z, U
-----------------------------------------------------------------------------
(* The frames of a connection *)

\* What the reader answers with, and the ids of messages
Answer ==
    [ kind : {"response"}, id : {"null", "text", "number"}, method : {"absent"}, ok : BOOLEAN ]
MessageId == {"absent", "null", "text", "number"}

\* The ids of all that was read, of what is in the queue, and of what the client
\* has been or will be sent
ReadIds == [k \in DOMAIN wireRead |-> ParseFrame(wireRead[k]).id]
QueuedIds == [i \in DOMAIN wireOut |-> wireOut[i].id]
PromisedIds == AnsweredIds \o QueuedIds

\* The inductive invariant: as long as the socket works nothing that is owed gets
\* lost between the reader and the client, and a writer that has found the queue
\* empty has sent all that was owed then, and stops only for the token.
WireInv ==
    /\ WireTypeOK
    /\ wireOut \in Seq(Answer)
    /\ wireWriter # "broken" => PromisedIds = OwedIds
    /\ wireWriter = "done" => wireCancel
    /\ wireWriter \in {"polled", "done"} => wireLooked <= Len(AnsweredIds)
    /\ Len(AnsweredIds) <= Len(OwedIds)
    /\ AnsweredIds = SubSeq(OwedIds, 1, Len(AnsweredIds))

\* from_value: a response is a frame with an id and either a result or an error.
LEMMA ParsedResponse ==
    ASSUME NEW f \in WireFrame, f.version, IdReadable(f), f.id # "absent", f.method = "absent"
    PROVE  /\ f.result /\ f.error = "absent" => ParseFrame(f) = Response(f.id, TRUE)
           /\ ~f.result /\ f.error = "valid" => ParseFrame(f) = Response(f.id, FALSE)
<1> DEFINE shape == <<f.id # "absent", f.method # "absent", f.result, f.error # "absent">>
<1>1. f.result \in BOOLEAN
  BY DEF WireFrame
<1>2. ASSUME f.result, f.error = "absent" PROVE ParseFrame(f) = Response(f.id, TRUE)
  <2>1. shape = <<TRUE, FALSE, TRUE, FALSE>>
    BY <1>1, <1>2
  <2>2. QED
    BY <2>1 DEF ParseFrame
<1>3. ASSUME ~f.result, f.error = "valid" PROVE ParseFrame(f) = Response(f.id, FALSE)
  <2>1. shape = <<TRUE, FALSE, FALSE, TRUE>> /\ f.error = "valid"
    BY <1>1, <1>3
  <2>2. QED
    BY <2>1 DEF ParseFrame
<1>4. QED
  BY <1>2, <1>3

\* to_value and from_value are inverses on the answers of the reader.
LEMMA AnswerIsRead ==
    ASSUME NEW m \in Answer
    PROVE  /\ PrintResponse(m) \in WireFrame
           /\ ParseFrame(PrintResponse(m)).kind = "response"
           /\ ParseFrame(PrintResponse(m)).id = m.id
<1>1. PrintResponse(m) \in WireFrame
  BY DEF PrintResponse, Answer, WireFrame
<1> DEFINE f == PrintResponse(m)
<1>a. /\ f.version /\ f.id = m.id /\ f.method = "absent" /\ f.result = m.ok
      /\ f.error = IF m.ok THEN "absent" ELSE "valid"
  BY DEF PrintResponse
<1>b. m.id \in {"null", "text", "number"} /\ m.ok \in BOOLEAN
  BY DEF Answer
<1> HIDE DEF f
<1>c. IdReadable(f) /\ f.id # "absent"
  BY <1>a, <1>b DEF IdReadable
<1>d. f \in WireFrame
  BY <1>1 DEF f
<1>2. CASE m.ok
  <2>0. f.result /\ f.error = "absent"
    BY <1>2, <1>a, Zenon
  <2>1. ParseFrame(f) = Response(m.id, TRUE)
    BY <2>0, <1>a, <1>c, <1>d, ParsedResponse, Zenon
  <2>2. QED
    BY <1>1, <2>1 DEF f, Response, WireMessage
<1>3. CASE ~m.ok
  <2>0. ~f.result /\ f.error = "valid"
    BY <1>3, <1>a, Zenon
  <2>1. ParseFrame(f) = Response(m.id, FALSE)
    BY <2>0, <1>a, <1>c, <1>d, ParsedResponse, Zenon
  <2>2. QED
    BY <1>1, <2>1 DEF f, Response, WireMessage
<1>4. QED
  BY <1>1, <1>2, <1>3

\* from_value: which frames are requests, and under which id messages come.
LEMMA ParsedFrame ==
    ASSUME NEW f \in WireFrame
    PROVE  /\ ParseFrame(f).id \in MessageId
           /\ ParseFrame(f).kind = "request" => ParseFrame(f).id \in {"null", "text", "number"}
           /\ ParseFrame(f).kind = "parse_error" => ParseFrame(f) = ParseError
<1> DEFINE shape == <<f.id # "absent", f.method # "absent", f.result, f.error # "absent">>
<1>1. CASE ~f.version \/ ~IdReadable(f)
  BY <1>1 DEF ParseFrame, ParseError, WireMessage, MessageId
<1>2. CASE f.version /\ IdReadable(f)
  <2>0. f.id \in MessageId
    BY <1>2 DEF IdReadable, WireFrame, MessageId
  <2>1. CASE shape = <<TRUE, TRUE, FALSE, FALSE>>
    <3>1. ParseFrame(f) = WireMessage("request", f.id, f.method, TRUE) /\ f.id # "absent"
      BY <1>2, <2>1 DEF ParseFrame
    <3>2. QED
      BY <2>0, <3>1 DEF WireMessage, MessageId
  <2>2. CASE shape = <<FALSE, TRUE, FALSE, FALSE>>
    <3>1. ParseFrame(f) = WireMessage("notification", "absent", f.method, TRUE)
      BY <1>2, <2>2 DEF ParseFrame
    <3>2. QED
      BY <3>1 DEF WireMessage, MessageId
  <2>3. CASE shape = <<TRUE, FALSE, TRUE, FALSE>>
    <3>1. ParseFrame(f) = Response(f.id, TRUE)
      BY <1>2, <2>3 DEF ParseFrame
    <3>2. QED
      BY <2>0, <3>1 DEF Response, WireMessage, MessageId
  <2>4. CASE shape = <<TRUE, FALSE, FALSE, TRUE>> /\ f.error = "valid"
    <3>1. ParseFrame(f) = Response(f.id, FALSE)
      BY <1>2, <2>4 DEF ParseFrame
    <3>2. QED
      BY <2>0, <3>1 DEF Response, WireMessage, MessageId
  <2>5. CASE /\ shape # <<TRUE, TRUE, FALSE, FALSE>> /\ shape # <<FALSE, TRUE, FALSE, FALSE>>
             /\ shape # <<TRUE, FALSE, TRUE, FALSE>>
             /\ ~(shape = <<TRUE, FALSE, FALSE, TRUE>> /\ f.error = "valid")
    <3>1. ParseFrame(f) = ParseError
      BY <1>2, <2>5 DEF ParseFrame
    <3>2. QED
      BY <3>1 DEF ParseError, WireMessage, MessageId
  <2>6. QED
    BY <2>1, <2>2, <2>3, <2>4, <2>5
<1>3. QED
  BY <1>1, <1>2

\* handle_request: a frame that wants an answer gets one, under its id, and no
\* other frame does.
LEMMA RepliesToFrame ==
    ASSUME NEW f \in WireFrame, NEW reply \in Replies(ParseFrame(f))
    PROVE  IF ParseFrame(f).kind \in {"request", "parse_error"}
           THEN \E m \in Answer : reply = <<m>> /\ m.id = ParseFrame(f).id
           ELSE reply = <<>>
<1> DEFINE p == ParseFrame(f)
<1>1. /\ p.kind = "request" => p.id \in {"null", "text", "number"}
      /\ p.kind = "parse_error" => p = ParseError
  BY ParsedFrame
<1> HIDE DEF p
<1>2. CASE p.kind = "parse_error"
  <2>1. reply = <<Response("null", FALSE)>>
    BY <1>2 DEF Replies, p
  <2>2. Response("null", FALSE) \in Answer /\ Response("null", FALSE).id = "null"
    BY DEF Response, WireMessage, Answer
  <2>3. p.id = "null"
    BY <1>1, <1>2 DEF ParseError, WireMessage
  <2>4. QED
    BY <1>2, <2>1, <2>2, <2>3 DEF p
<1>3. CASE p.kind = "request"
  <2>1. PICK ok \in BOOLEAN : reply = <<Response(p.id, ok)>>
    BY <1>3 DEF Replies, p
  <2>2. Response(p.id, ok) \in Answer /\ Response(p.id, ok).id = p.id
    BY <1>1, <1>3 DEF Response, WireMessage, Answer
  <2>3. QED
    BY <1>3, <2>1, <2>2 DEF p
<1>4. CASE p.kind \notin {"request", "parse_error"}
  BY <1>4 DEF Replies, p
<1>5. QED
  BY <1>2, <1>3, <1>4 DEF p

\* The ids keep the lengths of what they are the ids of.
LEMMA WireIdTypes ==
    ASSUME WireTypeOK, wireOut \in Seq(Answer)
    PROVE  /\ ReadIds \in Seq(MessageId) /\ Len(ReadIds) = Len(wireRead)
           /\ Owed \in SUBSET DOMAIN ReadIds
           /\ OwedIds = Picked(ReadIds, Owed) /\ OwedIds \in Seq(MessageId)
           /\ QueuedIds \in Seq(MessageId) /\ Len(QueuedIds) = Len(wireOut)
           /\ AnsweredIds \in Seq(MessageId \cup {"unreadable"})
           /\ Len(AnsweredIds) = Len(wireWritten)
<1>1. \A f \in WireFrame : ParseFrame(f).id \in MessageId
  BY ParsedFrame
<1>2. /\ wireRead \in Seq(WireFrame) /\ wireWritten \in Seq(WireFrame)
      /\ \A k \in DOMAIN wireRead : wireRead[k] \in WireFrame
      /\ \A k \in DOMAIN wireWritten : wireWritten[k] \in WireFrame
  BY WireFramesAssumption DEF WireTypeOK
<1>3. ReadIds \in [1 .. Len(wireRead) -> MessageId]
  BY <1>1, <1>2 DEF ReadIds
<1>4. ReadIds \in Seq(MessageId) /\ Len(ReadIds) = Len(wireRead) /\ DOMAIN ReadIds = DOMAIN wireRead
  BY <1>2, <1>3
<1>5. Owed \in SUBSET DOMAIN ReadIds
  BY <1>4 DEF Owed
<1>6. OwedIds = Picked(ReadIds, Owed)
  BY DEF OwedIds, ReadIds
<1>7. OwedIds \in Seq(MessageId)
  BY <1>4, <1>5, <1>6, PickedType
<1>8. QueuedIds \in [1 .. Len(wireOut) -> MessageId]
  <2>1. \A m \in Answer : m.id \in MessageId
    BY DEF Answer, MessageId
  <2>2. \A i \in DOMAIN wireOut : wireOut[i] \in Answer
    OBVIOUS
  <2>3. QED
    BY <2>1, <2>2 DEF QueuedIds
<1>9. QueuedIds \in Seq(MessageId) /\ Len(QueuedIds) = Len(wireOut)
  BY <1>8
<1>10. AnsweredIds \in [1 .. Len(wireWritten) -> MessageId \cup {"unreadable"}]
  BY <1>1, <1>2 DEF AnsweredIds
<1>11. AnsweredIds \in Seq(MessageId \cup {"unreadable"}) /\ Len(AnsweredIds) = Len(wireWritten)
  BY <1>2, <1>10
<1>12. QED
  BY <1>4, <1>5, <1>6, <1>7, <1>9, <1>11
\* What is read: its id is added, and its position when it wants an answer.
LEMMA ReadOwes ==
    ASSUME WireTypeOK, wireOut \in Seq(Answer), NEW f \in WireFrame,
           wireRead' = Append(wireRead, f)
    PROVE  OwedIds' = IF ParseFrame(f).kind \in {"request", "parse_error"}
                      THEN Append(OwedIds, ParseFrame(f).id) ELSE OwedIds
<1> DEFINE z == Len(wireRead) + 1
           id == ParseFrame(f).id
           wants == ParseFrame(f).kind \in {"request", "parse_error"}
<1>1. /\ wireRead \in Seq(WireFrame) /\ Len(wireRead) \in Nat
      /\ DOMAIN wireRead' = DOMAIN wireRead \cup {z}
      /\ wireRead'[z] = f
      /\ \A k \in DOMAIN wireRead : wireRead'[k] = wireRead[k] /\ k # z
  BY WireFramesAssumption DEF WireTypeOK
<1>2. /\ ReadIds \in Seq(MessageId) /\ Len(ReadIds) = Len(wireRead)
      /\ Owed \in SUBSET DOMAIN ReadIds /\ OwedIds = Picked(ReadIds, Owed)
  BY WireIdTypes
<1>3. id \in MessageId
  BY ParsedFrame
<1>4. ReadIds' = [k \in DOMAIN wireRead' |-> ParseFrame(wireRead'[k]).id]
  BY DEF ReadIds
<1>5. Owed' = {k \in DOMAIN wireRead' : ParseFrame(wireRead'[k]).kind \in {"request", "parse_error"}}
  BY DEF Owed
<1>6. Owed' = IF wants THEN Owed \cup {z} ELSE Owed
  BY <1>1, <1>5 DEF Owed
<1>7. ReadIds' = Append(ReadIds, id)
  <2> DEFINE a == Append(ReadIds, id)
  <2>1. /\ a \in [1 .. z -> MessageId] /\ a[z] = id
        /\ \A k \in 1 .. Len(wireRead) : a[k] = ReadIds[k]
    BY ONLY <1>2, <1>3, AppendIsSegment
  <2>2. /\ ReadIds' = [k \in 1 .. z |-> ParseFrame(wireRead'[k]).id]
        /\ \A k \in 1 .. Len(wireRead) : ReadIds[k] = ParseFrame(wireRead'[k]).id
    BY <1>1, <1>4 DEF ReadIds
  <2> HIDE DEF a
  <2>3. \A k \in 1 .. z : a[k] = ParseFrame(wireRead'[k]).id
    BY <1>1, <2>1, <2>2
  <2>4. QED
    BY <2>1, <2>2, <2>3 DEF a
<1>8. OwedIds' = Picked(ReadIds', Owed')
  BY DEF OwedIds, ReadIds
<1> HIDE DEF id, wants, z
<1>9. /\ Picked(Append(ReadIds, id), Owed) = Picked(ReadIds, Owed)
      /\ Picked(Append(ReadIds, id), Owed \cup {z}) = Append(Picked(ReadIds, Owed), id)
  BY <1>2, <1>3, PickedAppend, SMTT(60) DEF z
<1>10. QED
  BY <1>2, <1>6, <1>7, <1>8, <1>9 DEF id, wants

\* A frame written moves one id from the queue to the client.
LEMMA WriteAnswers ==
    ASSUME WireTypeOK, wireOut \in Seq(Answer), wireOut # <<>>,
           wireOut' = Tail(wireOut),
           wireWritten' = Append(wireWritten, PrintResponse(Head(wireOut)))
    PROVE  /\ PromisedIds' = PromisedIds
           /\ AnsweredIds' \in Seq(MessageId \cup {"unreadable"})
           /\ QueuedIds' \in Seq(MessageId)
<1> DEFINE m == Head(wireOut)
           n == Len(wireWritten)
<1>1. m \in Answer
  OBVIOUS
<1>2. /\ PrintResponse(m) \in WireFrame
      /\ ParseFrame(PrintResponse(m)).kind = "response"
      /\ ParseFrame(PrintResponse(m)).id = m.id
  BY <1>1, AnswerIsRead
<1> HIDE DEF m
<1>3. /\ n \in Nat /\ DOMAIN wireWritten = 1 .. n /\ DOMAIN wireWritten' = 1 .. n + 1
      /\ wireWritten'[n + 1] = PrintResponse(m)
      /\ \A k \in 1 .. n : wireWritten'[k] = wireWritten[k]
  BY <1>2 DEF WireTypeOK, m
<1>4. AnsweredIds' = [i \in 1 .. n + 1 |->
                        IF ParseFrame(wireWritten'[i]).kind = "response"
                        THEN ParseFrame(wireWritten'[i]).id ELSE "unreadable"]
  BY <1>3 DEF AnsweredIds
<1>5. /\ AnsweredIds \in Seq(MessageId \cup {"unreadable"}) /\ Len(AnsweredIds) = n
      /\ QueuedIds \in Seq(MessageId) /\ Len(QueuedIds) = Len(wireOut)
  BY WireIdTypes
<1>6. /\ \A i \in 1 .. n : AnsweredIds'[i] = AnsweredIds[i]
      /\ AnsweredIds'[n + 1] = m.id
  BY <1>2, <1>3, <1>4 DEF AnsweredIds
<1>7. /\ Len(wireOut) \in Nat \ {0} /\ DOMAIN wireOut' = 1 .. Len(wireOut) - 1
      /\ \A i \in 1 .. Len(wireOut) - 1 : wireOut'[i] = wireOut[i + 1]
      /\ wireOut[1] = m
  BY DEF m
<1>8. /\ QueuedIds' = [i \in 1 .. Len(wireOut) - 1 |-> wireOut'[i].id]
      /\ \A i \in 1 .. Len(wireOut) - 1 : QueuedIds'[i] = QueuedIds[i + 1]
      /\ QueuedIds[1] = m.id
  BY <1>7 DEF QueuedIds
<1>9. m.id \in MessageId
  BY <1>1 DEF Answer, MessageId
<1>10. AnsweredIds' \in Seq(MessageId \cup {"unreadable"}) /\ Len(AnsweredIds') = n + 1
  <2>1. \A i \in 1 .. n : AnsweredIds'[i] \in MessageId \cup {"unreadable"}
    BY <1>5, <1>6, SMTT(60)
  <2>2. \A i \in 1 .. n + 1 : AnsweredIds'[i] \in MessageId \cup {"unreadable"}
    BY <1>3, <1>6, <1>9, <2>1
  <2>3. AnsweredIds' \in [1 .. n + 1 -> MessageId \cup {"unreadable"}]
    BY <1>4, <2>2
  <2>4. n + 1 \in Nat
    BY <1>3
  <2>5. QED
    BY ONLY <2>3, <2>4, SegmentIsSeq
<1>11. QueuedIds' \in Seq(MessageId) /\ Len(QueuedIds') = Len(wireOut) - 1
  <2>1. QueuedIds' \in [1 .. Len(wireOut) - 1 -> MessageId]
    BY <1>5, <1>7, <1>8
  <2>2. Len(wireOut) - 1 \in Nat
    BY <1>7
  <2>3. QED
    BY ONLY <2>1, <2>2, SegmentIsSeq
<1>13. AnsweredIds' \o QueuedIds' = AnsweredIds \o QueuedIds
  <2>1. MessageId \subseteq MessageId \cup {"unreadable"}
    OBVIOUS
  <2>2. /\ QueuedIds \in Seq(MessageId \cup {"unreadable"})
        /\ QueuedIds' \in Seq(MessageId \cup {"unreadable"})
    BY <1>5, <1>11
  <2>3. /\ Len(AnsweredIds') = Len(AnsweredIds) + 1 /\ Len(QueuedIds) = Len(QueuedIds') + 1
        /\ \A i \in 1 .. Len(AnsweredIds) : AnsweredIds'[i] = AnsweredIds[i]
        /\ AnsweredIds'[Len(AnsweredIds) + 1] = QueuedIds[1]
        /\ \A i \in 1 .. Len(QueuedIds') : QueuedIds'[i] = QueuedIds[i + 1]
    BY <1>5, <1>6, <1>7, <1>8, <1>10, <1>11
  <2> DEFINE E == MessageId \cup {"unreadable"}
  <2>4. /\ AnsweredIds \in Seq(E) /\ AnsweredIds' \in Seq(E)
        /\ QueuedIds \in Seq(E) /\ QueuedIds' \in Seq(E)
    BY ONLY <1>5, <1>10, <2>2
  <2> HIDE DEF E
  <2>5. QED
    BY ONLY <2>3, <2>4, ShiftConcat, ZenonT(60)
<1>14. QED
  BY <1>10, <1>11, <1>13 DEF PromisedIds

\* What is queued adds its id to what the client has been promised.
LEMMA QueueAnswers ==
    ASSUME WireTypeOK, wireOut \in Seq(Answer), NEW m \in Answer,
           wireOut' = wireOut \o <<m>>, UNCHANGED wireWritten
    PROVE  PromisedIds' = Append(PromisedIds, m.id)
<1> DEFINE E == MessageId \cup {"unreadable"}
           n == Len(wireOut)
<1>1. /\ AnsweredIds \in Seq(E) /\ QueuedIds \in Seq(E) /\ Len(QueuedIds) = n /\ n \in Nat
  <2>1. /\ AnsweredIds \in Seq(E) /\ QueuedIds \in Seq(MessageId) /\ Len(QueuedIds) = n
    BY WireIdTypes
  <2>2. QED
    BY <2>1
<1>2. m.id \in E
  BY DEF Answer, MessageId
<1>3. AnsweredIds' = AnsweredIds
  BY DEF AnsweredIds
<1>4. /\ DOMAIN wireOut' = 1 .. n + 1 /\ wireOut'[n + 1] = m
      /\ \A i \in 1 .. n : wireOut'[i] = wireOut[i]
  OBVIOUS
<1>5. QueuedIds' = [i \in 1 .. n + 1 |-> wireOut'[i].id]
  BY <1>4 DEF QueuedIds
<1>6. /\ QueuedIds'[n + 1] = m.id
      /\ \A i \in 1 .. n : QueuedIds'[i] = QueuedIds[i]
  BY <1>1, <1>4, <1>5 DEF QueuedIds
<1>7. QueuedIds' = Append(QueuedIds, m.id)
  <2>1. /\ Append(QueuedIds, m.id) \in [1 .. n + 1 -> E]
        /\ Append(QueuedIds, m.id)[n + 1] = m.id
        /\ \A i \in 1 .. n : Append(QueuedIds, m.id)[i] = QueuedIds[i]
    BY ONLY <1>1, <1>2, AppendIsSegment
  <2>2. \A i \in 1 .. n + 1 : QueuedIds'[i] = Append(QueuedIds, m.id)[i]
    BY <1>1, <1>6, <2>1
  <2>3. QED
    BY <1>5, <2>1, <2>2
<1> HIDE DEF E
<1>8. AnsweredIds \o Append(QueuedIds, m.id) = Append(AnsweredIds \o QueuedIds, m.id)
  <2>1. /\ Append(QueuedIds, m.id) = QueuedIds \o <<m.id>>
        /\ AnsweredIds \o QueuedIds \in Seq(E)
        /\ <<m.id>> \in Seq(E)
    BY <1>1, <1>2, AppendIsConcat, ConcatProperties
  <2>2. Append(AnsweredIds \o QueuedIds, m.id) = (AnsweredIds \o QueuedIds) \o <<m.id>>
    BY ONLY <1>2, <2>1, AppendIsConcat
  <2>3. QED
    BY ONLY <1>1, <2>1, <2>2, ConcatAssociative
<1>9. QED
  BY <1>3, <1>7, <1>8 DEF PromisedIds

\* A prefix of what is owed stays one when more is owed.
LEMMA PrefixStays ==
    ASSUME NEW E, NEW A \in Seq(E), NEW B \in Seq(E), NEW x \in E,
           Len(A) <= Len(B), A = SubSeq(B, 1, Len(A))
    PROVE  Len(A) <= Len(Append(B, x)) /\ A = SubSeq(Append(B, x), 1, Len(A))
<1>1. /\ Append(B, x) \in Seq(E) /\ Len(Append(B, x)) = Len(B) + 1
      /\ \A i \in 1 .. Len(B) : Append(B, x)[i] = B[i]
  BY AppendProperties
<1>2. Len(A) \in Nat /\ Len(B) \in Nat
  OBVIOUS
<1>3. \A i \in 1 .. Len(A) : B[i] \in E /\ Append(B, x)[i] \in E
  BY <1>1, <1>2
<1>4. /\ Len(SubSeq(B, 1, Len(A))) = Len(A)
      /\ \A i \in 1 .. Len(A) : SubSeq(B, 1, Len(A))[i] = B[i]
  BY <1>2, <1>3, SubSeqProperties
<1>5. /\ SubSeq(Append(B, x), 1, Len(A)) \in Seq(E)
      /\ Len(SubSeq(Append(B, x), 1, Len(A))) = Len(A)
      /\ \A i \in 1 .. Len(A) : SubSeq(Append(B, x), 1, Len(A))[i] = Append(B, x)[i]
  BY <1>1, <1>2, <1>3, SubSeqProperties
<1>6. \A i \in 1 .. Len(A) : A[i] = SubSeq(Append(B, x), 1, Len(A))[i]
  BY <1>1, <1>2, <1>4, <1>5
<1>7. QED
  BY <1>1, <1>2, <1>5, <1>6, SeqEqual

\* The first part of a sequence is a prefix of it.
LEMMA FirstPartIsPrefix ==
    ASSUME NEW E, NEW A \in Seq(E), NEW Q \in Seq(E)
    PROVE  Len(A) <= Len(A \o Q) /\ A = SubSeq(A \o Q, 1, Len(A))
<1>1. /\ A \o Q \in Seq(E) /\ Len(A \o Q) = Len(A) + Len(Q)
      /\ \A i \in 1 .. Len(A) + Len(Q) :
            (A \o Q)[i] = IF i <= Len(A) THEN A[i] ELSE Q[i - Len(A)]
  BY ConcatProperties
<1>2. Len(A) \in Nat /\ Len(Q) \in Nat
  OBVIOUS
<1>3. \A i \in 1 .. Len(A) : (A \o Q)[i] = A[i] /\ (A \o Q)[i] \in E
  BY <1>1, <1>2
<1>4. /\ SubSeq(A \o Q, 1, Len(A)) \in Seq(E)
      /\ Len(SubSeq(A \o Q, 1, Len(A))) = Len(A)
      /\ \A i \in 1 .. Len(A) : SubSeq(A \o Q, 1, Len(A))[i] = (A \o Q)[i]
  BY <1>1, <1>2, <1>3, SubSeqProperties
<1>5. \A i \in 1 .. Len(A) : A[i] = SubSeq(A \o Q, 1, Len(A))[i]
  BY <1>3, <1>4
<1>6. QED
  BY <1>1, <1>2, <1>4, <1>5, SeqEqual
\* Every step of reader, writer and client keeps the invariant.
LEMMA WireStep ==
    ASSUME WireInv, [WireNext]_wireVars
    PROVE  WireInv'
<1> USE DEF WireInv
<1> DEFINE E == MessageId \cup {"unreadable"}
<1>0. /\ AnsweredIds \in Seq(E) /\ QueuedIds \in Seq(E) /\ OwedIds \in Seq(E)
      /\ Len(AnsweredIds) \in Nat /\ Len(OwedIds) \in Nat
  <2>1. AnsweredIds \in Seq(E) /\ QueuedIds \in Seq(MessageId) /\ OwedIds \in Seq(MessageId)
    BY WireIdTypes
  <2>2. MessageId \subseteq E
    OBVIOUS
  <2>3. QED
    BY <2>1, <2>2, SeqMonotonic, LenProperties
<1>1. ASSUME UNCHANGED wireRead PROVE OwedIds' = OwedIds
  BY <1>1 DEF OwedIds, Owed
<1>2. ASSUME UNCHANGED wireWritten PROVE AnsweredIds' = AnsweredIds
  BY <1>2 DEF AnsweredIds
<1>3. ASSUME UNCHANGED <<wireOut, wireWritten>> PROVE PromisedIds' = PromisedIds
  BY <1>2, <1>3 DEF PromisedIds, QueuedIds
<1> HIDE DEF E
<1>4. ASSUME NEW f \in WireFrames, SendFrame(f) PROVE WireInv'
  <2>1. wireIn' \in Seq(WireFrames)
    BY <1>4 DEF SendFrame, WireTypeOK
  <2>2. QED
    BY <1>1, <1>2, <1>3, <1>4, <2>1 DEF SendFrame, WireTypeOK
<1>5. CASE ReadFrame
  <2> DEFINE f == Head(wireIn)
             wants == ParseFrame(f).kind \in {"request", "parse_error"}
  <2>1. f \in WireFrames /\ wireIn' \in Seq(WireFrames) /\ wireRead' \in Seq(WireFrames)
    BY <1>5 DEF ReadFrame, WireTypeOK
  <2>2. f \in WireFrame
    BY <2>1, WireFramesAssumption
  <2>3. PICK reply \in Replies(ParseFrame(f)) :
          wireOut' = IF Listening THEN wireOut \o reply ELSE wireOut
    BY <1>5 DEF ReadFrame
  <2>4. /\ wireRead' = Append(wireRead, f) /\ UNCHANGED <<wireWritten, wireWriter, wireCancel, wireLooked>>
        /\ ~wireCancel
        /\ wireReader' \in {"reading", "leaving"}
    BY <1>5 DEF ReadFrame, WireTypeOK
  <2>5. WireTypeOK'
    BY <2>1, <2>4 DEF WireTypeOK
  <2>6. OwedIds' = IF wants THEN Append(OwedIds, ParseFrame(f).id) ELSE OwedIds
    BY <2>2, <2>4, ReadOwes
  <2>7. /\ wants => \E m \in Answer : reply = <<m>> /\ m.id = ParseFrame(f).id
        /\ ~wants => reply = <<>>
    BY <2>2, RepliesToFrame
  <2>8. ParseFrame(f).id \in E
    BY <2>2, ParsedFrame DEF E
  <2> HIDE DEF f, wants
  <2>9. wireOut' \in Seq(Answer)
    <3>1. reply \in Seq(Answer)
      <4>1. CASE wants
        <5>1. PICK m \in Answer : reply = <<m>>
          BY <2>7, <4>1
        <5>2. QED
          BY ONLY <5>1
      <4>2. CASE ~wants
        BY ONLY <2>7, <4>2, EmptySeq
      <4>3. QED
        BY <4>1, <4>2
    <3>2. QED
      BY <2>3, <3>1, ConcatProperties
  <2>10. Len(AnsweredIds') <= Len(OwedIds') /\ AnsweredIds' = SubSeq(OwedIds', 1, Len(AnsweredIds'))
    <3>1. AnsweredIds' = AnsweredIds
      BY <1>2, <2>4
    <3>2. CASE wants
      <4>1. OwedIds' = Append(OwedIds, ParseFrame(f).id)
        BY <2>6, <3>2
      <4>2. /\ Len(AnsweredIds) <= Len(Append(OwedIds, ParseFrame(f).id))
            /\ AnsweredIds = SubSeq(Append(OwedIds, ParseFrame(f).id), 1, Len(AnsweredIds))
        BY <1>0, <2>8, PrefixStays
      <4>3. QED
        BY <3>1, <4>1, <4>2
    <3>3. CASE ~wants
      BY <2>6, <3>1, <3>3
    <3>4. QED
      BY <3>2, <3>3
  <2>11. wireWriter # "done"
    BY <2>4
  <2>12. ASSUME Listening PROVE PromisedIds' = OwedIds'
    <3>1. wireOut' = wireOut \o reply /\ PromisedIds = OwedIds
      BY <2>3, <2>12 DEF Listening
    <3>2. CASE wants
      <4>1. PICK m \in Answer : reply = <<m>> /\ m.id = ParseFrame(f).id
        BY <2>7, <3>2
      <4>2. PromisedIds' = Append(PromisedIds, m.id)
        BY <2>4, <3>1, <4>1, QueueAnswers
      <4>3. QED
        BY <2>6, <3>1, <3>2, <4>1, <4>2
    <3>3. CASE ~wants
      <4>1. wireOut' = wireOut
        BY <2>7, <3>1, <3>3, ConcatEmptySeq
      <4>2. QED
        BY <1>3, <2>4, <2>6, <3>1, <3>3, <4>1
    <3>4. QED
      BY <3>2, <3>3
  <2>13. wireWriter' \in {"polled", "done"} => wireLooked' <= Len(AnsweredIds')
    BY <1>2, <2>4
  <2>14. wireWriter' # "broken" => PromisedIds' = OwedIds'
    BY <2>4, <2>11, <2>12 DEF Listening, WireTypeOK
  <2>15. wireWriter' # "done"
    BY <2>4, <2>11
  <2>16. QED
    BY <2>5, <2>9, <2>10, <2>13, <2>14, <2>15
<1>6. CASE EndReading
  BY <1>1, <1>2, <1>3, <1>6 DEF EndReading, WireTypeOK
<1>7. CASE PollQueue
  <2>1. /\ wireWriter = "running" /\ wireLooked' = Len(OwedIds)
        /\ UNCHANGED <<wireIn, wireRead, wireReader, wireCancel>>
    BY <1>7 DEF PollQueue
  <2>2. CASE /\ wireOut # <<>>
             /\ wireOut' = Tail(wireOut)
             /\ wireWritten' = Append(wireWritten, PrintResponse(Head(wireOut)))
             /\ UNCHANGED wireWriter
    <3>1. PromisedIds' = PromisedIds /\ PromisedIds = OwedIds /\ OwedIds' = OwedIds
      BY <1>1, <2>1, <2>2, WriteAnswers
    <3>2. Head(wireOut) \in Answer /\ wireOut' \in Seq(Answer)
      BY <2>1, <2>2, HeadTailProperties
    <3>3. PrintResponse(Head(wireOut)) \in WireFrame
      BY <3>2, AnswerIsRead
    <3>4. wireWritten' \in Seq(WireFrame)
      BY <2>1, <2>2, <3>3, AppendProperties DEF WireTypeOK
    <3>5. WireTypeOK'
      BY <2>1, <2>2, <3>4 DEF WireTypeOK
    <3>6. AnsweredIds' \in Seq(E) /\ QueuedIds' \in Seq(E)
      <4>1. AnsweredIds' \in Seq(E) /\ QueuedIds' \in Seq(MessageId)
        BY <2>1, <2>2, WriteAnswers DEF E
      <4>2. MessageId \subseteq E
        BY DEF E
      <4>3. QED
        BY <4>1, <4>2, SeqMonotonic
    <3>7. PromisedIds' = AnsweredIds' \o QueuedIds'
      BY DEF PromisedIds
    <3>8. /\ Len(AnsweredIds') <= Len(PromisedIds')
          /\ AnsweredIds' = SubSeq(PromisedIds', 1, Len(AnsweredIds'))
      BY <3>6, <3>7, FirstPartIsPrefix
    <3>9. QED
      BY <2>1, <2>2, <3>1, <3>2, <3>5, <3>8
  <2>3. CASE /\ wireOut = <<>> /\ wireWriter' = "polled"
             /\ UNCHANGED <<wireOut, wireWritten>>
    <3>1. /\ OwedIds' = OwedIds /\ AnsweredIds' = AnsweredIds /\ PromisedIds' = PromisedIds
          /\ PromisedIds = OwedIds
      BY <1>1, <1>2, <1>3, <2>1, <2>3
    <3>2. AnsweredIds = OwedIds
      <4>1. QueuedIds = <<>>
        BY <2>3 DEF QueuedIds
      <4>2. AnsweredIds \o <<>> = AnsweredIds
        BY <1>0, ConcatEmptySeq
      <4>3. QED
        BY <3>1, <4>1, <4>2 DEF PromisedIds
    <3>3. wireLooked' \in Nat /\ wireLooked' <= Len(AnsweredIds')
      BY <1>0, <2>1, <3>1, <3>2
    <3>4. WireTypeOK'
      BY <2>1, <2>3, <3>3 DEF WireTypeOK
    <3>5. QED
      BY <2>3, <3>1, <3>3, <3>4
  <2>4. QED
    BY <1>7, <2>2, <2>3 DEF PollQueue
<1>8. CASE PollToken
  BY <1>1, <1>2, <1>3, <1>8 DEF PollToken, WireTypeOK
<1>9. CASE SinkFails
  BY <1>1, <1>2, <1>3, <1>9 DEF SinkFails, WireTypeOK
<1>9a. CASE CancelConnection
  BY <1>1, <1>2, <1>3, <1>9a DEF CancelConnection, WireTypeOK
<1>10. CASE KeepAliveExpires
  BY <1>1, <1>2, <1>3, <1>10 DEF KeepAliveExpires, WireTypeOK
<1>11. CASE UNCHANGED wireVars
  BY <1>1, <1>2, <1>3, <1>11 DEF wireVars, WireTypeOK
<1>12. QED
  BY <1>4, <1>5, <1>6, <1>7, <1>8, <1>9, <1>9a, <1>10, <1>11 DEF WireNext

\* What is owed, queued and written agrees, whatever frames a client sends and
\* whenever the socket, the keep-alive or a bye ends the connection
\* (run_connection, dispatch).
THEOREM WireConsistent == WireSpec => []WireInv
<1>1. WireInit => WireInv
  <2> SUFFICES ASSUME WireInit PROVE WireInv
    OBVIOUS
  <2>1. /\ wireRead = <<>> /\ wireOut = <<>> /\ wireWritten = <<>> /\ wireWriter = "running"
        /\ wireIn = <<>> /\ wireReader = "reading" /\ wireCancel \in BOOLEAN /\ wireLooked = 0
    BY DEF WireInit
  <2>1a. wireOut \in Seq(Answer) /\ wireWritten \in Seq(WireFrame)
         /\ wireRead \in Seq(WireFrames) /\ wireIn \in Seq(WireFrames)
    BY <2>1, EmptySeq
  <2>1b. WireTypeOK
    BY <2>1, <2>1a DEF WireTypeOK
  <2>2. ReadIds = <<>> /\ QueuedIds = <<>> /\ AnsweredIds = <<>> /\ Owed = {}
    BY <2>1 DEF ReadIds, QueuedIds, AnsweredIds, Owed
  <2>3. Cardinality(Owed) = 0
    BY <2>2, FS_EmptySet
  <2>4. OwedIds = <<>>
    BY <2>3 DEF OwedIds, Picked
  <2>5. PromisedIds = <<>>
    BY <2>2 DEF PromisedIds
  <2>6. QED
    BY <2>1, <2>1a, <2>1b, <2>2, <2>4, <2>5 DEF WireInv
<1>2. WireInv /\ [WireNext]_wireVars => WireInv'
  BY WireStep
<1>3. QED
  BY <1>1, <1>2, PTL DEF WireSpec

\* The client gets the answers in order, each once and under its id, and a writer
\* that ends although the socket works has sent all that was owed when it last
\* polled the queue (run_connection, handle_request, to_value).
THEOREM WireAnswersReachClient == WireSpec => []AnswersReachClient
<1>1. WireInv => AnswersReachClient
  BY DEF WireInv, AnswersReachClient
<1>2. QED
  BY <1>1, WireConsistent, PTL
-----------------------------------------------------------------------------
(* Loading the terminal outbox *)

\* What convert_legacy_outbox makes of a file
Converted(f) == [top |-> TRUE, events |-> Kept(f.events)]

\* The inductive invariant: the file is the one the first start found or its
\* conversion, and the events in memory are those of the conversion.
ObInv ==
    /\ ObTypeOK
    /\ obFile # obOriginal => Convertible(obOriginal) /\ obFile = Converted(obOriginal)
    /\ obPc = "persisting" => Convertible(obOriginal) /\ obEvents = Kept(obOriginal.events)
    /\ obPc = "running" => obEvents = Kept(obOriginal.events) /\ ParsesFile(obFile)

\* Taking the chat_id away leaves an event, and the rest of it.
LEMMA StrippedEvents ==
    ASSUME NEW events \in Seq(OutboxEvent)
    PROVE  /\ Stripped(events) \in Seq(OutboxEvent)
           /\ DOMAIN Stripped(events) = DOMAIN events
           /\ \A i \in DOMAIN events :
                 /\ Stripped(events)[i] = [events[i] EXCEPT !.chat = FALSE]
                 /\ Stripped(events)[i].extra = events[i].extra
                 /\ Stripped(events)[i].code = events[i].code
<1>1. \A e \in OutboxEvent : /\ [e EXCEPT !.chat = FALSE] \in OutboxEvent
                             /\ [e EXCEPT !.chat = FALSE].extra = e.extra
                             /\ [e EXCEPT !.chat = FALSE].code = e.code
  BY DEF OutboxEvent
<1>2. Len(events) \in Nat /\ DOMAIN events = 1 .. Len(events)
      /\ \A i \in DOMAIN events : events[i] \in OutboxEvent
  OBVIOUS
<1>3. Stripped(events) \in [1 .. Len(events) -> OutboxEvent]
      /\ \A i \in DOMAIN events : Stripped(events)[i] = [events[i] EXCEPT !.chat = FALSE]
  BY <1>1, <1>2 DEF Stripped
<1>4. Stripped(events) \in Seq(OutboxEvent) /\ DOMAIN Stripped(events) = DOMAIN events
  BY <1>2, <1>3, SegmentIsSeq
<1>5. QED
  BY <1>1, <1>2, <1>3, <1>4

\* What is kept are stripped events that are not of the abolished code, all of
\* them.
LEMMA KeptEvents ==
    ASSUME NEW events \in Seq(OutboxEvent)
    PROVE  /\ Kept(events) \in Seq(OutboxEvent)
           /\ EventsOf(Kept(events)) =
                {Stripped(events)[i] : i \in {j \in DOMAIN events : NotChat(events[j])}}
<1> DEFINE s == Stripped(events)
           S == {j \in DOMAIN events : NotChat(events[j])}
<1>1. s \in Seq(OutboxEvent) /\ DOMAIN s = DOMAIN events /\ S \in SUBSET DOMAIN s
  BY StrippedEvents
<1>2. Kept(events) = Picked(s, S)
  BY DEF Kept
<1>3. S \in SUBSET (1 .. Len(events)) /\ Len(events) \in Nat
  OBVIOUS
<1> HIDE DEF s, S
<1>4. /\ Picked(s, S) \in Seq(OutboxEvent) /\ Len(Picked(s, S)) = Cardinality(S)
      /\ \A m \in 1 .. Cardinality(S) : Picked(s, S)[m] = s[Nth(S, m)]
      /\ \A k \in S : Picked(s, S)[Place(S, k)] = s[k]
  BY <1>1, PickedType
<1>5. /\ \A m \in 1 .. Cardinality(S) : Nth(S, m) \in S
      /\ \A k \in S : Place(S, k) \in 1 .. Cardinality(S)
  BY <1>3, NthPlace, PlacesGrow
<1>6. DOMAIN Picked(s, S) = 1 .. Cardinality(S)
  BY DEF Picked
<1>7. EventsOf(Picked(s, S)) = {s[i] : i \in S}
  BY <1>4, <1>5, <1>6 DEF EventsOf
<1>8. QED
  BY <1>2, <1>4, <1>7 DEF s, S

\* A file that load takes as it is keeps all its events as they are.
LEMMA KeptCurrent ==
    ASSUME NEW f \in OutboxFile, ParsesFile(f), Acceptable(f.events)
    PROVE  Kept(f.events) = f.events
<1> DEFINE events == f.events
<1>1. events \in Seq(OutboxEvent)
  BY DEF OutboxFile
<1>2. ASSUME NEW i \in DOMAIN events
      PROVE  events[i] \in OutboxEvent /\ events[i].chat = FALSE /\ NotChat(events[i])
  <2>1. events[i] \in OutboxEvent /\ events[i] \in EventsOf(events)
    BY <1>1 DEF EventsOf
  <2>2. ~events[i].chat /\ events[i].code = "allowed"
    BY <2>1 DEF ParsesFile, ParsesEvent, Acceptable, valid_terminal
  <2>3. QED
    BY <2>1, <2>2 DEF NotChat, OutboxEvent
<1> HIDE DEF events
<1>3. \A e \in OutboxEvent : e.chat = FALSE => [e EXCEPT !.chat = FALSE] = e
  BY DEF OutboxEvent
<1>4. Stripped(events) = events
  <2>1. \A i \in DOMAIN events : [events[i] EXCEPT !.chat = FALSE] = events[i]
    BY <1>2, <1>3
  <2>2. [i \in DOMAIN events |-> events[i]] = events
    BY <1>1
  <2>3. QED
    BY <2>1, <2>2 DEF Stripped
<1>5. {i \in DOMAIN events : NotChat(events[i])} = DOMAIN events
  BY <1>2
<1>6. Kept(events) = Picked(events, DOMAIN events)
  BY <1>4, <1>5 DEF Kept
<1>7. QED
  BY <1>1, <1>6, PickedAll DEF events

\* What was converted is a file of the current format, and nothing but the old
\* format was wrong with what it was made of.
LEMMA ConvertedParses ==
    ASSUME NEW f \in OutboxFile, Convertible(f)
    PROVE  /\ Converted(f) \in OutboxFile
           /\ ParsesFile(Converted(f))
           /\ \A e \in EventsOf(f.events) : ~e.extra /\ e.code # "wrong"
<1> DEFINE events == f.events
           s == Stripped(events)
<1>1. events \in Seq(OutboxEvent)
  BY DEF OutboxFile
<1> HIDE DEF events
<1>2. /\ Kept(events) \in Seq(OutboxEvent)
      /\ EventsOf(Kept(events)) = {s[i] : i \in {j \in DOMAIN events : NotChat(events[j])}}
  BY <1>1, KeptEvents
<1>3. /\ s \in Seq(OutboxEvent) /\ DOMAIN s = DOMAIN events
      /\ \A i \in DOMAIN events : s[i].extra = events[i].extra /\ s[i].code = events[i].code
  BY <1>1, StrippedEvents
<1> HIDE DEF s
<1>4. \A i \in DOMAIN events : ParsesEvent(s[i])
  BY <1>3 DEF Convertible, EventsOf, events, s
<1>5. Converted(f) \in OutboxFile
  BY <1>2 DEF Converted, OutboxFile, events
<1>6. \A e \in EventsOf(Kept(events)) : ParsesEvent(e)
  BY <1>2, <1>4
<1>7. ParsesFile(Converted(f))
  BY <1>6 DEF ParsesFile, Converted, events
<1>8. ASSUME NEW i \in DOMAIN events PROVE ~events[i].extra /\ events[i].code # "wrong"
  <2>1. ~events[i].extra
    BY <1>3, <1>4 DEF ParsesEvent
  <2>2. CASE NotChat(events[i])
    <3>1. s[i] \in EventsOf(Kept(events))
      BY <1>2, <2>2
    <3>2. s[i].code = "allowed"
      BY <3>1 DEF Convertible, Acceptable, valid_terminal, events
    <3>3. QED
      BY <1>3, <2>1, <3>2
  <2>3. CASE ~NotChat(events[i])
    BY <2>1, <2>3 DEF NotChat
  <2>4. QED
    BY <2>2, <2>3
<1>9. QED
  BY <1>5, <1>7, <1>8 DEF EventsOf, events
\* Every step of a start, and every crash between two of them, keeps the
\* invariant.
LEMMA ObStep ==
    ASSUME ObInv, [ObNext]_obVars
    PROVE  ObInv'
<1> USE DEF ObInv, obVars
<1>1. obOriginal \in OutboxFile /\ obFile \in OutboxFile
  BY OutboxFilesAssumption DEF ObTypeOK
<1>2. obOriginal.events \in Seq(OutboxEvent) /\ obFile.events \in Seq(OutboxEvent)
  BY <1>1 DEF OutboxFile
<1>3. Convertible(obOriginal) => /\ Converted(obOriginal) \in OutboxFile
                                 /\ ParsesFile(Converted(obOriginal))
                                 /\ Converted(obOriginal).events = Kept(obOriginal.events)
                                 /\ Converted(obOriginal).events \in Seq(OutboxEvent)
  BY <1>1, <1>2, ConvertedParses, KeptEvents DEF Converted
<1>4. CASE LoadCurrent
  <2>1. obFile.events = Kept(obOriginal.events)
    <3>1. CASE obFile = obOriginal
      BY <1>1, <1>4, <3>1, KeptCurrent DEF LoadCurrent
    <3>2. CASE obFile # obOriginal
      BY <1>3, <3>2
    <3>3. QED
      BY <3>1, <3>2
  <2>2. obEvents' = obFile.events /\ obPc' = "running" /\ UNCHANGED <<obFile, obOriginal>>
        /\ ParsesFile(obFile)
    BY <1>4 DEF LoadCurrent
  <2>3. ObTypeOK'
    BY <1>2, <2>2 DEF ObTypeOK
  <2>4. QED
    BY <2>1, <2>2, <2>3
<1>5. CASE LoadLegacy
  <2>1. obFile = obOriginal
    BY <1>3, <1>5 DEF LoadLegacy
  <2>2. /\ Convertible(obOriginal) /\ obEvents' = Kept(obOriginal.events)
        /\ obPc' = "persisting" /\ UNCHANGED <<obFile, obOriginal>>
    BY <1>5, <2>1 DEF LoadLegacy
  <2>3. ObTypeOK'
    BY <1>2, <2>2, KeptEvents DEF ObTypeOK
  <2>4. QED
    BY <2>2, <2>3
<1>6. CASE LoadRefused \/ PersistFails
  BY <1>6 DEF LoadRefused, PersistFails, ObTypeOK
<1>7. ASSUME obPc = "persisting" PROVE [top |-> TRUE, events |-> obEvents] = Converted(obOriginal)
  BY <1>7 DEF Converted
<1>8. CASE PersistConverted
  <2>1. /\ obFile' = Converted(obOriginal) /\ Convertible(obOriginal)
        /\ obEvents = Kept(obOriginal.events)
        /\ obPc' = "running" /\ UNCHANGED <<obOriginal, obEvents>>
    BY <1>7, <1>8 DEF PersistConverted
  <2>2. ObTypeOK'
    BY <1>3, <2>1 DEF ObTypeOK
  <2>3. QED
    BY <1>3, <2>1, <2>2
<1>9. CASE Restart
  <2>1. /\ obPc' = "down" /\ obEvents' = <<>> /\ UNCHANGED obOriginal
        /\ \/ UNCHANGED obFile
           \/ Convertible(obOriginal) /\ obFile' = Converted(obOriginal)
    BY <1>7, <1>9 DEF Restart
  <2>2. obEvents' \in Seq(OutboxEvent)
    BY <2>1, EmptySeq
  <2>3. ObTypeOK'
    BY <1>3, <2>1, <2>2 DEF ObTypeOK
  <2>4. QED
    BY <2>1, <2>3
<1>10. CASE UNCHANGED obVars
  BY <1>10 DEF ObTypeOK
<1>11. QED
  BY <1>4, <1>5, <1>6, <1>8, <1>9, <1>10 DEF ObNext

\* File and memory hold the original or its conversion, whatever file was found
\* and wherever earlier starts died (TerminalOutbox::load).
THEOREM ObConsistent == ObSpec => []ObInv
<1>1. ObInit => ObInv
  <2> SUFFICES ASSUME ObInit PROVE ObInv
    OBVIOUS
  <2>1. obEvents \in Seq(OutboxEvent)
    BY EmptySeq DEF ObInit
  <2>2. QED
    BY <2>1, OutboxFilesAssumption DEF ObInit, ObInv, ObTypeOK
<1>2. ObInv /\ [ObNext]_obVars => ObInv'
  BY ObStep
<1>3. QED
  BY <1>1, <1>2, PTL DEF ObSpec

\* The manager runs with the events of the original file less the abolished ones,
\* in their order, and never rewrites a file with more than the old format wrong
\* with it (TerminalOutbox::load, convert_legacy_outbox, write_json_atomic).
THEOREM ObLoadIsFaithful == ObSpec => []LoadIsFaithful
<1>1. ObInv => LoadIsFaithful
  <2> SUFFICES ASSUME ObInv PROVE LoadIsFaithful
    OBVIOUS
  <2>1. obOriginal \in OutboxFile
    BY OutboxFilesAssumption DEF ObInv, ObTypeOK
  <2>2. obPc = "running" =>
          /\ obEvents = Picked([i \in DOMAIN obOriginal.events |->
                                  [obOriginal.events[i] EXCEPT !.chat = FALSE]],
                               {i \in DOMAIN obOriginal.events :
                                  NotChat(obOriginal.events[i])})
          /\ ParsesFile(obFile)
    BY DEF ObInv, Kept, Stripped
  <2>3. obFile # obOriginal =>
          \A e \in EventsOf(obOriginal.events) : ~e.extra /\ e.code # "wrong"
    BY <2>1, ConvertedParses DEF ObInv
  <2>4. QED
    BY <2>2, <2>3 DEF LoadIsFaithful
<1>2. QED
  BY <1>1, ObConsistent, PTL
=============================================================================
