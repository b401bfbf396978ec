-------------------------- MODULE ToolsCacheProofs --------------------------
(***************************************************************************)
(* Proofs about module ToolsCache: its types, that no change goes without  *)
(* a notification and that expired entries are never listed, for any       *)
(* number of tasks, entries and restarts.                                  *)
(***************************************************************************)
EXTENDS ToolsCache, TLAPS

-----------------------------------------------------------------------------
(* Records of the tasks *)

\* An idle task is well typed.
LEMMA EmptyType == Empty \in Entries /\ IdleOp \in OpRecord
<1>1. Empty \in Entries
  BY DEF Empty, Entries
<1>2. QED
  BY <1>1 DEF IdleOp, OpRecord, Step

\* A task that goes on keeps its type; it is at the step named.
LEMMA AtType ==
    ASSUME NEW r \in OpRecord, NEW s \in Step
    PROVE  /\ At(r, s) \in OpRecord
           /\ At(r, s).at = s
           /\ s # "idle" => At(r, s) = [r EXCEPT !.at = s]
<1>1. CASE s = "idle"
  BY <1>1, EmptyType DEF At, IdleOp
<1>2. CASE s # "idle"
  BY <1>2 DEF At, OpRecord
<1>3. QED
  BY <1>1, <1>2

\* The steps an operation goes on with are steps.
LEMMA NextSteps ==
    ASSUME NEW o
    PROVE  Body(o) \in Step /\ AfterWrite(o) \in Step /\ AfterHook(o) \in Step
BY DEF Body, AfterWrite, AfterHook, Step

\* The eviction keeps an operation's record, its arguments and its begin.
LEMMA EvictRecord ==
    ASSUME NEW q \in OpRecord, NEW b \in BOOLEAN
    PROVE  /\ [q EXCEPT !.evicted = b, !.after = "evict"] \in OpRecord
           /\ [q EXCEPT !.evicted = b, !.after = "evict"].method = q.method
           /\ [q EXCEPT !.evicted = b, !.after = "evict"].tools = q.tools
           /\ [q EXCEPT !.evicted = b, !.after = "evict"].began = q.began
<1>1. "evict" \in {"evict", "update", "clear"}
  OBVIOUS
<1> QED BY <1>1 DEF OpRecord

-----------------------------------------------------------------------------
(* Types *)

\* Every step of the cache preserves its types and the arguments of its calls.
LEMMA CacheTypeStep ==
    ASSUME TypeOK, ArgumentsInv, [Next]_vars
    PROVE  TypeOK' /\ ArgumentsInv'
<1>0. clock \in Nat
  BY CacheAssumption DEF TypeOK
<1>1. ASSUME NEW o \in Op, NEW r \in OpRecord, Begin(o, r), r.at # "update",
             r.method = "upsert" => r.tools \in Tools
      PROVE  TypeOK' /\ ArgumentsInv'
  BY <1>1 DEF TypeOK, Begin, ArgumentsInv
<1>2. ASSUME NEW o \in Op, CallStep(o) PROVE TypeOK' /\ ArgumentsInv'
  <2>1. CASE \E k \in Key, t \in Tools : CallUpsert(o, k, t)
    <3>1. PICK k \in Key, t \in Tools : CallUpsert(o, k, t)
      BY <2>1
    <3> DEFINE r == [IdleOp EXCEPT !.at = "evict", !.method = "upsert",
                        !.keys = {k}, !.tools = t, !.began = clock]
    <3>2. {k} \in SUBSET Key
      OBVIOUS
    <3>3. r \in OpRecord /\ r.at # "update" /\ r.tools \in Tools
      BY <1>0, <3>2, EmptyType DEF OpRecord, Step, IdleOp
    <3> QED
      BY <3>1, <3>3, <1>1 DEF CallUpsert
  <2>2. CASE CallListAll(o)
    <3> DEFINE r == [IdleOp EXCEPT !.at = "evict", !.method = "list_all",
                        !.began = clock]
    <3>2. r \in OpRecord /\ r.at # "update" /\ r.method # "upsert"
      BY <1>0, EmptyType DEF OpRecord, Step, IdleOp
    <3> QED
      BY <2>2, <3>2, <1>1 DEF CallListAll
  <2>3. CASE CallResetAll(o)
    <3> DEFINE r == [IdleOp EXCEPT !.at = "clear", !.method = "reset",
                        !.keys = Key, !.began = clock]
    <3>2. r \in OpRecord /\ r.at # "update" /\ r.method # "upsert"
      BY <1>0, EmptyType DEF OpRecord, Step, IdleOp
    <3> QED
      BY <2>3, <3>2, <1>1 DEF CallResetAll
  <2>4. CASE \E config \in Config : CallResetByConfigId(o, config)
    <3>1. PICK config \in Config : CallResetByConfigId(o, config)
      BY <2>4
    <3> DEFINE ks == {k \in Key : k[2] = config}
               r == [IdleOp EXCEPT !.at = "clear", !.method = "reset",
                        !.keys = ks, !.began = clock]
    <3>2. ks \in SUBSET Key
      OBVIOUS
    <3>3. Begin(o, r)
      BY <3>1 DEF CallResetByConfigId
    <3> HIDE DEF ks
    <3>4. r \in OpRecord /\ r.at # "update" /\ r.method # "upsert"
      BY <1>0, <3>2, EmptyType DEF OpRecord, Step, IdleOp
    <3> QED
      BY <3>3, <3>4, <1>1
  <2> QED
    BY <1>2, <2>1, <2>2, <2>3, <2>4 DEF CallStep
<1>3. ASSUME NEW o \in Op, NEW r \in OpRecord, NEW s \in Step,
             op' = [op EXCEPT ![o] = At(r, s)],
             r.method = op[o].method, r.tools = op[o].tools,
             s = "update" => op[o].method = "upsert"
      PROVE  op' \in [Op -> OpRecord] /\ ArgumentsInv'
  <2>1. At(r, s) \in OpRecord /\ At(r, s).at = s
    BY AtType
  <2>2. At(r, s) = IdleOp
        \/ (At(r, s).method = op[o].method /\ At(r, s).tools = op[o].tools)
    <3>1. CASE s = "idle"
      BY <3>1 DEF At
    <3>2. CASE s # "idle"
      BY <1>3, <3>2, AtType DEF OpRecord
    <3> QED
      BY <3>1, <3>2
  <2>3. IdleOp.at = "idle" /\ IdleOp.method = "list_all"
    BY DEF IdleOp
  <2> QED
    BY <1>3, <2>1, <2>2, <2>3 DEF TypeOK, ArgumentsInv
<1>4. ASSUME NEW o \in Op, evict_expired(o) PROVE TypeOK' /\ ArgumentsInv'
  <2> DEFINE gone == {k \in Key : Expired(k)}
             r == [op[o] EXCEPT !.evicted = (gone # {}), !.after = "evict"]
             s == IF gone # {} THEN "snapshot" ELSE Body(o)
  <2>1. (gone # {}) \in BOOLEAN
    BY Zenon
  <2>2. op' = [op EXCEPT ![o] = At(r, s)]
    BY <1>4 DEF evict_expired
  <2>3. told' \in BOOLEAN
    BY <1>4, Zenon DEF evict_expired
  <2>4. entries' \in Entries
    BY <1>4 DEF evict_expired, TypeOK, Entries
  <2> HIDE DEF gone
  <2>5. /\ r \in OpRecord /\ s \in Step
        /\ r.method = op[o].method /\ r.tools = op[o].tools
        /\ s = "update" => op[o].method = "upsert"
    <3>1. op[o] \in OpRecord
      BY DEF TypeOK
    <3>2. r \in OpRecord /\ r.method = op[o].method /\ r.tools = op[o].tools
      BY <2>1, <3>1, EvictRecord
    <3>3. s \in Step /\ (s = "update" => op[o].method = "upsert")
      BY NextSteps DEF Step, Body
    <3> QED BY <3>2, <3>3
  <2> HIDE DEF r, s
  <2>6. op' \in [Op -> OpRecord] /\ ArgumentsInv'
    BY <1>3, <2>2, <2>5
  <2> QED
    BY <1>4, <2>3, <2>4, <2>6 DEF evict_expired, TypeOK
<1>5. ASSUME NEW o \in Op, Update(o) PROVE TypeOK' /\ ArgumentsInv'
  <2> DEFINE k == CHOOSE key \in op[o].keys : TRUE
             changed == entries[k] = None \/ entries[k].tools # op[o].tools
             r == [op[o] EXCEPT !.changed = changed, !.after = "update"]
             s == IF changed \/ op[o].evicted THEN "snapshot" ELSE "idle"
  <2>1. changed \in BOOLEAN
    BY Zenon
  <2>2. op' = [op EXCEPT ![o] = At(r, s)]
    BY <1>5 DEF Update
  <2>3. told' \in BOOLEAN
    BY <1>5, Zenon DEF Update
  <2>4. entries' = [entries EXCEPT ![k] = [tools |-> op[o].tools, seen |-> clock]]
    BY <1>5 DEF Update
  <2> HIDE DEF k, changed
  <2>5. /\ r \in OpRecord /\ s \in Step
        /\ r.method = op[o].method /\ r.tools = op[o].tools
        /\ s # "update"
    BY <2>1 DEF TypeOK, OpRecord, Step
  <2> HIDE DEF r, s
  <2>6. op' \in [Op -> OpRecord] /\ ArgumentsInv'
    BY <1>3, <2>2, <2>5
  <2>7. [tools |-> op[o].tools, seen |-> clock] \in ToolsCacheEntry
    BY <1>0, <1>5 DEF Update, ArgumentsInv, ToolsCacheEntry
  <2>8. entries' \in Entries
    BY <2>4, <2>7 DEF TypeOK, Entries
  <2> QED
    BY <1>5, <2>3, <2>6, <2>8 DEF Update, TypeOK
<1>6. ASSUME NEW o \in Op, Read(o) PROVE TypeOK' /\ ArgumentsInv'
  <2>1. op[o] \in OpRecord /\ "idle" \in Step
    BY DEF TypeOK, Step
  <2>2. op' \in [Op -> OpRecord] /\ ArgumentsInv'
    BY <1>3, <1>6, <2>1 DEF Read
  <2> QED
    BY <1>6, <2>2 DEF Read, TypeOK
<1>7. ASSUME NEW o \in Op, Clear(o) PROVE TypeOK' /\ ArgumentsInv'
  <2> DEFINE gone == {k \in op[o].keys : entries[k] # None}
             r == [op[o] EXCEPT !.after = "clear"]
             s == IF gone # {} THEN "snapshot" ELSE "idle"
  <2>1. op' = [op EXCEPT ![o] = At(r, s)]
    BY <1>7 DEF Clear
  <2>2. told' \in BOOLEAN
    BY <1>7, Zenon DEF Clear
  <2>3. entries' \in Entries
    BY <1>7 DEF Clear, TypeOK, Entries
  <2> HIDE DEF gone
  <2>4. /\ r \in OpRecord /\ s \in Step
        /\ r.method = op[o].method /\ r.tools = op[o].tools
        /\ s # "update"
    BY DEF TypeOK, OpRecord, Step
  <2> HIDE DEF r, s
  <2>5. op' \in [Op -> OpRecord] /\ ArgumentsInv'
    BY <1>3, <2>1, <2>4
  <2> QED
    BY <1>7, <2>2, <2>3, <2>5 DEF Clear, TypeOK
<1>8. ASSUME NEW o \in Op, Snapshot(o) PROVE TypeOK' /\ ArgumentsInv'
  <2>1. op'[o] = [op[o] EXCEPT !.at = "write", !.snap = entries]
    BY <1>8 DEF Snapshot, TypeOK
  <2>2. /\ op'[o] \in OpRecord
        /\ op'[o].at = "write"
        /\ op'[o].method = op[o].method
        /\ op'[o].tools = op[o].tools
    <3>1. op[o] \in OpRecord /\ entries \in Entries
      BY DEF TypeOK
    <3> QED
      BY <2>1, <3>1 DEF OpRecord, Step
  <2>3. op' = [op EXCEPT ![o] = op'[o]]
    BY <1>8 DEF Snapshot, TypeOK
  <2>4. op' \in [Op -> OpRecord]
    BY <2>2, <2>3 DEF TypeOK
  <2>5. ArgumentsInv'
    BY <2>2, <2>3 DEF TypeOK, ArgumentsInv
  <2> QED
    BY <1>8, <2>4, <2>5 DEF Snapshot, TypeOK
<1>9. ASSUME NEW o \in Op, Write(o) PROVE TypeOK' /\ ArgumentsInv'
  <2> DEFINE r == [op[o] EXCEPT !.snap = Empty]
  <2>1. /\ r \in OpRecord
        /\ r.method = op[o].method /\ r.tools = op[o].tools
        /\ AfterWrite(o) \in Step /\ AfterWrite(o) # "update"
    BY EmptyType, NextSteps DEF TypeOK, OpRecord, AfterWrite
  <2>2. op' = [op EXCEPT ![o] = At(r, AfterWrite(o))]
    BY <1>9 DEF Write
  <2> HIDE DEF r
  <2>3. op' \in [Op -> OpRecord] /\ ArgumentsInv'
    BY <1>3, <2>1, <2>2
  <2>4. op[o].snap \in Entries
    BY DEF TypeOK, OpRecord
  <2>5. file' \in Entries
    BY <1>9, <2>4 DEF Write, TypeOK
  <2> QED
    BY <1>9, <2>3, <2>5 DEF Write, TypeOK
<1>10. ASSUME NEW o \in Op, Hook(o) PROVE TypeOK' /\ ArgumentsInv'
  <2>1. op[o] \in OpRecord /\ AfterHook(o) \in Step
    BY NextSteps DEF TypeOK
  <2>2. AfterHook(o) = "update" => op[o].method = "upsert"
    BY DEF AfterHook, Body
  <2>3. op' \in [Op -> OpRecord] /\ ArgumentsInv'
    BY <1>3, <1>10, <2>1, <2>2 DEF Hook
  <2> QED
    BY <1>10, <2>3 DEF Hook, TypeOK
<1>11. CASE Tick
  BY <1>11, CacheAssumption DEF Tick, TypeOK, ArgumentsInv
<1>12. CASE Restart
  <2>1. op' \in [Op -> OpRecord]
    BY <1>12, EmptyType DEF Restart
  <2>2. ArgumentsInv'
    BY <1>12 DEF Restart, ArgumentsInv, IdleOp
  <2> QED
    BY <1>12, <2>1, <2>2, EmptyType DEF Restart, TypeOK
<1>13. CASE UNCHANGED vars
  BY <1>13 DEF vars, TypeOK, ArgumentsInv
<1>14. QED
  BY <1>2, <1>4, <1>5, <1>6, <1>7, <1>8, <1>9, <1>10, <1>11, <1>12, <1>13
  DEF Next, OpStep

-----------------------------------------------------------------------------
(* Freshness *)

\* Entries that go or are stamped with the current time disturb no operation
\* that has evicted.
LEMMA FreshKept ==
    ASSUME TypeOK, FreshInv, NEW o \in Op, NEW r \in OpRecord,
           op' = [op EXCEPT ![o] = r],
           clock' = clock,
           r.began <= clock,
           \A k \in Key : entries'[k] # None =>
               entries'[k] = entries[k] \/ entries'[k].seen = clock,
           HasEvicted(r) => \/ HasEvicted(op[o]) /\ r.began = op[o].began
                            \/ \A k \in Key : entries'[k] # None =>
                                   clock <= entries'[k].seen + CacheLife
    PROVE  FreshInv'
<1> SUFFICES ASSUME NEW p \in Op
             PROVE  /\ op'[p].began <= clock
                    /\ HasEvicted(op'[p]) =>
                         \A k \in Key : entries'[k] # None =>
                             op'[p].began <= entries'[k].seen + CacheLife
  BY DEF FreshInv, HasEvicted
<1>1. clock \in Nat /\ CacheLife \in Nat
  BY CacheAssumption DEF TypeOK
<1>2. \A q \in Op : op[q].began \in Nat /\ op[q].began <= clock
  BY DEF TypeOK, OpRecord, FreshInv
<1>3. \A k \in Key : entries[k] # None => entries[k].seen \in Nat
  BY DEF TypeOK, Entries, ToolsCacheEntry
<1>4. ASSUME NEW q \in Op, HasEvicted(op[q]), NEW k \in Key, entries'[k] # None
      PROVE  op[q].began <= entries'[k].seen + CacheLife
  <2>1. CASE entries'[k] = entries[k]
    BY <1>4, <2>1 DEF FreshInv
  <2>2. CASE entries'[k].seen = clock
    BY <1>1, <1>2, <2>2
  <2> QED
    BY <1>4, <2>1, <2>2
<1>5. CASE p # o
  <2>1. op'[p] = op[p]
    BY <1>5 DEF TypeOK
  <2> QED
    BY <2>1, <1>2, <1>4
<1>6. CASE p = o
  <2>1. op'[p] = r
    BY <1>6 DEF TypeOK
  <2>2. CASE HasEvicted(op[o]) /\ r.began = op[o].began
    BY <2>1, <2>2, <1>4
  <2>3. CASE \A k \in Key : entries'[k] # None =>
                 clock <= entries'[k].seen + CacheLife
    <3>1. r.began \in Nat
      BY DEF OpRecord
    <3>2. ASSUME NEW k \in Key, entries'[k] # None
          PROVE  r.began <= entries'[k].seen + CacheLife
      <4>1. entries'[k].seen \in Nat
        BY <1>1, <1>3, <3>2
      <4>2. clock <= entries'[k].seen + CacheLife
        BY <2>3, <3>2
      <4> QED
        BY <1>1, <3>1, <4>1, <4>2
    <3> QED
      BY <2>1, <3>2
  <2>4. CASE ~HasEvicted(r)
    BY <2>1, <2>4
  <2> QED
    BY <2>2, <2>3, <2>4
<1>7. QED
  BY <1>5, <1>6

\* The fields of a task that goes on, and of one that is done.
LEMMA AtFields ==
    ASSUME NEW r \in OpRecord, NEW s \in Step
    PROVE  /\ s = "idle" => At(r, s) = IdleOp
           /\ s # "idle" => /\ At(r, s).at = s
                            /\ At(r, s).after = r.after
                            /\ At(r, s).began = r.began
                            /\ At(r, s).changed = r.changed
<1>1. CASE s = "idle"
  BY <1>1 DEF At
<1>2. CASE s # "idle"
  BY <1>2, AtType DEF OpRecord
<1>3. QED
  BY <1>1, <1>2

\* An idle task has begun long ago and owes nothing.
LEMMA IdleFields == IdleOp.began = 0 /\ ~HasEvicted(IdleOp) /\ ~Owes(IdleOp)
BY DEF IdleOp, HasEvicted, Owes

\* A task that goes on where FreshKept allows it keeps the entries fresh.
LEMMA FreshAt ==
    ASSUME TypeOK, FreshInv, NEW o \in Op, NEW r \in OpRecord, NEW s \in Step,
           op' = [op EXCEPT ![o] = At(r, s)],
           clock' = clock,
           r.began = op[o].began,
           \A k \in Key : entries'[k] # None =>
               entries'[k] = entries[k] \/ entries'[k].seen = clock,
           \/ s \in {"idle", "update"}
           \/ s # "read" /\ r.after # "evict"
           \/ HasEvicted(op[o])
           \/ \A k \in Key : entries'[k] # None =>
                  clock <= entries'[k].seen + CacheLife
    PROVE  FreshInv'
<1> DEFINE x == At(r, s)
<1>1. x \in OpRecord
  BY AtType
<1>2. clock \in Nat /\ op[o].began <= clock
  BY CacheAssumption DEF TypeOK, FreshInv
<1>3. x.began <= clock
  BY <1>2, AtFields, IdleFields
<1>4. HasEvicted(x) => \/ HasEvicted(op[o]) /\ x.began = op[o].began
                       \/ \A k \in Key : entries'[k] # None =>
                              clock <= entries'[k].seen + CacheLife
  BY AtFields, IdleFields DEF HasEvicted
<1>5. op' = [op EXCEPT ![o] = x]
  OBVIOUS
<1> HIDE DEF x
<1>6. QED
  BY <1>1, <1>3, <1>4, <1>5, FreshKept

\* Every step of the cache preserves the freshness of what is listed.
LEMMA CacheFreshStep ==
    ASSUME TypeOK, ArgumentsInv, FreshInv, [Next]_vars
    PROVE  FreshInv'
<1>0. clock \in Nat
  BY CacheAssumption DEF TypeOK
<1>1. ASSUME NEW o \in Op, NEW r \in OpRecord, Begin(o, r), r.began = clock,
             r.at \in {"evict", "clear"}
      PROVE  FreshInv'
  <2>1. ~HasEvicted(r)
    BY <1>1 DEF HasEvicted
  <2>2. r.began <= clock
    BY <1>0, <1>1
  <2>3. op' = [op EXCEPT ![o] = r] /\ clock' = clock /\ entries' = entries
    BY <1>1 DEF Begin
  <2> QED
    BY <2>1, <2>2, <2>3, FreshKept
<1>2. ASSUME NEW o \in Op, CallStep(o) PROVE FreshInv'
  <2>1. ASSUME NEW m \in {"upsert", "list_all", "reset"}, NEW a \in {"evict", "clear"},
               NEW ks \in SUBSET Key, NEW t \in Tools \cup {None}
        PROVE  /\ [IdleOp EXCEPT !.at = a, !.method = m, !.keys = ks, !.tools = t,
                                 !.began = clock] \in OpRecord
               /\ [IdleOp EXCEPT !.at = a, !.method = m, !.began = clock] \in OpRecord
               /\ [IdleOp EXCEPT !.at = a, !.method = m, !.keys = ks,
                                 !.began = clock] \in OpRecord
    BY <1>0, EmptyType DEF OpRecord, Step, IdleOp
  <2>2. CASE \E k \in Key, t \in Tools : CallUpsert(o, k, t)
    <3>1. PICK k \in Key, t \in Tools : CallUpsert(o, k, t)
      BY <2>2
    <3> DEFINE r == [IdleOp EXCEPT !.at = "evict", !.method = "upsert",
                        !.keys = {k}, !.tools = t, !.began = clock]
    <3>2. {k} \in SUBSET Key
      OBVIOUS
    <3>3. r \in OpRecord
      BY <2>1, <3>2
    <3>4. r.at = "evict" /\ r.began = clock
      BY DEF IdleOp
    <3> QED
      BY <1>1, <3>1, <3>3, <3>4 DEF CallUpsert
  <2>3. CASE CallListAll(o)
    <3> DEFINE r == [IdleOp EXCEPT !.at = "evict", !.method = "list_all",
                        !.began = clock]
    <3>1. r \in OpRecord
      BY <2>1, {} \in SUBSET Key
    <3>2. r.at = "evict" /\ r.began = clock
      BY DEF IdleOp
    <3> QED
      BY <1>1, <2>3, <3>1, <3>2 DEF CallListAll
  <2>4. CASE CallResetAll(o)
    <3> DEFINE r == [IdleOp EXCEPT !.at = "clear", !.method = "reset",
                        !.keys = Key, !.began = clock]
    <3>1. r \in OpRecord
      BY <2>1
    <3>2. r.at = "clear" /\ r.began = clock
      BY DEF IdleOp
    <3> QED
      BY <1>1, <2>4, <3>1, <3>2 DEF CallResetAll
  <2>5. CASE \E config \in Config : CallResetByConfigId(o, config)
    <3>1. PICK config \in Config : CallResetByConfigId(o, config)
      BY <2>5
    <3> DEFINE ks == {k \in Key : k[2] = config}
               r == [IdleOp EXCEPT !.at = "clear", !.method = "reset",
                        !.keys = ks, !.began = clock]
    <3>2. ks \in SUBSET Key
      OBVIOUS
    <3>3. Begin(o, r)
      BY <3>1 DEF CallResetByConfigId
    <3> HIDE DEF ks
    <3>4. r \in OpRecord
      BY <2>1, <3>2
    <3>5. r.at = "clear" /\ r.began = clock
      BY DEF IdleOp
    <3> QED
      BY <1>1, <3>3, <3>4, <3>5
  <2> QED
    BY <1>2, <2>2, <2>3, <2>4, <2>5 DEF CallStep
<1>3. ASSUME NEW o \in Op, evict_expired(o) PROVE FreshInv'
  <2> DEFINE gone == {k \in Key : Expired(k)}
             r == [op[o] EXCEPT !.evicted = (gone # {}), !.after = "evict"]
             s == IF gone # {} THEN "snapshot" ELSE Body(o)
  <2>1. op' = [op EXCEPT ![o] = At(r, s)] /\ clock' = clock
    BY <1>3 DEF evict_expired
  <2>2. \A k \in Key : entries'[k] # None =>
            entries'[k] = entries[k] /\ ~Expired(k)
    BY <1>3 DEF evict_expired
  <2>3. \A k \in Key : entries'[k] # None =>
            clock <= entries'[k].seen + CacheLife
    <3>1. SUFFICES ASSUME NEW k \in Key, entries'[k] # None
                   PROVE  clock <= entries'[k].seen + CacheLife
      OBVIOUS
    <3>2. entries'[k] = entries[k] /\ ~(clock > entries[k].seen + CacheLife)
      BY <2>2, <3>1 DEF Expired
    <3>3. entries[k].seen \in Nat /\ CacheLife \in Nat
      BY <3>1, <3>2, CacheAssumption DEF TypeOK, Entries, ToolsCacheEntry
    <3> QED
      BY <1>0, <3>2, <3>3
  <2>4. (gone # {}) \in BOOLEAN
    BY Zenon
  <2> HIDE DEF gone
  <2>5. r \in OpRecord /\ s \in Step /\ r.began = op[o].began
    <3>1. op[o] \in OpRecord
      BY DEF TypeOK
    <3>2. r \in OpRecord /\ r.began = op[o].began
      BY <2>4, <3>1, EvictRecord
    <3>3. s \in Step
      BY NextSteps DEF Step
    <3> QED BY <3>2, <3>3
  <2> HIDE DEF r, s
  <2> QED
    BY <2>1, <2>2, <2>3, <2>5, FreshAt
<1>4. ASSUME NEW o \in Op, Update(o) PROVE FreshInv'
  <2> DEFINE k == CHOOSE key \in op[o].keys : TRUE
             changed == entries[k] = None \/ entries[k].tools # op[o].tools
             r == [op[o] EXCEPT !.changed = changed, !.after = "update"]
             s == IF changed \/ op[o].evicted THEN "snapshot" ELSE "idle"
  <2>1. changed \in BOOLEAN
    BY Zenon
  <2>2. op' = [op EXCEPT ![o] = At(r, s)] /\ clock' = clock
    BY <1>4 DEF Update
  <2>3. entries' = [entries EXCEPT ![k] = [tools |-> op[o].tools, seen |-> clock]]
    BY <1>4 DEF Update
  <2> HIDE DEF k, changed
  <2>4. /\ r \in OpRecord /\ s \in Step
        /\ r.began = op[o].began /\ r.after # "evict" /\ s # "read"
    BY <2>1 DEF TypeOK, OpRecord, Step
  <2>5. \A key \in Key : entries'[key] # None =>
            entries'[key] = entries[key] \/ entries'[key].seen = clock
    BY <2>3 DEF TypeOK, Entries
  <2> HIDE DEF r, s
  <2> QED
    BY <2>2, <2>4, <2>5, FreshAt
<1>5. ASSUME NEW o \in Op, Read(o) PROVE FreshInv'
  BY <1>5, FreshAt DEF Read, TypeOK, Step
<1>6. ASSUME NEW o \in Op, Clear(o) PROVE FreshInv'
  <2> DEFINE gone == {k \in op[o].keys : entries[k] # None}
             r == [op[o] EXCEPT !.after = "clear"]
             s == IF gone # {} THEN "snapshot" ELSE "idle"
  <2>1. op' = [op EXCEPT ![o] = At(r, s)] /\ clock' = clock
    BY <1>6 DEF Clear
  <2>2. \A k \in Key : entries'[k] # None => entries'[k] = entries[k]
    BY <1>6 DEF Clear
  <2> HIDE DEF gone
  <2>3. /\ r \in OpRecord /\ s \in Step
        /\ r.began = op[o].began /\ r.after # "evict" /\ s # "read"
    BY DEF TypeOK, OpRecord, Step
  <2> HIDE DEF r, s
  <2> QED
    BY <2>1, <2>2, <2>3, FreshAt
<1>7. ASSUME NEW o \in Op, Snapshot(o) PROVE FreshInv'
  <2> DEFINE r == [op[o] EXCEPT !.at = "write", !.snap = entries]
  <2>1. op' = [op EXCEPT ![o] = r] /\ clock' = clock /\ entries' = entries
    BY <1>7 DEF Snapshot, TypeOK
  <2>2. op[o] \in OpRecord /\ entries \in Entries /\ op[o].at = "snapshot"
    BY <1>7 DEF TypeOK, Snapshot
  <2>3. /\ r \in OpRecord /\ r.began = op[o].began
        /\ r.at = "write" /\ r.after = op[o].after
    BY <2>2 DEF OpRecord, Step
  <2>4. HasEvicted(r) => HasEvicted(op[o])
    BY <2>2, <2>3 DEF HasEvicted
  <2>5. r.began <= clock
    BY <2>3 DEF FreshInv
  <2> HIDE DEF r
  <2> QED
    BY <2>1, <2>3, <2>4, <2>5, FreshKept
<1>8. ASSUME NEW o \in Op, Write(o) PROVE FreshInv'
  <2> DEFINE r == [op[o] EXCEPT !.snap = Empty]
  <2>1. /\ r \in OpRecord /\ AfterWrite(o) \in Step
        /\ r.began = op[o].began /\ r.after = op[o].after
        /\ AfterWrite(o) \in {"idle", "hook"}
    BY EmptyType, NextSteps DEF TypeOK, OpRecord, AfterWrite
  <2>2. op' = [op EXCEPT ![o] = At(r, AfterWrite(o))]
        /\ clock' = clock /\ entries' = entries
    BY <1>8 DEF Write
  <2>3. op[o].after = "evict" => HasEvicted(op[o])
    BY <1>8 DEF Write, HasEvicted
  <2> HIDE DEF r
  <2> QED
    BY <2>1, <2>2, <2>3, FreshAt
<1>9. ASSUME NEW o \in Op, Hook(o) PROVE FreshInv'
  <2>1. op[o] \in OpRecord /\ AfterHook(o) \in Step
    BY NextSteps DEF TypeOK
  <2>2. AfterHook(o) = "idle" \/ HasEvicted(op[o])
    BY <1>9 DEF Hook, AfterHook, HasEvicted
  <2> QED
    BY <1>9, <2>1, <2>2, FreshAt DEF Hook
<1>10. CASE Tick
  <2>1. \A o \in Op : op[o].began \in Nat
    BY DEF TypeOK, OpRecord
  <2>2. \A o \in Op : op[o].began <= clock'
    BY <1>0, <1>10, <2>1 DEF Tick, FreshInv
  <2> QED
    BY <1>10, <2>2 DEF Tick, FreshInv
<1>11. CASE Restart
  <2>1. \A o \in Op : op'[o] = IdleOp
    BY <1>11 DEF Restart
  <2>2. clock' = clock
    BY <1>11 DEF Restart
  <2>3. \A o \in Op : op'[o].began <= clock' /\ ~HasEvicted(op'[o])
    BY <1>0, <2>1, <2>2, IdleFields
  <2> QED
    BY <2>3 DEF FreshInv, HasEvicted
<1>12. CASE UNCHANGED vars
  BY <1>12 DEF vars, FreshInv, HasEvicted
<1>13. QED
  BY <1>2, <1>3, <1>4, <1>5, <1>6, <1>7, <1>8, <1>9, <1>10, <1>11, <1>12
  DEF Next, OpStep

-----------------------------------------------------------------------------
(* Notifications *)

\* A step of one task that neither changes the entries nor forgets what the task
\* owes forgets nothing.
LEMMA SignalKept ==
    ASSUME TypeOK, ChangeIsSignalled, NEW o \in Op, NEW r,
           op' = [op EXCEPT ![o] = r],
           \/ told'
           \/ Owes(r)
           \/ told' = told /\ ~Owes(op[o])
    PROVE  ChangeIsSignalled'
<1>1. op'[o] = r /\ \A p \in Op : p # o => op'[p] = op[p]
  BY DEF TypeOK
<1>2. CASE told'
  BY <1>2 DEF ChangeIsSignalled
<1>3. CASE Owes(r)
  BY <1>1, <1>3 DEF ChangeIsSignalled, Owes
<1>4. CASE ~told' /\ told' = told /\ ~Owes(op[o])
  <2>1. PICK p \in Op : Owes(op[p])
    BY <1>4 DEF ChangeIsSignalled
  <2>2. op'[p] = op[p]
    BY <1>1, <1>4, <2>1
  <2> QED
    BY <2>1, <2>2 DEF ChangeIsSignalled, Owes
<1>5. QED
  BY <1>2, <1>3, <1>4

\* Every step of the cache preserves that changes are signalled.
LEMMA CacheSignalStep ==
    ASSUME TypeOK, ChangeIsSignalled, [Next]_vars
    PROVE  ChangeIsSignalled'
<1>1. ASSUME NEW o \in Op, NEW r, Begin(o, r) PROVE ChangeIsSignalled'
  BY <1>1, SignalKept DEF Begin, Owes
<1>2. ASSUME NEW o \in Op, CallStep(o) PROVE ChangeIsSignalled'
  BY <1>1, <1>2 DEF CallStep, CallUpsert, CallListAll, CallResetAll,
                    CallResetByConfigId
<1>3. ASSUME NEW o \in Op, evict_expired(o) PROVE ChangeIsSignalled'
  <2> DEFINE gone == {k \in Key : Expired(k)}
             r == [op[o] EXCEPT !.evicted = (gone # {}), !.after = "evict"]
             s == IF gone # {} THEN "snapshot" ELSE Body(o)
  <2>1. /\ op' = [op EXCEPT ![o] = At(r, s)]
        /\ told' = (told /\ gone = {})
        /\ op[o].at = "evict"
    BY <1>3 DEF evict_expired
  <2>2. (gone # {}) \in BOOLEAN
    BY Zenon
  <2> HIDE DEF gone
  <2>3. r \in OpRecord /\ s \in Step /\ r.after = "evict"
    BY <2>2, NextSteps, ZenonT(60) DEF TypeOK, OpRecord, Step
  <2>4. CASE gone = {}
    <3>1. told' = told /\ ~Owes(op[o])
      BY <2>1, <2>4 DEF Owes, TypeOK
    <3> QED
      BY <2>1, <3>1, SignalKept
  <2>5. CASE gone # {}
    <3>1. s = "snapshot"
      BY <2>5
    <3>2. Owes(At(r, s))
      BY <2>3, <3>1, AtFields DEF Owes
    <3> QED
      BY <2>1, <3>2, SignalKept
  <2> QED
    BY <2>4, <2>5
<1>4. ASSUME NEW o \in Op, Update(o) PROVE ChangeIsSignalled'
  <2> DEFINE k == CHOOSE key \in op[o].keys : TRUE
             changed == entries[k] = None \/ entries[k].tools # op[o].tools
             r == [op[o] EXCEPT !.changed = changed, !.after = "update"]
             s == IF changed \/ op[o].evicted THEN "snapshot" ELSE "idle"
  <2>1. /\ op' = [op EXCEPT ![o] = At(r, s)]
        /\ told' = (told /\ ~changed)
        /\ op[o].at = "update"
    BY <1>4 DEF Update
  <2>2. changed \in BOOLEAN
    BY Zenon
  <2> HIDE DEF k, changed
  <2>3. r \in OpRecord /\ s \in Step /\ r.after = "update" /\ r.changed = changed
    BY <2>2 DEF TypeOK, OpRecord, Step
  <2>4. CASE ~changed
    <3>1. told' = told /\ ~Owes(op[o])
      BY <2>1, <2>4 DEF Owes, TypeOK
    <3> QED
      BY <2>1, <3>1, SignalKept
  <2>5. CASE changed
    <3>1. s = "snapshot"
      BY <2>5
    <3>2. Owes(At(r, s))
      BY <2>3, <2>5, <3>1, AtFields DEF Owes
    <3> QED
      BY <2>1, <3>2, SignalKept
  <2> QED
    BY <2>4, <2>5
<1>5. ASSUME NEW o \in Op, Read(o) PROVE ChangeIsSignalled'
  BY <1>5, SignalKept DEF Read, Owes
<1>6. ASSUME NEW o \in Op, Clear(o) PROVE ChangeIsSignalled'
  <2> DEFINE gone == {k \in op[o].keys : entries[k] # None}
             r == [op[o] EXCEPT !.after = "clear"]
             s == IF gone # {} THEN "snapshot" ELSE "idle"
  <2>1. /\ op' = [op EXCEPT ![o] = At(r, s)]
        /\ told' = (told /\ gone = {})
        /\ op[o].at = "clear"
    BY <1>6 DEF Clear
  <2> HIDE DEF gone
  <2>2. r \in OpRecord /\ s \in Step /\ r.after = "clear"
    BY DEF TypeOK, OpRecord, Step
  <2>3. CASE gone = {}
    <3>1. told' = told /\ ~Owes(op[o])
      BY <2>1, <2>3 DEF Owes, TypeOK
    <3> QED
      BY <2>1, <3>1, SignalKept
  <2>4. CASE gone # {}
    <3>1. s = "snapshot"
      BY <2>4
    <3>2. Owes(At(r, s))
      BY <2>2, <3>1, AtFields DEF Owes
    <3> QED
      BY <2>1, <3>2, SignalKept
  <2> QED
    BY <2>3, <2>4
<1>7. ASSUME NEW o \in Op, Snapshot(o) PROVE ChangeIsSignalled'
  <2> DEFINE r == [op[o] EXCEPT !.at = "write", !.snap = entries]
  <2>1. op' = [op EXCEPT ![o] = r] /\ told' = told /\ op[o].at = "snapshot"
    BY <1>7 DEF Snapshot, TypeOK
  <2>2. r.at = "write" /\ r.after = op[o].after /\ r.changed = op[o].changed
    BY DEF TypeOK, OpRecord
  <2>3. Owes(op[o]) => Owes(r)
    BY <2>2 DEF Owes
  <2> HIDE DEF r
  <2> QED
    BY <2>1, <2>3, SignalKept
<1>8. ASSUME NEW o \in Op, Write(o) PROVE ChangeIsSignalled'
  <2> DEFINE r == [op[o] EXCEPT !.snap = Empty]
  <2>1. op' = [op EXCEPT ![o] = At(r, AfterWrite(o))] /\ told' = told
    BY <1>8 DEF Write
  <2>2. /\ r \in OpRecord /\ AfterWrite(o) \in Step
        /\ r.after = op[o].after /\ r.changed = op[o].changed
    BY EmptyType, NextSteps DEF TypeOK, OpRecord
  <2> HIDE DEF r
  <2>3. Owes(op[o]) => AfterWrite(o) = "hook"
    BY DEF Owes, AfterWrite
  <2>4. Owes(op[o]) => Owes(At(r, AfterWrite(o)))
    BY <2>2, <2>3, AtFields DEF Owes
  <2> QED
    BY <2>1, <2>4, SignalKept
<1>9. ASSUME NEW o \in Op, Hook(o) PROVE ChangeIsSignalled'
  BY <1>9, SignalKept DEF Hook
<1>10. CASE Tick
  BY <1>10 DEF Tick, ChangeIsSignalled, Owes
<1>11. CASE Restart
  BY <1>11 DEF Restart, ChangeIsSignalled
<1>12. CASE UNCHANGED vars
  BY <1>12 DEF vars, ChangeIsSignalled, Owes
<1>13. QED
  BY <1>2, <1>3, <1>4, <1>5, <1>6, <1>7, <1>8, <1>9, <1>10, <1>11, <1>12
  DEF Next, OpStep

-----------------------------------------------------------------------------
(* The theorems *)

\* The inductive invariant of the cache holds for any number of tasks, entries,
\* failed writes and restarts (tools_cache.rs).
THEOREM CacheConsistent == Spec => []CacheInv
<1>1. Init => CacheInv
  <2>1. Init => TypeOK
    BY EmptyType, CacheAssumption DEF Init, TypeOK
  <2>2. Init => ArgumentsInv
    BY DEF Init, ArgumentsInv, IdleOp
  <2>3. Init => FreshInv
    <3> SUFFICES ASSUME Init, NEW o \in Op
                 PROVE  op[o].began <= clock /\ ~HasEvicted(op[o])
      BY DEF FreshInv
    <3>1. op[o] = IdleOp /\ clock = 0
      BY DEF Init
    <3> QED
      BY <3>1, IdleFields
  <2>4. Init => ChangeIsSignalled
    BY DEF Init, ChangeIsSignalled
  <2> QED
    BY <2>1, <2>2, <2>3, <2>4 DEF CacheInv
<1>2. CacheInv /\ [Next]_vars => CacheInv'
  BY CacheTypeStep, CacheFreshStep, CacheSignalStep DEF CacheInv
<1>3. QED
  BY <1>1, <1>2, PTL DEF Spec

\* Types of the cache.
THEOREM CacheTypeCorrect == Spec => []TypeOK
<1>1. CacheInv => TypeOK
  BY DEF CacheInv
<1>2. QED
  BY <1>1, CacheConsistent, PTL

\* Every change of the cached tools is followed by a notification that some
\* operation still owes (evict_expired, upsert, reset).
THEOREM CacheSignalsChanges == Spec => []ChangeIsSignalled
<1>1. CacheInv => ChangeIsSignalled
  BY DEF CacheInv
<1>2. QED
  BY <1>1, CacheConsistent, PTL

\* list_all never returns what had expired when it was called, across restarts.
THEOREM CacheListsFresh == Spec => []ListedIsFresh
<1>1. CacheInv => ListedIsFresh
  BY DEF CacheInv, FreshInv, HasEvicted, ListedIsFresh
<1>2. QED
  BY <1>1, CacheConsistent, PTL
=============================================================================
