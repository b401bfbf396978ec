------------------------------ MODULE ToolsCache ------------------------------
(***************************************************************************)
(* The persistent cache of published tools (session_manager/tools_cache.rs *)
(* and support/atomic_write.rs): entries in memory under a lock, a file    *)
(* written after changes, and the tasks that use both at the same time:    *)
(* connection tasks (upsert), tools/list (list_all) and the                *)
(* tools_cache_reset tool.                                                 *)
(*                                                                         *)
(* Each operation is a sequence of critical sections.  persist takes its   *)
(* snapshot under the lock and writes the file, by an atomic rename, after *)
(* it.  The process may crash between any two steps; a restart loads the   *)
(* file.  Time is the wall clock, which goes on while the process is down. *)
(* The cache is enabled (a disabled one does nothing at all).              *)
(***************************************************************************)
EXTENDS Naturals

CONSTANTS
    Kind, Config,  \* an entry is filed under a (kind, config_id)
    Tools,         \* tool lists
    Op,            \* tasks that may use the cache at the same time
    CacheLife,     \* cache_life, in ticks
    MaxTime,       \* bound on the clock
    None

Key == Kind \X Config

ToolsCacheEntry == [tools : Tools, seen : Nat]

Entries == [Key -> ToolsCacheEntry \cup {None}]

ASSUME CacheAssumption ==
    /\ CacheLife \in Nat
    /\ MaxTime \in Nat
    /\ None \notin Tools
    /\ None \notin ToolsCacheEntry

VARIABLES
    clock,    \* Utc::now()
    entries,  \* ToolsCacheStore.inner
    file,     \* contents of tools_cache.json
    told,     \* notifier_hook was called after the last change of entries
    op        \* what each task is doing

vars == <<clock, entries, file, told, op>>

\* A task is about to take the step named by at.  "snapshot", "write" and "hook"
\* follow a change made by the step kept in after.
Step ==
    {"idle", "evict", "update", "read", "clear", "snapshot", "write", "hook"}

OpRecord ==
    [at : Step,
     method : {"upsert", "list_all", "reset"},
     after : {"evict", "update", "clear"},
     keys : SUBSET Key,
     tools : Tools \cup {None},
     evicted : BOOLEAN,
     changed : BOOLEAN,
     began : Nat,
     snap : Entries]

Empty == [k \in Key |-> None]

TypeOK ==
    /\ clock \in 0..MaxTime
    /\ entries \in Entries
    /\ file \in Entries
    /\ told \in BOOLEAN
    /\ op \in [Op -> OpRecord]

IdleOp ==
    [at |-> "idle", method |-> "list_all", after |-> "evict", keys |-> {},
     tools |-> None, evicted |-> FALSE, changed |-> FALSE,
     began |-> 0, snap |-> Empty]

\* load_or_empty with no file yet
Init ==
    /\ clock = 0
    /\ entries = Empty
    /\ file = Empty
    /\ told = TRUE
    /\ op = [o \in Op |-> IdleOp]

-----------------------------------------------------------------------------
(* Calls of the public operations *)

Begin(o, r) ==
    /\ op[o].at = "idle"
    /\ op' = [op EXCEPT ![o] = r]
    /\ UNCHANGED <<clock, entries, file, told>>

CallUpsert(o, k, t) ==
    Begin(o, [IdleOp EXCEPT !.at = "evict", !.method = "upsert", !.keys = {k},
                            !.tools = t, !.began = clock])

\* Variant for the mutation tests: list_all reads without evicting.
CallListAllUnswept(o) ==
    Begin(o, [IdleOp EXCEPT !.at = "read", !.method = "list_all", !.began = clock])

CallListAll(o) ==
    Begin(o, [IdleOp EXCEPT !.at = "evict", !.method = "list_all", !.began = clock])

CallResetAll(o) ==
    Begin(o, [IdleOp EXCEPT !.at = "clear", !.method = "reset", !.keys = Key,
                            !.began = clock])

CallResetByConfigId(o, config) ==
    Begin(o, [IdleOp EXCEPT !.at = "clear", !.method = "reset",
                            !.keys = {k \in Key : k[2] = config}, !.began = clock])

-----------------------------------------------------------------------------
(* Their steps *)

Expired(k) ==
    entries[k] # None /\ clock > entries[k].seen + CacheLife

\* What an operation does after its eviction
Body(o) == IF op[o].method = "upsert" THEN "update" ELSE "read"

\* The record of a task that goes on at step s; the locals of a call end with it.
At(r, s) == IF s = "idle" THEN IdleOp ELSE [r EXCEPT !.at = s]

\* The critical section of evict_expired
evict_expired(o) ==
    LET gone == {k \in Key : Expired(k)} IN
    /\ op[o].at = "evict"
    /\ entries' = [k \in Key |-> IF k \in gone THEN None ELSE entries[k]]
    /\ told' = (told /\ gone = {})
    /\ op' = [op EXCEPT ![o] =
                 At([@ EXCEPT !.evicted = (gone # {}), !.after = "evict"],
                    IF gone # {} THEN "snapshot" ELSE Body(o))]
    /\ UNCHANGED <<clock, file>>

\* The critical section of upsert.  An entry with the same tools only gets a new
\* last_seen_at, which alone is not written to the file.
Update(o) ==
    LET k == CHOOSE key \in op[o].keys : TRUE
        changed == entries[k] = None \/ entries[k].tools # op[o].tools
    IN
    /\ op[o].at = "update"
    /\ entries' = [entries EXCEPT ![k] = [tools |-> op[o].tools, seen |-> clock]]
    /\ told' = (told /\ ~changed)
    /\ op' = [op EXCEPT ![o] =
                 At([@ EXCEPT !.changed = changed, !.after = "update"],
                    IF changed \/ op[o].evicted THEN "snapshot" ELSE "idle")]
    /\ UNCHANGED <<clock, file>>

\* The snapshot list_all returns
Read(o) ==
    /\ op[o].at = "read"
    /\ op' = [op EXCEPT ![o] = At(@, "idle")]
    /\ UNCHANGED <<clock, entries, file, told>>

\* The critical section of reset_all and reset_by_config_id
Clear(o) ==
    LET gone == {k \in op[o].keys : entries[k] # None} IN
    /\ op[o].at = "clear"
    /\ entries' = [k \in Key |-> IF k \in gone THEN None ELSE entries[k]]
    /\ told' = (told /\ gone = {})
    /\ op' = [op EXCEPT ![o] =
                 At([@ EXCEPT !.after = "clear"],
                    IF gone # {} THEN "snapshot" ELSE "idle")]
    /\ UNCHANGED <<clock, file>>

\* persist under the lock
Snapshot(o) ==
    /\ op[o].at = "snapshot"
    /\ op' = [op EXCEPT ![o].at = "write", ![o].snap = entries]
    /\ UNCHANGED <<clock, entries, file, told>>

\* Where an operation goes on once it has written the file: an upsert that only
\* evicted has called the hook before.
AfterWrite(o) ==
    IF op[o].after = "update" /\ ~op[o].changed THEN "idle" ELSE "hook"

\* write_json_atomic: the whole file is replaced or, if something fails, left
\* as it is; a failure is logged and forgotten.
Write(o) ==
    /\ op[o].at = "write"
    /\ \/ file' = op[o].snap
       \/ file' = file
    /\ op' = [op EXCEPT ![o] = At([@ EXCEPT !.snap = Empty], AfterWrite(o))]
    /\ UNCHANGED <<clock, entries, told>>

AfterHook(o) == IF op[o].after = "evict" THEN Body(o) ELSE "idle"

\* Variant: list_all leaves the notification to its caller.
HookUnlessListing(o) ==
    /\ op[o].at = "hook"
    /\ told' = (told \/ op[o].method # "list_all")
    /\ op' = [op EXCEPT ![o] = At(@, AfterHook(o))]
    /\ UNCHANGED <<clock, entries, file>>

\* notifier_hook, that is mark_tools_changed
Hook(o) ==
    /\ op[o].at = "hook"
    /\ told' = TRUE
    /\ op' = [op EXCEPT ![o] = At(@, AfterHook(o))]
    /\ UNCHANGED <<clock, entries, file>>

-----------------------------------------------------------------------------
(* Time, crashes and restarts *)

Tick ==
    /\ clock < MaxTime
    /\ clock' = clock + 1
    /\ UNCHANGED <<entries, file, told, op>>

\* The process dies and is started again: load_from_disk.  An unreadable file
\* stands for an empty cache.  The agents connect anew and list the tools.
Restart ==
    /\ \/ entries' = file
       \/ entries' = Empty
    /\ op' = [o \in Op |-> IdleOp]
    /\ told' = TRUE
    /\ UNCHANGED <<clock, file>>

-----------------------------------------------------------------------------
(* The specification *)

CallStep(o) ==
    \/ \E k \in Key, t \in Tools : CallUpsert(o, k, t)
    \/ CallListAll(o)
    \/ CallResetAll(o)
    \/ \E config \in Config : CallResetByConfigId(o, config)

OpStep(o) ==
    \/ evict_expired(o)
    \/ Update(o)
    \/ Read(o)
    \/ Clear(o)
    \/ Snapshot(o)
    \/ Write(o)
    \/ Hook(o)

Next ==
    \/ \E o \in Op : CallStep(o) \/ OpStep(o)
    \/ Tick
    \/ Restart

Spec == Init /\ [][Next]_vars

-----------------------------------------------------------------------------
(* Properties *)

\* An operation that is still going to call the hook
Owes(r) ==
    /\ r.at \in {"snapshot", "write", "hook"}
    /\ r.after = "update" => r.changed

\* No change of what the agents are shown goes without a notification: as long
\* as the hook has not been called after it, some operation in progress is
\* going to call it, whatever other operations do meanwhile (upsert,
\* evict_expired, reset; ADR-0035 R4).
ChangeIsSignalled == told \/ \E o \in Op : Owes(op[o])

\* What list_all returns had not expired when it was called, also when the
\* entry came back from the file of an earlier process (list_all, restarts).
ListedIsFresh ==
    \A o \in Op : op[o].at = "read" =>
        \A k \in Key : entries[k] # None =>
            op[o].began <= entries[k].seen + CacheLife

\* The strengthening that makes the properties above inductive: an upsert knows
\* its tools, and an operation that has evicted finds nothing expired.
ArgumentsInv ==
    \A o \in Op :
        /\ op[o].at = "update" => op[o].method = "upsert"
        /\ op[o].method = "upsert" => op[o].tools \in Tools

HasEvicted(r) ==
    \/ r.at = "read"
    \/ r.at \in {"snapshot", "write", "hook"} /\ r.after = "evict"

FreshInv ==
    \A o \in Op :
        /\ op[o].began <= clock
        /\ HasEvicted(op[o]) =>
             \A k \in Key : entries[k] # None =>
                 op[o].began <= entries[k].seen + CacheLife

\* Whatever operations, crashes and failing writes interleave, nothing expired
\* is listed and nothing changes in silence (tools_cache.rs as a whole).
CacheInv ==
    /\ TypeOK
    /\ ArgumentsInv
    /\ FreshInv
    /\ ChangeIsSignalled
=============================================================================
